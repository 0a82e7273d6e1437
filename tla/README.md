# A TLA+ verification of luvi

luvi is a Lua runtime in one binary: a C program that embeds a Lua virtual machine and libuv, and three
Lua files that find an application (a folder, a zip, several of them layered, or a zip appended to the
binary itself), run it, or build a new binary from it. On Windows it also lets a Lua program be a
Windows service.

This directory holds models of its parts, TLC configurations that check them on small instances, and
TLAPS proofs of the results that matter most. Paths below are relative to the repository.

## 1. The system

| part | state it keeps | operations | talks to |
|---|---|---|---|
| **Program start**, `src/main.c` | the Lua state, the exit code | `vm_acquire`, `main` | calls `init.lua` under one `lua_pcall` |
| **Command line**, `src/lua/init.lua` | `bundles`, `options`, `key`, `appArgs` | detect an appended zip, parse, print, build or run | `miniz`, `luvibundle` |
| **Path joining**, `src/lua/luvipath.lua` | none | `pathJoin` and its helpers | called by all bundle functions |
| **Bundles**, `src/lua/luvibundle.lua` | closures over a base or an open zip; `luvi.bundle` | `stat`, `readdir`, `readfile` of folder, zip and combined bundles; `action`, `register` | `uv.fs_*`, `miniz` |
| **Bundle builder**, `buildBundle` there | the target's descriptor, the zip writer, the recursion of `copyFolder` | one long operation | a bundle, `uv.fs_*`, the zip writer |
| **Zip and compression**, `src/lminiz.c` | reader, writer and stream objects | locate, stat, extract, add, finalize; streams, compress, uncompress | miniz (a submodule) |
| **Windows services**, `src/winsvc.c` | `gBatons`, one baton per service: a control block, two async handles, two events | `SpawnServiceCtrlDispatcher`, `HandlerEx`, `ServiceMain`, three loop callbacks, `EndService`, `SetServiceStatus`; many one-call wrappers | the service control manager (SCM), libuv, Lua callbacks |
| **Service sample**, `samples/winsvc.app/main.lua` | `gRunning`, a timer; handles of the SCM and of a service | the callbacks a service gives to the bridge; the commands install, delete, start, stop | `winsvc`, and so the SCM and the service's process |
| **Heap snapshot**, `src/snapshot.c` | a scratch Lua state with six tables | `snapshot`: one recursive walk | the Lua state it is called from |
| **Environment**, `src/lenv.c` | the process environment, which all threads share | `keys`, `get`, `set`, `unset` | the C library, Windows |
| `luvi.c`, `winsvcaux.c`, `luvi_compat.c`, `luvi_renamed.c` | none | constants and wrappers | |

### What is hard in it

* **Threads** in the Windows service bridge: the loop thread, the
  dispatcher thread and one thread per started service share batons, and pass controls and argument
  vectors through coalescing async messages and manual-reset events. Memory is freed by the loop thread
  while others may still use it; a service may be started again in the same process; a spawn may fail
  half way and may be repeated.
* **Processes** around a service: others control it while it stops or ends, the system gives up on a control that is
  not answered in time and delivers it all the same, and a callback of the service's own loop may be the caller.
* **Threads of one application.** `main.c` gives each thread of luv a Lua state of its own, so nothing in Lua is shared; the
  environment of the process and the directory for temporary files are. `keys` and `get` are several calls, and so
  is `bundle.action`.
* **A disk that others change.** The builder lists, stats, opens and reads a file by one call of libuv after another, in each
  folder of the bundle; one that is gone, replaced or longer in between must not corrupt the archive. Two results of libuv are not looked at.
* **Two representations of one thing.** An application reads its files from a folder, from layered
  folders or from a zip, and is promised the same answers (README.md:102). The zip listing relies on the
  order in which the builder writes entries.
* **Graphs.** The snapshot walks a heap with cycles, shared objects, weak tables and objects whose entry
  is removed again half way.
* **A parser with modes**: `--` borrows a bundle, ends a flag that waits for a value, and the rest is not
  luvi's.

For each part, what makes it correct:

* bridge: each control is answered once, with its own code; a baton is used only while it lives; one
  dispatcher at a time, and a refusal only for a reason; a dispatcher's end is reported after everything it delivered; the loop can end.
* commands: a stop reported as done is one; a handle is closed on every path; no call waits for ever, and the
  service still serves its controls.
* environment: `keys` and `get` return what was there during the call, or the harm is bounded and named.
* actions: the file an action is lent is its own thread's; a temporary directory stays only for a reason.
* paths: evaluating special parts backwards gives what walking forwards gives; joins compose; a bundle
  path stays in its bundle unless `..` takes it out.
* bundles and builder: layers are one folder, the upper file winning; packing changes nothing a reader
  can see but the root; an archive holds only what was on disk, in an order that can be listed.
* streams: a caller gets all a stream puts out, in order and at once; `uncompress` finds a buffer that fits.
* launch: what runs is what the command line says; a bad line runs and builds nothing.
* snapshot: exactly what is alive is described, with all referrers.

`PROJECT.json` lists every component with its status and, under `hazards`, each hard place at its line
with the properties that would catch it going wrong.

## 2. The modules

### The Windows service bridge

`WinSvc` models `winsvc.c` 27-421 and the callbacks of the sample. `ServiceControl` says what the bridge
promises the SCM. `WinSvcControl` states the refinement between them and the inductive invariant;
`WinSvcProofs` proves it. It also proves how long the bridge's memory lives, from an invariant of its own.

State. `gBatons` is the list; `baton`, `block`, `blockEnd`, `svcEnd` and `argvOf` are a baton's memory,
indexed by (spawn, service), so that a freed baton is still recognizable. `ctlSent`, `mainSent` and
`endSent` are the pending flags of `uv_async_t`: sending to a handle sent to already changes nothing, as
in libuv. `loopAt`, `dispAt` and `svcAt` are program counters of the threads. A step is what a thread does
between two points at which another thread can matter: `HandlerEx` is five actions (store, reset, send,
wake, return), `ServiceMain` four, each loop callback two or three, because Lua code may be interrupted
between storing the code and setting the event. The dispatcher thread's state covers what
`StartServiceCtrlDispatcher` does: it serves until every service has reported STOPPED.

External behaviour (the SCM and libuv) is modelled from how the code uses it: the SCM sends one control at
a time to a process, a STOP only to a running service, and restarts a service in the same process only if
the process is shared with another one still there. `WinSvc` includes what can go wrong: a Lua callback that throws or
returns no integer, a `CreateThread` that fails, a bad service table, a freed baton that is read.

`SvcCommands` is the outside: processes that run the sample with an argument (one action per call of the
API they make, each with its failure), and the service's own process, whose loop thread may call `ControlService` for its own
service. That process is `Bridge == INSTANCE ServiceControl`, the abstract specification that `WinSvc` is shown to implement: `Send` is
the SCM's, `Handle` and `Answer` are the loop's and `HandlerEx`'s, and the sample's handler and timer are
added to them. `at`, `handles`, `log` and `shown` are a command's place, what it holds and what it has printed; `service` and
`state` are the SCM's, which drops a marked service when it is stopped and nobody holds it. `req` is the control a
caller waits for: a control that timed out is still `Bridge`'s. The status structure of a call that failed before
it was filled in is `"garbage"`. `SvcCommandsProofs` proves what the commands report.

### Paths and bundles

`LuviPath` has `pathJoin` on POSIX and on Windows. A path is a prefix (a slash; on Windows a drive or the
backslashes of a share, too) or none, and a list of parts; the strings between are
left out, since no part ever contains a separator. The evaluation from the last part to the first, with its
count of names to skip, is a recursive function (`Scan`). `PathCalls` enumerates its calls. `BundleProofs` begins with the proofs; `SequenceFacts`
has facts about sequences (induction, prefixes, what several are joined to, ranks) that several proofs use.

`LuviBundle` has a bundle as the code has it: a record of three functions `stat`, `readdir`, `readfile`
(here on a finite set of paths). `folderBundle` reads a partial function from paths to contents,
`zipBundle` a sequence of entries with `locate_file` and the listing's scan up to the first entry that is not
below, including the prefix of a zip with a single folder; `combinedBundle` takes first answers and merges
lists. A `stat` is reduced to its type. Contents are sequences of blocks; those in `Unreadable` are of files that exist and cannot be
opened. These functions say what a bundle answers while nothing changes; the calls they are made of, on a disk that does
change, are in `BuildBundle`. Names are compared as they are (miniz by default ignores case). Folders hold only files and directories.

`LayeredBundle` has the folders named on a command line, on a disk (`fs`), with the bundle `makeBundle` gives of
them, and what that bundle promises. `Agree(p)` says that the layers do not differ at a path in kind (a file here and a directory
there, or a file that can be read here and not there).

`BuildBundle` extends it with `buildBundle`. A step is one call of libuv: open the target, copy the runtime, then for each name
`fs_stat`, and for each file the `fs_stat`, `fs_open` and `fs_read` of `readfile` (`SizeFile`, `OpenFile`, `AddFile`), each in one folder of the
bundle after another (`asked` is the folder asked, with the names, the size and the open file in hand); `fs_close` changes nothing
that is modelled. Each may fail on what is there (`Fails`, bounded by `MaxFaults`): the code then asks the next folder, lists nothing, or
raises an error. Between any two of them `Edit` is another program that changes a file, also one that is open. `frames` and `child` are
`copyFolder`'s recursion and the path in hand, `entries` what the writer has been given, `target` how much of each half was
written, `seen` the history of what files held. When the build is done, the entries are read back by `zipBundle`: `PackedReadsTheSame`
and `RerootedReadsBelow` compare the two representations. `MCBuildBundle` has the folders TLC takes; `MCBundleReads` puts `PathCalls` and builds
without faults into one run. `BundleProofs` has the proofs of both modules, which rest on those for paths.

`BundleAction` is `bundle.action`, call by call (`fs_mkdtemp`, `fs_open`, `fs_write`, the action in its `pcall`, `fs_unlink`,
`fs_rmdir`), each with its failure, whether the code looks at it or not, run by several threads with a file of one name. It extends `Env`, because `tmpBase` is read from the
environment when a thread's Lua state loads `luvibundle`. `file` is what is in each temporary directory, `others` the
directories in which an action left files of its own; `wrote` and `failed` are history. `BundleActionProofs` has the proofs.

### Environment

`Env` is `lenv.c`, called by the threads of one process, on POSIX and on Windows (`platform`). A call of the C library or of
Windows is one step: `set` and `unset` make one, `get` two on Windows, `keys` on POSIX one to count and one for each entry. `get` on POSIX
is two steps as well: `getenv` gives a pointer, and `lua_pushstring` copies from it. If another thread wrote the variable in between, what is
there is up to the C library (`AtPointer`: the old string, the new one, or garbage). `environ`
is a sequence, because `keys` walks it by index while `setenv` and `unsetenv` add and move entries. A value is its
length, which is what the second call of `get` depends on; `"="` is the name of the hidden variables of Windows. `seen` and `written` are
history: the environments there were during a call, and the variables other threads wrote. `Lists(names, e, hidden)` says that `names` is what a
walk through `e` gives, the hidden entries left out; `Listing` is that walk. The loop that counts the entries is one step, reading an entry of `environ` with
its name is one, and so is `os.getenv` when `luvibundle` is loaded. That a call
of the C library is one step is an assumption: glibc locks `setenv` and `unsetenv` against each other, but not `getenv`.

### Compression

`Streams` has the objects of `new_deflator` and `new_inflator` and the loop of `lmz_inflator_deflator_impl`, one
action per turn (`Fills`, `Drops`, `FallsShort` and `Fails` are what may come of it), and `uncompress`, one action per size
tried. Bytes are numbers in the order in which a stream puts them out, so that a loss, a repetition or a wrong order shows.
`buf` is the `luaL_Buffer` of LuaJIT (the engine luvi is built with by default, `Makefile` 14): its C array, and its
earlier pieces on the Lua stack, which `adjuststack` joins by their number and their lengths; the code pushes other values there, too.

What miniz does is external. A deflator fills the buffer as far as it can and takes all its input before it leaves room. An inflator decompresses
into a window of its own (`Window` bytes) and serves the turns of a call from there. So `mz_inflate` may return `MZ_BUF_ERROR` although it has filled the buffer:
told to finish in its first call without room for everything (`LacksRoom`, after which it is of no use), told to finish later with more than a buffer to come
(`TooMuch`), or where a window begins anew and no input is left (`Starves`). Line 315 takes that status for nothing to do and drops
the bytes (`Drops`). At the window's end it may also return with room left in the buffer, which ends the call early (`FallsShort`). `spills` marks an inflator once its
data and its caller have brought it to one of these places; `OutputWhole` and `FlushedWhole` say that nothing is lost elsewhere.

### Start, command line, exit

`Launch` goes from `main` to the exit code. The parser is one action per argument (`ParseArg`), with the
loop's branches as disjuncts, and `error()` anywhere leads to exit code -1. Properties compare the result
with the command line read as a whole (`ValuePlaces`, `End`, `Words`, `Mains`), not with the parser's own variables. `UnknownFlags` are the
arguments that begin with a dash and are in no table. `LaunchProofs` has the proofs.

### Snapshot

`Snapshot` turns `mark_object`'s recursion into `frames`; `called` is the object on top of the Lua stack with the
referrer it was reached from. `MarkAgain` and `MarkNew` are the two outcomes of `readobject`; `MarkReturns` is
the end of the four `mark_` functions, where sources are stored and a light C function loses its entry.
The heap is arbitrary: `refs` are metatables, environments, upvalues and locals, `keys` and `values` what a
table holds, `mode` its weakness.

## 3. What the runs check

Runs named *violation* show where the code does not do what a sentence of the repository says.

| run | module, bounds | what it shows |
|---|---|---|
| `winsvc_restart` | WinSvcControl; 2 services, 1 spawn, 2 starts each, 2 controls | types; the inductive invariant; each control gets its own code; argument vectors outlive their use; nothing undelivered at a dispatcher's end |
| `winsvc_live` | 1 service, 2 spawns, 1 start each, 2 controls, fair | one dispatcher at a time; no use of a baton that is not live; refinement of `ServiceControl` with liveness; the end is reported; the loop drains; STOP leads to STOPPED; a spawn is refused only while a dispatcher runs or after one failed half way |
| `svc_commands` | SvcCommands; 2 commands and the loop, 3 controls, fair | what a stop reports; handles closed on every path; a control of the loop's own service never succeeds; the bridge still keeps `ServiceControl` with its liveness |
| `app_threads` | BundleAction; 2 threads, 3 names (TMPDIR, a hidden one, another), values of 2 lengths, 3 calls, 2 directories for each base; POSIX and Windows | `keys` and `get` return what was there, unless another thread writes in between; an action's file is its own; what is left behind has a reason |
| `bundle_reads` | MCBundleReads; 2 names, up to 3 paths of up to 2 parts with a slash, a drive or a share; 2 folders of 3 paths, 3 contents of which one cannot be read, no faults, no compiling | `pathJoin` against a forward walk; composition; staying in the base; layers that agree are one folder; the upper file wins; listing and stat agree; a bundle that is rerooted answers below its top directory as the folders did |
| `build_edits` | MCBuildBundle; 1 folder of 5 paths, 3 deep, contents of 2 lengths, all flags, 1 edit, 1 fault | entries in listable order, with contents their files had, whatever is changed or fails meanwhile; a packed folder reads as it did on disk, also along detours with `..` |
| `build_done` (violation) | MCBuildBundle; 1 folder of 3 paths | "Done building" after a failed write |
| `packed_reads` (violation) | the same | a folder with a single directory at its top does not read the same once packed |
| `streams` | Streams; 1 stream, buffer of 2 bytes, window of 4, strings joined from 3 on, 4 calls that bring up to 7 bytes each, INT_MAX 8 | callers get all of a stream's output, in order and at once, but for the inflators named above; `uncompress` finds the size that fits, and frees its buffers once where it does not end at INT_MAX |
| `streams_failed` (violation) | the same | a failure after a full window does not return nil |
| `launch` | 8 words, up to 4 arguments | the right application, main file and arguments; bad lines fail |
| `snapshot` | MCSnapshot; 3 objects, one of them with weak tables, fair | the invariant; exactly what is alive, with all referrers; sources of threads; the walk ends |

Why the bounds are enough to mean something. In the bridge, two services are what it takes for messages
of different batons to coalesce and interleave, two spawns for one to follow another, and a second
control for an answer to be mistaken for the one before; the proofs remove these bounds for what they state. Three paths
are needed for an absolute one between two others. A folder three deep has a directory with an entry before, in
and after it, which is what the zip listing's scan depends on; one edit suffices to remove a file, to put
a directory in its place, or to make it longer or shorter, between its listing, its stats, its opening and its reading; contents of two lengths show one that is cut off. Two layers suffice because `combinedBundle`
goes through them in order, with nothing in hand but the names so far; the proofs have any number of both. Four arguments hold a flag with its value, a bundle and `--`, or two flags of one kind.
Two commands and the service's own loop are three callers, of which one can time out, one be served and one be refused; a third control
follows one that timed out unanswered. Two threads make an `unset` during `keys` or a write during `get`, with a third call to
write first; two directories below one base are what two actions at once need. A buffer of two bytes, a window of two buffers and output past it give turns that fill the buffer exactly, partly and not at all, on both sides of the window's end, and more strings than `luaL_Buffer` leaves apart. Three objects give the snapshot cycles of length two and an object shared by two referrers; the proofs
cover any number.

Deadlock checking is off: each modelled program ends.

### Fairness

Safety is checked without any. `FairSpec` of `WinSvc` is weak fairness of every step a thread takes by
itself: libuv runs each pending callback in an iteration of the loop, and the system schedules threads.
The SCM is not fair: it need not start or control anything; nor is the application bound to spawn. `LuaError` and the fault
outcomes are never forced. In `SvcCommands`, `SvcHandler` is strongly fair: while the loop thread calls `ControlService` the handler cannot run, but libuv
delivers a pending message before the loop goes on to repeat another callback; a call of `ControlService` gets an
answer, a refusal or the SCM's time limit, and `HandlerEx` returns once its event is set (weak fairness).
Commands may stop at any point. A snapshot
(`WF_vars(Next)`) is one thread that runs until it returns. The other runs check safety and assume nothing.

### Mutants

For each property of a passing run `PROJECT.json` names a mutant: a definition of the model replaced by one a
plausible bug would give (no `ResetEvent`, a wait left out, a list not cleared, special parts counted in the
wrong order, no entry for a directory, ...), under which the property fails. Operators such as `KeepBlockEnd` or
`NoKeys` that nothing uses are these.

## 4. What is proved

TLAPS checks these for every value of the constants: any service table, any number of spawns, starts and
controls; any heap.

**Bridge** (`WinSvcProofs`, from `ServicesAssumption`: the table is finite, and `BoundsAssumption`).

* `TypeCorrect`: `Spec => []TypeOK`.
* `ControlInvariant`: `Spec => []ControlInv`. `AnswersMatch` alone is not inductive: a step of `HandlerEx` that
  reads the code is correct only because the event it waited for was set after that code was stored, and
  not for the control before. `ControlInv` says who holds the one control under way: at each point exactly
  one of the message, `svchandler_cb` and the event has it (`PassingInv`), what is settled then (`SettledInv`), that only the
  newest control can be unanswered (`HistoryInv`), and that a dispatcher's batons are those of the list (`DispatcherInv`).
* `AnswersCorrect` and `DispatcherUnique` follow: `AnswersMatch`, `OneDispatcher`.
* `ControlRefined`: `Spec => Control!Safe`. Every step of the threads is a step of `ServiceControl` or a stutter.
* `LifeInvariant`: `Spec => []LifeInv`. Nothing in the code says that a baton outlives its users: it is freed when the
  dispatcher's end is handled, and the dispatcher returns when every service is STOPPED. `LifeInv` therefore follows a start: at any time
  one of `ServiceMain`, its message, `svcmain_cb` and the sample's timer has it, and while one has it the service is not STOPPED (`TurnInv`),
  so that the dispatcher serves and the batons stay (`LiveInv`). Starts are counted against calls of the main
  function, with the one on its way as the difference (`CountInv`); the first start owns the argument vector until its event is set
  (`ArgsInv`); the list has a reason (`ReasonInv`).
* `BatonsStayLive`, `ArgsStayAlive`, `EndIsLast`, `RefusedOnlyForReason`: `BatonsLive`, `ArgsAlive`, `DrainedAtEnd` and `RefusedForReason` follow,
  the last two as properties of steps. They rest on the sample's callbacks: an application that reports STOPPED
  before its main function was called, or starts a second timer, is outside the model.

**Snapshot** (`SnapshotProofs`, from `SnapshotAssumption`: the registry is an object).

* `TypeCorrect`, and `WalkInvariant`: `Spec => []WalkInv`. The invariant of a graph search, for a recursive one that
  records referrers: what is in hand is alive; a child of a marked object is marked or still pending in
  some frame; so are the entries for referrers, except for light C functions, which have one only while
  their own call is under way.
* `MarkedIsAlive`, `ResultComplete`, `SourcesThere`: when nothing is pending, the marked objects form a closed
  set with the registry in it, so they are all that is alive. `Alive` is defined as being in every closed set, which needs no recursion
  and makes both directions first-order.
* `WalkEnds`, for finitely many objects: `Spec => [][Work' < Work]_vars /\ [](Work \in Nat)`. `Work` counts each visit to come and each object not entered as two,
  and each frame, the call in hand and the missing result as one; it shrinks with every step, since no object is in two frames (`OneCallEach`). A walk that goes on
  therefore ends; that it goes on is fairness, so that `Ends` itself stays with TLC.

**Commands** (`SvcCommandsProofs`, from `LoopAssumption`: the loop is not one of the commands): any number of commands and controls.

* `SelfControlNeverSucceeds`, `StopToldTrue`: `Spec => []SelfControlFails`, `Spec => []StopTold`. Neither is inductive. `CommandInv` says
  that a control is handled before it is answered and only then (`ControlsInv`), that whoever waits waits for a control that was sent, and that one
  the loop sent is not handled while it waits (`WaitInv`: the loop is the only one who could), and that a control handled without an error leaves the
  service stopping (`StopsInv`); what a command reports (`ReportInv`) follows step by step.
* `HandlesAlwaysClosed`: `Spec => []HandlesClosed`, which is inductive with the types.

**Actions and environment** (`BundleActionProofs`, from `EnvAssumption` and `ActionAssumption`, the types of the bounds): any number of threads,
names, lengths, directories and calls.

* `ActionFileHolds`, `NothingLeftBehind`: `Spec => []ActionFile`, `Spec => []NothingLeft`. The invariant adds to them that the directories of threads at
  work are there and are all different (`OwnDirs`), which `fs_mkdtemp` gives and no other step disturbs, and what the file is at each place
  (`FileKnown`).
* `GetReturnsTrue`: `Spec => []GetTrue`. `SizedTrue` says that between the two calls of Windows the size in hand is that of a value seen during the call,
  `PointedTrue` that the pointer in hand on POSIX was to such a value; what another thread makes of it in between is the exception that `GetTrue` names.
* `KeysReturnsTrue`: `Spec => []KeysTrue`. `KeysInv` follows a call through its three stages. While it reads and nobody has written, the names so far
  are those of the first entries of the one environment seen, each at its rank (`ReadingTrue`); at its end the list is that of an environment there was
  (`ListedTrue`); and it can only run past the end if one was shorter than the count (`FaultTrue`). That a listing skips hidden entries and keeps
  the others' order is an induction over the environment (`ListingDef`, `ListingLists`).

**Paths** (`BundleProofs`, from `NamesAreNoDots`): any number of paths with any parts, on POSIX and on Windows.

* `EvaluateIsWalk`: the evaluation from the last part to the first is a walk from the first to the last, for every sequence of parts. The induction is over
  suffixes: walking one from any directory is leaving as many of its last names as the skip count says and going down what is kept.
* `PathJoinAppend`, `PathJoinClean`: joining one more path is joining it to the result so far; a result has no dots left.
* `JoinsStepwiseAlways`, `WalksForwardAlways`, `RelativeStaysInBaseAlways`: the three properties of the run, from these.

**Bundles and builder** (`BundleProofs`, from `BundleAssumption`: nil, a directory and contents differ; `LayersAssumption`: the
paths below a base are closed under parents, and a base below another one is at one of them; and `BuildAssumption`, types): any number of folders, names, contents, edits and
failures.

* `FoldersStayTrees`: below each base the disk stays a tree, whatever other programs do.
* `UpperFileWinsAlways`, `ListedIsThereAlways`, `LayersAreOneFolderAlways`: the properties of layers. A path that stays in the bundle is joined to each
  base as the walk of its parts (`StaysInside`, by the path results), so that the layers are compared node by node; the merged listing is a set of names.
* `BuildTypeCorrect`: the types include that each name on a list of `copyFolder`, and each that a bundle function has collected, is a path of the tree; `HeldInv`: the history
  has all that files hold.
* `EntriesTrueAlways`: `Spec => []EntriesTrue`. `AskedInv` says that between two calls of `readfile` the size in hand is that of something the file of
  this layer held, and the open file has something it held. That need not be the same thing: the entry is one, cut off at most at the length of the other.
* `EntriesListableAlways`: `Spec => []EntriesListable`. The order of the entries so far says nothing of those to come, so it is not inductive: `OrderInv` adds that the
  directories which are open are those of the frames, outermost first, that what is still listed in a frame is in no entry, and
  that the last entries are all below the innermost of them. An edit does not disturb it, since a list in hand is not read again.
* `NothingLeftOutAlways`: `Spec => []WholeInv`. While nobody edits and nothing fails, each entry is what the bundle has at its name (`Right`); what the call under way has in hand
  is what the folders asked so far gave, and they had no answer (`AskedRight`); and each path that the bundle shows and that can be reached through its directories
  (`Reachable`) has an entry, or one of its ancestors or itself is still on a list or in the hand of a `copyFolder` (`Coming`, `NothingLeftOut`).
* `PackedReadsTheSameAlways`, `RerootedReadsBelowAlways`: `Spec => []PackedReadsTheSame`, `Spec => []RerootedReadsBelow`. When the build is done nothing is coming, so the entries are those of the
  merged folder (`Merged`), to which both readers are compared, where the layers agree (`Faithful`). On the side of the folders this is the lemma behind
  `LayersAreOneFolderAlways`. On the side of the zip each path is looked up under the root that `zipBundle` found, if any (`RootIs`), and the scan which stops
  at the first name not below the directory has then seen all that is: by `EntriesListable` they are one run after its own entry.

**Streams** (`StreamsProofs`, from `StreamsAssumption`: types only): any number of streams and calls, any amount of output, every size of the buffer and of the window, and
however `luaL_Buffer` joins its strings.

* `NothingLeftDue`: `Spec => []FlushedWhole`. Inside a call the stream may owe bytes, for as long as each turn fills the buffer; `OwedInv` says that no other
  stream does, and not this one either if miniz refuses the call, which then leaves without a turn; inflators that spill apart.
* `OutputStaysWhole`: `Spec => []OutputWhole`. What was returned, what is in the strings and in the array of the buffer, in this order, is all the stream has put out;
  joining strings changes none of it. A stream that neither broke nor spills is never one whose bytes line 315 drops.
* `UncompressTriesAll`: `Spec => []UncompressExact`. The sizes tried are the first and its doublings, and between two of them no buffer is held. On the exit at INT_MAX, where
  the last buffer is freed twice, it says only that no size tried was enough.

**Command line** (`LaunchProofs`, from `LaunchAssumption`: an unknown flag is not in the table of flags): command lines of any length.

* `RunsAsToldAlways`, `BadLineAlwaysFails`: `Spec => []RunsAsTold`, `Spec => []BadLineFails`. Neither says anything until the line is parsed. `ReadUpTo(p)` is what
  the parser knows after `p` arguments before the first `--`: it waits for a value exactly if the reading of the whole line makes the next argument one,
  the options are those of the flags so far but for the one that waits, no two of them are the same, and the main file is the value of its flag. That
  the first `--` ends it in either mode gives the rest (`RestTaken`). Of the bundles and arguments of a line that names no bundle before `--` they say nothing.

Only model-checked is liveness (`EndReported`, `LoopDrains`, `StopsWhenTold`, the liveness of `ServiceControl`, `Ends`, `ControlsServed`), which is out of the prover's
reach. Every invariant that a passing run checks is proved, and so are `DrainedAtEnd` and `RefusedForReason`, which speak of steps, and the safety of `ControlSpec`.

What a recursive function or a fold over sequences gives for every input is proved here by
`NatSetInduction`, over the set of lengths for which it holds, since the induction rules that take an operator cannot be used.

## 5. Findings

Three are shown by a run, and `PROJECT.json` quotes the line each disagrees with: a stream that fails
after a full window of output does not return nil; a build is reported as done after a failed write; a folder with a
single directory at its top is rerooted there once it is packed (`luvibundle.lua` 144-148), so that its paths change, against `README.md` 102.

These the models have as the code does. The properties leave such a case open or name it as an exception; only for a service's control of itself do they state what comes of it.

* A refused `SpawnServiceCtrlDispatcher` says that a dispatcher is already running, also when an earlier call failed half way
  (`winsvc.c` 364, 413) and left its batons in `gBatons`: nothing runs then, and no later call can succeed. The last case of `RefusedForReason`.
* The dispatcher returns when every service has reported STOPPED, and the batons are freed then (`winsvc.c` 301-340); a `ServiceMain` thread may read its
  baton once more after that (`ServiceMainEnters` lets it fault).
* A control that a callback sends to its own service always fails, after the SCM's time limit, and is carried out afterwards
  (`winsvc.c` 256-268): `SelfControlFails` and `ControlsServed`.
* `keys` reads past the end of `environ` when another thread unsets a variable meanwhile (`lenv.c` 31-42). `get` returns what was in its buffer when
  a value becomes longer, or goes, between its two calls (`lenv.c` 130), and on POSIX copies from a pointer of `getenv` that another thread's
  write may have made invalid (148): the exceptions in `KeysTrue` and `GetTrue`.
* `set` compares the result of `setenv` with `EINVAL`, which is -1 with the reason in `errno`, so that an invalid name is reported as
  lack of memory (`lenv.c` 185-191). Only the words differ.
* On a real path `bundle.action` calls the action without its further arguments (`luvibundle.lua` 316), otherwise with them (325).
* A failed `fs_open` in `bundle.action` ends in an error of `fs_write` and leaves the temporary directory (`luvibundle.lua` 322-323); the results of
  `fs_unlink` and `fs_rmdir` are not looked at (326-327), and one that fails leaves it too: `failed` in `NothingLeft`.
* `SvcInstall` reports that the service is installed whatever the two calls of `ChangeServiceConfig2` returned (`main.lua` 183-191).
* `StartService` with a table of arguments fails in its second step of `lua_next`, since the value is left where the key should be
  (`winsvc.c` 285-289); the sample passes nil.
* The layers are said to be one file system in which lower indexed items overshadow later ones (`luvibundle.lua` 219-220). `readdir` merges all of them, so that
  a file of the first layer does not overshadow a directory of a later one there (244-256); and `stat` and `readfile` pass over a
  layer whose file exists but cannot be opened or read, and answer with a later one's (228-236, 267-275). `Unmixed` leaves such paths out of `LayersAreOneFolder`
  and of the comparisons with a zip; `UpperFileWins` has the part that holds.
* In layered folders `readdir` cannot tell an empty directory from a missing one: a list is made only for a first name (251-255), so
  both are nil, while `README.md` 121 says so of a missing one only. `LayersAreOneFolder` and `PackedReadsTheSame` leave the list of an empty directory of several layers open.
* The builder takes a failed `fs_scandir` for a directory with nothing in it (`luvibundle.lua` 181): its files are missing from the archive, and nothing is reported. A file that
  grows or is replaced between the `fs_stat` and the `fs_read` of `readfile` (47-54) is packed cut off: what `EntriesTrue` allows.
* Without a bundle before it, `--` takes the first argument after it for the bundle (`init.lua` 119-122), though the usage text and `README.md` 213 say that
  all arguments after it go to the application (`init.lua` 75). `RunsAsTold` leaves out the bundles and arguments of such a line.
* `mz_inflate` returns `MZ_BUF_ERROR` also after it has put bytes out, and line 315 of `lminiz.c` then drops them; an inflator may also end a call at its window's end with input not taken.
  `Spills` in `Streams` says which inflators these are; the test application, which reads its stream back in one call or in pieces
  (`samples/test.app/main.lua` 178-208), stays below it. `OutputWhole` and `FlushedWhole` leave them out.
* `uncompress` frees its last buffer twice when its size has run up to INT_MAX (`lminiz.c` 426 and 442): `UncompressExact` says nothing of the frees on this exit.

## 6. What is not modelled

* What the wrappers of the service API make of their arguments, and `GetErrorString`: conversions of one call, which no other step sees.
* `bundle.register`: it puts a loader into `package.preload`, once.
* The memory of `lenv.c` and the conversion to UTF-16: a wide name that `unset` never frees (`lenv.c` 215) is listed as a hazard only.
* miniz and libuv themselves: submodules, present only by how the code calls them. An archive in a model is whole, so a failed
  extraction (`lminiz.c:173`) does not occur.
* The Lua stack, but for the buffer of a stream: the slots that `svchandler_cb` leaves at each control (`winsvc.c` 94-112), and a user value that is no table left by `readobject` on Lua 5.3 and later (`snapshot.c` 223).
* Wording: version and help texts, descriptions in a snapshot, log output.
* Vendored `deps/bit.c`, build files, CI, the REPL sample.

## 7. Plan

Done, in this order: the bridge with its proofs, paths, bundles, builder, layers, launch, snapshot with its proofs, streams,
Windows paths, environment and actions with their proofs, commands with theirs. Next:

1. Names in zips: miniz finds them without regard to case, folders do not.
2. Readers and writers of `lminiz.c`: descriptors and archives that are opened, closed and collected, and an error in between.
3. `bundle.register` with the loaders it makes.
