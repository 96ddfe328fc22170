# A verification project for Qt Creator

This directory holds TLA+ models of the stateful parts of Qt Creator (the
plug-in based IDE in this repository), TLC configurations that check them on
small instances, and proofs that the TLA+ proof system checks for every
instance. Paths of the code are relative to the repository; `projectexplorer/`
is short for `src/plugins/projectexplorer/`, and so on.

Contents: [the system](#the-system), [the plan](#the-plan),
[the modules](#the-modules), [the runs](#the-runs), [bounds](#bounds),
[fairness](#fairness), [the proofs](#the-proofs), [findings](#findings),
[what is not modelled](#what-is-not-modelled), [running](#running).

## The system

Qt Creator is a small kernel (`src/app`, `libs/extensionsystem`) that loads
plugins; all else is plugins, which talk to each other through objects in the
plugin manager's pool, direct calls, and Qt signals. Nearly everything runs in
the GUI thread. Concurrency comes from three sources: functions that are run in
the thread pool (`QtConcurrent::run`: build steps, C++ parsing, QuickOpen
refreshes), external processes (gdb, make, version control), and the event loop
itself: queued signals, timers, and modal dialogs that run a nested event loop
in the middle of a function.

### Components

| Component | State | Operations | Talks to |
|---|---|---|---|
| **BuildManager** `projectexplorer/buildmanager.cpp` | queue of steps and the parallel list of configurations, `m_running`, `m_canceling`, current step, active steps per project, progress counters, progress future, the watcher of the worker's future | build/clean projects, `appendStep`, `cancel`, `nextBuildQueue` (posted by the worker), `nextStep`, `clearBuildQueue` | worker thread; progress widget (`canceled()`); whoever listens to `buildStateChanged`, `buildQueueFinished` |
| **PluginManager, PluginSpec, OptionsParser** `libs/extensionsystem` | the specs with their state, error and resolved dependencies; the plugin instances | `setPluginPaths`, `-noload`, `resolveDependencies`, `loadQueue`, `loadPlugins`, `stopAll` | each plugin's library, `initialize`, `extensionsInitialized`, `shutdown` |
| **SessionManager, SessionFile** `projectexplorer/session.cpp`, `sessiondialog.cpp` | the session file in use (projects, startup project, dependencies), session name, list of sessions, the files on disk | open, unload, dependencies, startup project; create, load, save, clear, clone, delete, restore | project managers, EditorManager, the settings |
| **ProjectExplorerPlugin** `projectexplorer/projectexplorer.cpp`, `outputwindow.cpp` | current project, delayed run and its mode, debugging run control, which actions are enabled, tabs of the output pane | the menu actions; slots of BuildManager, SessionManager and run controls | BuildManager, SessionManager, Debugger |
| Build steps, ApplicationLauncher `projectexplorer/abstractprocessstep.cpp` ... | a process, its timer | `init`, `run`, `checkForCancel` | the operating system |
| **GdbEngine** `plugins/debugger/gdbengine.cpp` | tokens, cookies, pending requests, the token barrier | `sendCommand`, results, asynchronous records, queries of the views | gdb, DebuggerManager |
| **BreakHandler** `plugins/debugger/breakhandler.cpp` | table of breakpoints (what the user wants of each, what gdb has acknowledged), removed ones, what the session keeps | insert, remove, edit, synchronize, answers of gdb, load and save | GdbEngine |
| **DebuggerManager**, runner | status of the inferior | start, exit, interrupt, status changes | GdbEngine, DebuggerRunControl |
| Object pool, Aggregate | the list of objects and its lock; parents of components | add, remove, query, delete | every plugin, any thread |
| SynchronousProcess `libs/utils` | result, hang counter, two buffers | `run`, timer, `finished`, `error` | a process, a nested event loop |
| MultiTask `libs/qtconcurrent` | watchers per object | `run`, `cancelSelf`, progress and end of each | thread pool, GUI thread |
| QtSingleApplication, QtLockedFile `shared` | lock file, local server | `isClient`, `sendMessage`, `receiveConnection` | other instances |
| **FileManager** `plugins/coreplugin` | managed files with time stamps, watcher, changed files, the block of the reload dialog | add, remove, change, reload, save modified files | editors, the file system, a modal dialog |
| **EditorManager** | open editors, duplicates, histories | open, close, go back and forward | FileManager |
| ProgressManager | tasks, their widgets | add, cancel | BuildManager and other tasks |
| **CppModelManager** `plugins/cpptools` | snapshot, projects and the cached list of their files, a timer per editor | refresh, document updated, garbage collection | parsers in the thread pool, the QuickOpen filter |
| QuickOpen, Find | filters, their caches | refresh, accept, settings | thread pool |
| others | see [what is not modelled](#what-is-not-modelled) | | |

### Behaviours that are hard, and what makes each part correct

**BuildManager.** `cancel()` blocks the GUI thread until the worker has
returned, so what the worker posts meanwhile is delivered to a manager that is
idle already, or building again. Nobody waits for those events; they are told
apart by `m_canceling` and by what `setFuture` removes from the event queue.
Steps may be appended during a build; a step's `init()` may fail in the middle
of `nextStep`; a request may have no step at all. It is correct when steps are
executed one at a time, in order, with their configuration, only after a
success; when a failure or a cancellation drops all that is pending; when each
build is reported once and truthfully; and when what `isBuilding(project)`
answers never goes wrong, for it enables the actions of the menu.

**PluginManager.** Dependencies may be circular or missing, specs may be deleted
by an option while others point to them, and a plugin may fail in its library or
in `initialize()`. Errors are noted in three places and read in two. It is
correct when the order of loading respects all dependencies, when exactly the
plugins whose dependencies all work are running, and when the plugins go down in
the reverse order.

**SessionManager.** A session is left by saving, clearing and deleting it, each
of which may fail half-way, and is entered by reading a file whose projects may be
gone. A deleted session whose file could not be removed comes back with the next
session of that name. An empty default session is an exception in several places. It
is correct when no sequence of edits and switches loses or mixes up sessions, saves
one that was deleted, closes a circle of dependencies or keeps a pointer to a project
that is gone.

**ProjectExplorerPlugin.** What an action may do is decided when a signal comes
and used when the user clicks. A run waits for a build that may end in many ways,
even before `buildProject()` returns. A debug control may fail to start in the
middle of its registration. It is correct when the menu is up to date, a delayed
run is that of the present build, and no step is queued twice or deleted while
it is queued.

**The debugger.** gdb answers in order but late, prints records on its own, and
may end at any moment; a result is matched to its command by a token, and one
older than the barrier is dropped. Answers about breakpoints find theirs by
the row it had when the command was sent. A start goes on, one breakpoint and one
condition at a time, from those answers, and an answer that does not come stops it.
Expanding an item of a view resets the count of the answers that are pending. It is
correct when the table says of gdb what is true, gdb has no breakpoint that the user
cannot see, the inferior is run only after its breakpoints are set, "finished" is said
of data that has come, and every start comes to its end. Several of these hold only
for a user who does nothing at a bad moment, and some for none
([findings](#findings)).

**FileManager.** Other programs write, replace and delete files while a document
on them is edited, saved, renamed and closed: between any two calls that a function
of the code makes to the file system. A watch is on a file and not on its path; a change
is known by comparing time stamps that are taken at other moments than the texts are
read; the reload dialog runs the event loop while its check is blocked. It is correct
when no change that a watch tells of is lost or put aside, no watch outlives its
documents, and nobody is asked about what the IDE itself wrote.

**CppModelManager.** Tasks in the pool take the texts and the documents of the
moment they start and post what they find, if anything; projects, files and editors
change meanwhile. It is correct when the documents of one editor arrive in the order of
its texts, the text typed last arrives, the snapshot and the filter agree, and a
garbage collection takes nothing that is still used.

For the parts that are not modelled the same is said by the hazards of
`PROJECT.json` that have no property. Further hazards, not listed there: `-test X
-noload X` leaves a deleted spec among the test specs
(`extensionsystem/optionsparser.cpp:114`); a CMake project opened twice, which
dependencies by file name cannot tell apart (`cmakeprojectmanager.cpp:65`); a
crash between the truncation and the writing of a session file
(`projectexplorer/persistentsettings.cpp:191`); the event loop of the dialog of
`saveModifiedFiles` between the check of an action and the call of the build
manager (`projectexplorer.cpp:1259`); errors of a process, which are all taken for
a failed start (`utils/synchronousprocess.cpp:293`), and a second run of one
SynchronousProcess that starts with the output of the first (line 94); watchers
deleted while their signals are queued (`qtconcurrent/multitask.h:102`); the
cancel timer of a process step (`projectexplorer/abstractprocessstep.cpp:218`);
gdb that does not end within 20 seconds (`gdbengine.cpp:1492`: the model has it); the hang timer, which kills a process that
ends by itself at the same moment (`utils/synchronousprocess.cpp:258`); the list of
pooled objects, which is looked at before its lock is taken
(`extensionsystem/pluginmanager.cpp:554`); a client that gives up before it has
written the length of its message
(`shared/qtsingleapplication/qtlocalpeer.cpp:146`).
A debug control whose `start()` fails emits `finished()` before it is registered
and then stays registered (`projectexplorer.cpp:1093`); the model does the same,
but nothing in the repository says what is expected.

## The plan

Done, in this order:

1. `BuildManager`, with the abstract `BuildService` it implements: the core, and
   the only one of these parts with a second thread.
2. `PluginManager`: the order in which everything else comes into being.
3. `Session`: the state that survives the program.
4. `ProjectExplorer`: composes the plug-in with the whole of `BuildManager`.
5. The proofs of 1 to 4, later of 6, 7 and 8.

6. `GdbProcess` and `Debugger`: the channel to gdb, the table of breakpoints and
   the status of a session, composed with gdb.
7. `FileManager`, with what the editors do to it.
8. `CppModelManager`: the tasks, the posted documents, garbage collection.

Next, most important first:

9. `SynchronousProcess` (timer, `error`, `finished` in every order) and the
   process steps behind `BuildStep::run`, which `BuildManager` takes as given.
10. `ObjectPool`, `MultiTask`, `SingleApplication`, `QuickOpen`.
11. `ProjectExplorer` composed with `Session`, so that a switch of sessions
    meets builds and delayed runs.

Abstract specifications worth stating there: a pool as an atomic set with
notifications; the diagram of states in `debuggermanager.h` for `Debugger`.

Most invariants and action properties that the runs check are proved (see [the
proofs](#the-proofs)). What is still to be is a proof about the table of
breakpoints, and those of 9 to 11.

## The modules

`PROJECT.json` maps every definition to the lines it stands for. Operators
commented as a *faulty variant* belong to no specification: each is a plausible
bug that some property has to notice.

### BuildManager (and BuildService)

| Code | Model |
|---|---|
| `m_buildQueue`, `m_configurations` | `queue`, `configurations`, two lists as in the code |
| `m_running`, `m_canceling`, `m_currentBuildStep` | `running`, `canceling`, `current` |
| `m_activeBuildSteps` | `active` |
| `m_progress`, `m_maxProgress`, `m_progressFutureInterface` | `progress`, `maxProgress`, `progressFuture` |
| `m_watcher` and the future of the last `run()` | `watched`; calls it has left behind are counted in `orphans` |
| posted events of the GUI thread | `events`, in order |
| blocked in `cancel()`, in the event loop, or crashed | `gui` |
| what a listener of the signals last saw | `report`, `seen` (history of what is emitted; no guard reads them) |

One slot or public function that runs to its end is one action. The five public
functions that append steps differ only in which steps they append, which is the
constant `Requests`; they split into `RequestWhileRunning`, `RequestWhenIdle`
and `RequestNothing` along the branches of `startBuildQueue` and `nextStep`.
`cancel()` is two actions, `CancelBuild` (or the delivery of the progress
widget's `canceled()`, or a refused `init()`) up to `waitForFinished`, and
`CancelFinished` after it, because the worker goes on in between.
`nextBuildQueue` is five, one per path through it and `nextStep`. The worker has
`WorkerOutput` and `WorkerReturns`.

`BuildService` is what the rest of the IDE relies on, with four variables and no
threads, events or counters. `Service` in `BuildManager` is the refinement
mapping; `ImplementsService` says that every behaviour of the manager is one of
the service.

### PluginManager

`loadQueue(spec)` is recursive; its call stack is the variable `stack` and each
activation is a frame with the index of the next dependency, so that the depth
of the recursion, and what has been noted when an error unwinds it, are part of
the state. `phase` and `rest` say which loop of `loadPlugins` or `stopAll` is
running and what is left of its list; one spec is one step. The inputs are the
dependency lists of the spec files and what goes wrong in each plugin, chosen in
`Init`. Reading specs from files, comparing versions (`provides`) and the tests
of plugins are left out.

### Session

`m_file` is the `SessionFile` in use, `file` the files on disk, `sessions` the
list in the settings. A project is its file name, which is how `m_depMap` knows
it. Where the code takes the first of a list of projects the model takes any.
`Failures` is a constant: what of the outside world may go wrong. This lets one
run find out what a failure breaks and another show what holds without it.
`LoadSession` follows `loadSession`, `loadImpl` and `createImpl` through every
early return, and leaves an editor, a project or a file behind where one of the calls
fails. `DeleteSession` takes the name off the list also when the file cannot be removed;
what such a file holds is there again for a session that is created with its name,
and a session cannot be cloned to it. The dependency check is recursive in the code and is written as
reachability; the rounds of `dependenciesOrder` are a recursive function.

### ProjectExplorer

Extends `BuildManager`: its variables are those of the manager and ten more, and
every step of the manager that emits a signal contains what the plug-in's slots
do (`Slots`). A menu action may call the manager several times (rebuild is clean
and build); `todo` has the calls still to be made, and nothing else can happen
in the GUI thread until they are. `Enabled` is `updateActions`, evaluated only
where the code calls it and, in a slot, with what `isBuilding()` answers at the
moment of the signal; `ClearSession` does not call it when `clear()` returned false. A run control is what the plug-in sees of it: its project,
its mode, whether it calls itself running, and which one the debugger works for.

### GdbProcess and Debugger

`GdbProcess` is gdb as the code uses it, external to the repository: it reads one
command after the other (none but at once an interrupt while the inferior runs),
knows its breakpoints by number, may refuse `-break-insert` for the places of
`Unresolved` (`break`, the fallback of `handleBreakInsert`, may make them pending,
which it says in words only), stops for a breakpoint, a signal or the end, and may
crash.

`Debugger` is the GUI thread. The three classes call each other in the middle of
their functions, so their state is one record, `gui`, a function of the code is
an operator from this record to the next one, and one event of the event loop is
one action.

| Code | Model (fields of `gui`) |
|---|---|
| `currentToken()`, `m_oldestAcceptableToken`, `m_pendingRequests`, `m_cookieForToken` | `token`, `barrier`, `pending`, `cookies` |
| `BreakHandler::m_bp` | `rows`: `loc`, `condition` and `ignoreCount` (what the user wants), `number`, `bpCondition` and `bpIgnoreCount` (what gdb acknowledged), `place` |
| `m_removed`, the "Breakpoints" of the session | `removed`, `stored` |
| `DebuggerManager::m_status` | `status` |
| "Retrieving data for watch view", "Finished retrieving data." | `retrieving` |
| `singleShot` of `startDebugger`, `waitForFinished` of `exitDebugger` | `timer`, `exiting` |
| bytes written to and read from gdb | `toGdb`, `fromGdb` |

A synchronization sends, row by row, the insertion, the query of a place that is
not known, the condition or the ignore count that differs, and finishes the start
when it has sent nothing. gdb refuses with an error what is in the constants
`Unresolved` and `Refused` (by command). It gives no file for a place of `Multiple`, which is at
several addresses: the engine asks with "info break", and of some (`Unreadable`)
cannot read the answer. `UpdateWatchModel` is the expansion of an item, which resets
`m_pendingRequests` with answers on their way; an answer that makes the count zero
sends up to `FollowUps` queries for the items that are incomplete
(`updateWatchModel2`), or says that all is retrieved. The views of registers and of
the disassembly send a query each only while they are shown (`ViewQueries`, 0 to 2).

Three things a user may do break what is claimed of the table, of the status and of a start, and are
risks that he takes or not (`Careless`, a subset of `Risks`):

- `"remove"`: to remove a row while an answer that finds its row by index is to come,
  or whose insertion was never answered to (`CarefulToRemove`);
- `"toggle"`: to toggle a breakpoint between the start and the first insertion or while a
  synchronization of the start is under way, or to set one while the table of gdb is being read
  (`CarefulToToggle`);
- `"dumpers"`: to switch the custom dumpers while anything is on its way or the
  inferior is not stopped (`SetCustomDumpersWanted`).

Each property says which of them it cannot bear; what happens is in the
[findings](#findings). `SetTokenBarrier` accepts the last command of the round before, as the code does.

### FileManager

A writing makes a new version of the text; the time stamps that the code compares are a
function of it (`LastModified`), which need not tell two versions apart: TLC has the
file of the start and the first writing share one. A notice of the file watcher is on its way
in `notices` before `ChangedFile` takes it.

Other programs may write, replace and delete files between any two calls of the file
system. A handler that makes several is therefore several actions, and `doing` says
which call is next, for which document, and what follows: `WriteFile` (the file is not
opened, or the writing fails, or all goes well), `CheckForNewFileName` (the slot of
`changed()`), `UpdateFileInfo` of one document after the other, `RemovePath`,
`AddPathAgain`, `AddFile`. So `saveFile` is block, write, rename, time stamps and watch, and a checked
file of the reload dialog is time stamp, watch off, watch on. The GUI thread does nothing else in
between. `checkForReload` is besides cut where its dialog runs the event loop: `CheckForReload` up
to the loop, `NextFile` per file, `Answer`, `EndReload` with its call of itself.
`saveModifiedFiles` (`SaveNext`) and `closeEditors` around it are likewise cut at
their dialogs: the user may refuse to name a file, skip or keep what could not be
saved, or cancel everything, and a listener of `editorAboutToClose` may keep editors
open. An editor and its document are one.

`untold` is history: the managed documents whose file another program wrote, replaced
or deleted while it was not watched (or whose signal was dropped with the watch), since their
time stamp was last taken. No guard reads it.

### CppModelManager

A document is the version of the text it was made from, and which editor asked
for it; which files a text includes is the constant `Includes`. A text may be `empty`:
the code parses no empty text and posts no document for it. A file may be `Missing`, which
is the same to the parser. `RefreshSourceFiles` makes a task with the working copy
and the documents of that moment, and none for an empty list of files; a task
parses a top-level file with all it includes at once (`ParseFile`), posts what it
found one by one (`Tell`) and ends (`Finish`). `UpdateCodeModel` is a project whose file list,
macros or include paths have changed: with the same files too it may be indexed again. The GUI
thread takes an event for the manager and one for the filter of each document, in
this order, for that is the order in which they were connected. `GC` is a direct call,
including what it makes the filter do. `ParseFile` in the code goes through the
includes recursively and skips a file that it has been to; `SourceNeeded` does so to
the depth of the number of files, beyond which no path leads that reads no text
within itself.

### Models for TLC

`MCBuildManager`, `MCPluginManager`, `MCSession`, `MCProjectExplorer`,
`MCDebugger`, `MCFileManager` and `MCCppModelManager` give
the constants their values and, where a run needs it, restrict the specification
(below). They define nothing about the code.

### Proofs

`ProjectExplorerProofs` (`BuildManager`, and `ProjectExplorer` on top of its
invariants); `PluginManagerProofs` (the load queue, and what happens to
the plugins in it); `SessionProofs`; `DebuggerProofs` (the channel to gdb and the
status); `FileManagerProofs`; `CppModelManagerProofs`. `InductionLemmas` has what they
need of natural numbers, iteration and least fixed points. See
[the proofs](#the-proofs).

## The runs

Each property is described at its definition. The numbers are of distinct states. All
runs check for deadlock but those in which the system may really stop: the plugin
manager is gone at the end; a request without steps can crash the build manager, which
ends everything in `build_manager` and `project_explorer` ([findings](#findings)); and the user of the debugger
stops at the bound `MaxToken`. The invariants `ExplorerTypeOK`,
`FileManagerTypeOK` and `CppModelTypeOK` hold too (adding one to a configuration
checks it).

| Run | What it explores | What it shows |
|---|---|---|
| `build_manager` | two projects, three steps, every interleaving of requests (empty ones too), cancellations, worker and posted events, with fairness; 180,895 states | the counters and signals (`AccountsRight`), the single worker, whose `finished()` and `canceled()` are acted on, and the order of the cancel message; the manager implements `BuildService`; every step whose `run()` returns leads on or ends the build; `cancel()` comes back |
| `plugin_manager` | every choice of nine dependency lists for three plugins, any set deselected, at most one broken; PLUGINS states | the order of loading, initialization and deletion (of plugins without an error); exactly the usable plugins run; no dangling spec |
| `session` | two applications, three sessions, files that cannot be written or removed, editors that cannot be saved; SESSIONS states | switches, the dialog and restarts lose or mix up nothing; what was deleted is not saved again |
| `session_dependencies` | three projects, two sessions, files that cannot be read; DEPS states | no circle of dependencies ever, in memory or on disk; they can be put in order |
| `session_lost_project` | projects that cannot be opened | **violation**: dependencies on them stay |
| `project_explorer` | two projects, one of them an application with a clean step, two run controls, a user who unloads nothing that is in use; EXPLORER states | the menu is up to date but for the session's actions after its last project, runs belong to their build, who runs under the debugger |
| `project_explorer_unload` | without that restriction on the user | **violation**: steps are deleted while they are queued |
| `debugger` | two places for breakpoints, one of which gdb cannot resolve, conditions, which it refuses, two ways to start, gdb late or crashing, a user who takes no risk, and fairness; DEBUGGER states | the table of breakpoints is true and complete, "running" is running, the inferior runs after its breakpoints, a start ends |
| `file_manager` | two documents, two paths, three versions, two of which share a time stamp, other programs between any two calls, dialogs; FILES states (up to symmetry) | no change that a watch tells of is lost or put aside, no watch without a document, no question without reason |
| `file_manager_monitored` | the same | **violation**: what is written between the time stamp and the watch is not known |
| `cpp_model_manager` | a source and its header, which may be missing, two projects, two tasks of the index; MODEL states (up to symmetry) | the filter follows the snapshot, garbage collection takes nothing that is used |
| `cpp_model_live` | one file that the build writes and an editor shows, three versions, and fairness; LIVE states | an editor's documents do not overtake each other; what was typed last arrives, unless it is empty |

There are further configurations, each with a counterexample to one property, which says
what the code does not keep or what the exceptions of the runs above hide. They are
described under [findings](#findings).

| Configuration | Property | What is different from the run |
|---|---|---|
| `MCPluginManagerSurvivor` | `InstancesInReverse` | instances with an error count |
| `MCSessionUnreadable` | `NamedIsLoaded` | session files that cannot be read |
| `MCProjectExplorerClear` | `ActionsFresh` | the session's actions too, when `clear()` fails |
| `MCDebuggerRows` | `RowsRight` | the risk `"remove"` |
| `MCDebuggerOrphan` | `NoOrphans` | a place in several functions, of which gdb tells no file |
| `MCDebuggerHang` | `StartupFinishes` | the risk `"remove"`, ignore counts |
| `MCDebuggerEarly` | `RunAfterInsert` | a place in several functions |
| `MCDebuggerViews` | `FinishedRetrieving` | items that are expanded |
| `MCDebuggerSettled` | `Settled` | conditions that change while one is sent |
| `MCDebuggerEdits` | `EditsKept` | conditions, and a second session |
| `MCCppModelManagerEmptied` | `ModelFollows` | empty texts count |

## Bounds

- `MaxSteps` bounds `m_maxProgress` of one build, `MaxEvents` the posted events
  that wait. Both are guards of what adds work (requests, output), never of what
  consumes it, so that they cut off no ending. Four steps leave room for a build
  of two that another request joins, and for two requests that join in turn;
  four events for output, a `finished()`, a `canceled()` and a cancel message
  waiting together, which is what any two of the races need. Three steps suffice
  where requests have one step each.
- Two projects are needed because counters are per project, and `active` must
  tell a project that is done from one that is queued. The third step makes a
  project with two, so that it is decremented from two as well as from one.
- Three plugins give chains, diamonds as far as they fit (`<<a, b>>` on top of
  `b` on `a`), circles of one, two and three, and a plugin that depends on one
  that fails beside one that does not. A larger graph adds longer chains; that
  the load order is right for those too is a theorem.
- Two projects tell a startup project that is removed from one that stays.
  Three sessions make one that is neither the one left nor the one entered.
  Three projects and only two sessions are for circles of dependencies, where a
  check of direct dependencies alone is not enough. In that run
  (`SpecWithoutEditors`) editors stay closed and only one startup project is
  considered: neither is read by anything about dependencies.
- Two run controls are one that debugs and one that is started beside it.
  `project_explorer` has `SYMMETRY` of the controls, which no definition tells
  apart, and a `VIEW` that leaves out the last report, and the current step and
  the progress of a build that is over. No guard and no property reads these
  without `running`, and the next build sets them before it does. An action
  property is checked on steps between states that the view identifies only with
  states equal in all it reads.
- `project_explorer` restricts the user by `StepsAlive'` (`CarefulSpec`): no
  project is unloaded while it is built or about to run. What happens otherwise
  is the run `project_explorer_unload`; beyond that point the C++ program has
  undefined behaviour and there is nothing to say about it.

- `MaxToken` of `debugger` stops the user, and the inferior from stopping, once
  three commands were sent; what these lead to goes on. This is room for a start
  with both breakpoints, the fallback of the second and a condition, and for what the
  user does in the middle of it. The counts of queries are scaled down to one that
  is synchronized: the answers are alike. With four commands, and without conditions or
  with one place, the invariants hold as well. The configurations with a counterexample need four.
- `file_manager` has three versions: the one at the start and two writings, which
  is one in the middle of a handler that made the other. Two documents on two paths are enough
  for both on one path (Save As), and for a path that is given up and taken
  again. `SYMMETRY` of documents and of paths.
- `cpp_model_manager` has no editor but two tasks of the index, and two versions, with
  room for three posted events (`MaxPosted`): documents of two tasks wait together.
  Either file may be missing at first. `cpp_model_live` has one editor against one task of the
  index, three versions, one file and one project; there `MaxPosted` is 1, so that
  the two events of a document wait together, but not documents of two tasks; that they
  may arrive in either order is left to the order in which the tasks go on. `SYMMETRY` of projects.

## Fairness

`build_manager`:

- `WF(EventLoop)`: the GUI thread delivers what is posted. Justified while it is
  in its event loop; all that blocks it is modelled by `gui`.
- `WF(CancelFinished)`: a wait that is over returns.
- `WF(WorkerReturns)`: `BuildStep::run` returns. After a cancellation
  `AbstractProcessStep::checkForCancel` sees to it (it terminates and then kills
  the process). Otherwise this is an assumption about the process that the step
  runs: a `make` that never ends is a build that never ends, and the code does
  not promise otherwise. `CancelReturns` therefore says that no more than this is
  needed for `cancel()` to come back.

`debugger` (`Fairness`): gdb reads its commands (`WF(GdbReads)`, only while the
inferior is not running: nothing is assumed of a program that runs); the event
loop delivers what gdb prints (stated of the variable `fromGdb`: its head is taken, by whichever handler that is),
the posted synchronization and the end of gdb; and
`waitForFinished` returns, for it has a timeout.

`cpp_model_live` (`FairSpec`): the event loop, the timer of an editor, and each
task of the thread pool. The last is strong fairness, because a task is kept from
posting by the bound `MaxPosted`, and not by anything in the code. It also assumes
that the pool has a free thread for each task: the code starts tasks without looking, and what
keeps the pool's threads (a build, a search) is taken to end.

The user is not fair: no property needs a click. `FileManager` needs no fairness:
`ChangesLookedAt` says as an invariant that a check of a change that is known is
posted.

## The proofs

`tlapm` proves, for every value of the constants that satisfies the assumptions
named in the modules:

| Theorem | States |
|---|---|
| `ProjectExplorerProofs!TypeCorrect` | `Spec => []TypeOK` |
| `SingleWorker` | no two `BuildStep::run` execute at once, none between builds |
| `CancelOfThisBuild` | a `canceled()` that waits during a build belongs to that build |
| `ProgressLives` | the progress future exists exactly during a build |
| `FinishedOfThisStep` | `FinishedIsCurrent`: a `finished()` that would be acted on during a build is the current step's; without a build one waits only after a build that was reported as a success |
| `AccountsKept` | `AccountsRight`: `m_running`, the queues and the counters of active steps agree whenever a request can come |
| `MessageAfterOutput` | `CancelMessageLast`: the message of a cancellation comes after all that the cancelled step had posted |
| `Implementation` | `ImplementsService`: every step of the manager, its worker and its events is one of `BuildService`, or none (fairness is not part of it) |
| `ExplorerTypeCorrect` | `Spec => []ExplorerTypeOK` |
| `MenuIsTrue` | `OnlySessionLags`: what is enabled when the user can look is what the state allows, or what it allowed with some project, if there is none |
| `RunOfThisBuild` | `DelayedOfThisBuild`: a run that waits has its own build going on |
| `DebuggingStaysKnown` | `DebugKept`: no step forgets a run control that still debugs |
| `PluginManagerProofs!TypeCorrect` | `Spec => []TypeOK` |
| `LoadOrder` | `QueueSorted`, for any number of plugins and any dependencies |
| `QueueOfLiving` | `QueueAlive`: the lists of `loadPlugins` and `stopAll` hold no deleted plugin |
| `LifecycleOrdered` | `LifecycleOrder`: initialized after, and told so before, all it depends on, whichever fail |
| `DependenciesOutlive` | `DeletedInReverse`: no instance of a plugin without an error outlives one that it depends on |
| `UsableRun` | `RunningIsUsable`: after the start exactly the usable plugins run |
| `SessionProofs!TypeCorrect` | `Spec => []TypeOK` |
| `NoCircles` | no circle of dependencies, in memory or in any session file, with any of the failures |
| `StartupProject` | the startup project is an open one, and there is one while an application is open |
| `DeletedStays` | `DeletedStaysDeleted`: a session that is not in the list is not written, whatever fails, while the session in use has its own file |
| `SwitchKeeps` | `SwitchKeepsContents`, where files can be read and projects opened |
| `OrderFound` | `DependenciesOrderReturns`: the rounds of `dependenciesOrder()` end with all projects in order, where projects can be opened |
| `DebuggerProofs!DebuggerTypeCorrect` | `Spec => []DebuggerTypeOK`, for every user |
| `RunningTruly` | `RunningIsRunning`: when nothing is on its way "running" is true of the inferior, for a user who does not take the risk `"dumpers"` |
| `FileManagerProofs!TypeCorrect` | `Spec => []FileManagerTypeOK` |
| `WatchesKept` | no watch is left on a path that no open document is on |
| `NothingPutAside` | documents in `m_changedFiles` are always on their way to `checkForReload()` |
| `AsksWithReason` | no step asks about a file that is on disk as the document shows it |
| `NothingMissed` | `Noticed`: of a file whose time stamp is not as it is known a signal is on its way, or its document waits or is being looked at, or what was done to it was done while it was not watched |
| `CppModelManagerProofs!CppModelTypeCorrect` | `Spec => []CppModelTypeOK` |
| `FilterKeepsUp` | `FilterFollows`: the filter has the manager's document, or the event that brings it waits |
| `OwnNeverOlder` | `OwnInOrder`: what an editor's tasks make of its text never replaces a newer version |
| `CollectsOnlyUnused` | `CollectsUnused`: no step takes a document whose file a project lists, or which a document that stays includes |

**BuildManager.** `IInv` is `TypeOK`, `QueueInStep`, `OneWorker`,
`ProgressAlive`, `CancelIsCurrent` and `FinishedWaits`. `OneWorker` alone is not
inductive: that `nextBuildQueue` starts a step only when the former one has
returned needs to know that a `finished()` that is acted on was posted by a
worker that is done. Nor does the type of `queue` survive `BeginStep` without
`QueueInStep`, since `Tail(configurations)` needs a non-empty list.
`CancelIsCurrent` rests on `WatchProgress`, which drops the former build's
event. `FInv` adds `FinishedIsCurrent`: a `finished()` which `m_canceling` does not hide is that of a
step of the running build, whose result is there. Without a running build one can wait all the same:
a request without steps resets `m_canceling` and reports a success at once, while the
`finished()` of a cancelled step still waits (finding 4). What that event meets is part
of the statement (`report.ok`), and the next build drops it or is told by it that
nothing runs; so no assumption about requests is needed. There is one lemma per action.

`AccountsInv` counts: the active steps of a project are those of it in the queue,
and the current one; what is left of the progress is the length of the queue; and
what listeners were last told of a project is what its counter says. `WaitInv`
says who waits in `cancel()`. `MessageInv` adds to `CancelMessageLast` that no
output follows a `finished()`, which is why a step that ended by itself leaves no
output without a message. The refinement maps the two lists of the code to one of pairs (`Paired`); each action
is a step of `BuildService` or `Hidden` from it, and what must be shown of each is
that both lists lose and gain the same places.

**PluginManager.** `QueueInv` is `TypeOK`, `QueueSorted` and four facts about
the stack: each frame waits for the spec above it (`StackWaits`), the
dependencies before a frame's index are in the queue (`StackDone`), and a spec
on the stack is not in the queue and is on the stack once (`StackNew`). Together
they say that when an activation has come to the end of its dependencies, all of
these are in the queue and it is not.

The second half of the module goes on from there. `AliveInv` says that only specs that were
not deselected get on the stack and into the queue. `Listed`, that every spec is
in the queue, about to be visited, or has an error. `LoopInv` relates the rest of
the list a loop goes through to the queue, and `Progress` says what the plugins
before and after that place have become; with `Instances` (who has an instance,
and in which state, in each phase) these give the two orders. The second queue,
built for shutting down, could miss a running plugin only if a circle among the
running ones gave it an error: the first queue shows that there is none
(`Sortable`). `Usable` is defined by rounds; `UsableIsLeast` shows that it is the
least set closed under `Ready`. `BlameInv` says that no error meets a plugin of
it: a missing, broken or failed dependency is never that of a usable plugin, and
a circle within it would leave a smaller set closed (`NoneUsable`).
`StageInv` says how far a plugin without an error has come. That the plugins are
finitely many is assumed by name (`PluginsFinite`), here only.

**Session.** `SessionInv` is `TypeOK` with `GoodFile(m_file)` and `GoodContent`
of every file on disk: acyclic dependencies, and a startup project that is
there. The files must be part of it, because loading takes their dependencies
over. The heart of it is `AcyclicAdd`: an edge whose target does not reach its
source closes no circle, where the set that the check exhibits is the witness.

Two theorems restrict `Failures`, as the runs do. `OrderFound` needs that
every project can be opened, for otherwise it is refuted by `session_lost_project`;
`SwitchKeeps` needs that, and that every file can be read, since a project that cannot be opened is not in memory
when the session is left again. Writing, removing and closing may fail in both.
`DeletedStays` holds with every failure: the dialog deletes neither the session in
use nor the default one, and only what is in use is written. Its premise `NameIsFile` is what an unreadable
file ends (finding 6).
`OrderFound` rests on `Closed` (dependencies are on open projects only), in memory
and in every file, and on `OrderReturns`: where dependencies are closed and
acyclic, each round puts at least one project in order, so that no more rounds
are needed than there are projects.

**ProjectExplorer.** `ExplorerInv` is the build manager's `IInv`, `WaitInv` and
`AccountsInv` with four facts about the plug-in. What is enabled is what
`updateActions` makes of the last signal (`EnabledInv`), also in the middle of a
slot, and up to the projects that a failing `clear()` has removed without it; that
the last signal is still true whenever the user can look is
`SignalledState` of the manager. `DelayedInv`: a run that waits has its build
going on or still to be asked for, and one to debug waits only while nothing is
debugged. `DebuggerRuns`: the control that has the debugger runs. Nothing is
assumed of the user: he may unload a project while it is built, which is where
`StepsAlive` fails and these do not.

**Debugger.** The invariant relates gdb, the records on their way from it, the
record `gui`, and the commands on their way to it. `Base`: the types; tokens rise
from the oldest answer to the newest command, each has its cookie, and the type of
the cookie is the one that the kind of the command is sent with (`Channel`). It
holds for every user. `Rest`: the status is "running" only if the inferior
runs or a stop is yet to be handled, as a record or with the answer to the command
that `handleAsyncOutput` sends for it (`RunningInv`); and an answer "running" is on its
way only while the inferior runs, or with a stop behind it (`ResumedInv`).

`Rest` is preserved only without the risk `"dumpers"`: `SetCustomDumpersWanted` while the
inferior runs or a stop waits raises the barrier above the answer that would handle
it, and the status stays "running" (finding 9). The other two risks do not matter here. Most functions of the
engine only send commands and leave the status or make it other than "running"; such
a step is `Quiet`, which is preserved by composition and by the loops, so that one
lemma, `QuietStep`, serves most actions.

What the runs say of the table of breakpoints (`RowsRight`, `NoOrphans`,
`RunAfterInsert`) is checked by TLC only. It is true of a user who takes no risk and of
places that are not at several addresses; the invariant behind it would have to follow,
for each row, which command or answer on its way is about it.

**FileManager.** `IInv` is `Disk` (no file has a version that is still to come),
`Books` (documents and `m_managedFiles` are of the same documents but for one that is
being added, and agree in their names), `Handling` (which document the handler is
about, and what it has still to do), `Lists` (whoever waits for `checkForReload()`
is open and has a path; saving and asking exclude each other) and `ChangesLookedAt`.
Three invariants stand on top of it, each for every number of documents, paths and writings and for
any time stamps:

- `WatchesOfDocuments`, which is inductive together with `IInv`.
- `StampsRight`: of a document that shows what is on disk the time stamp is right,
  unless it is about to be taken. `AsksWithReason` rests on it. It is inductive
  because every writing has a version of its own and a handler that writes ends by
  looking at the file again.
- `Noticed`. A step can break it in one of three ways: the file changes, then there is a signal or
  the document is `untold`; the document's entry changes, then the time stamp was taken of what is
  there; or it leaves a list, then its time stamp is about to be taken or was right. There is one lemma per
  group of actions.

`Noticed` is as strong as the code allows and no stronger: other programs can do something while a
file is not watched, as at the end of every save (`file_manager_monitored`). What it excludes is that a
change is lost by what this program does: by a dialog, a check that runs already, a
rename, or a signal that comes in the middle of a handler.

**CppModelManager.** `TypeInv` needs that `SourceNeeded` returns files
(`SourceNeededType`). `FilterInv`: events come in pairs, the manager's before the
filter's, and only the document of the pair of which the first half was delivered
can be missing in the filter (`PairsInv`, `FollowInv`). `OrderInv` is what makes
`OwnInOrder` true: an editor has one task at most that is its own, because a
second one waits for the first, and along the way of its documents (snapshot,
events in their order, the task, the editor) versions do not go back. `CollectsUnused`
is about steps: the collection starts from the files that the remaining projects list
now, for removing a project sets `m_dirty`; and that no document which stays includes
one that goes needs that the rounds of `GC` come to their end: `ReachedIsLeast` shows
that the files they reach are the least set with the project files and all that reached
documents include.

**InductionLemmas.** Induction over data is stated with sets and functions in the
place of predicates: a set of natural numbers has a smallest element (from the
library's `WFMin`), hence `UpTo`; a function defined by steps exists
(`Iteration`); and a set that grows in rounds within a finite one is, after as
many rounds as that has elements, the least set closed under a round
(`LeastFixedPoint`). This is what is used for `Usable`, `Unordered`, the files
that are reached, and the loop over includes.

Only checked by TLC: liveness (`StepEnds`, `CancelReturns`, `StartupFinishes`,
`EditArrives`), which is out of the prover's reach: it needs fairness and ENABLED; and
the table of breakpoints (`RowsRight`, `NoOrphans`, `RunAfterInsert`), as said above. The
properties of the configurations that end with a counterexample are not true of the code
([findings](#findings)). Every other property of the runs is a theorem above.

## Findings

The first three are the counterexamples of runs; `PROJECT.json` quotes the lines.

1. `SessionFile::load` keeps dependencies on projects that could not be opened,
   and `dependenciesOrder()` loops for ever (`session.cpp:206`).
2. "Unload Project" deletes build steps that are queued or executed
   (`projectexplorer.cpp:1182`).
3. `unblockFileChange` takes the time stamp first and watches the file then
   (`filemanager.cpp:265` to `270`): what another program writes in between is
   neither known nor told. `checkForReload` does the same (`496` to `500`), there also
   with the watch taken off in between. `addFiles` has them in the right order.

### Findings without a run

The others were met while modelling. The models behave as the code does. Some have a
configuration of their own that ends with a counterexample; of the rest, the definition of the
property that would fail leaves the case out, as said there.

4. `startBuildQueue` resets `m_canceling` while the `finished()` of a cancelled
   step may wait; a request without steps does not drop it, and `nextBuildQueue`
   dereferences a null pointer (`buildmanager.cpp:194`). `build_manager` reaches it:
   the GUI thread is then in the state "crashed".
5. `loadPlugin` skips every spec with an error also on the way down: a plugin
   whose `initialize()` failed is neither shut down nor deleted, while those that it depends on
   are (`pluginmanager.cpp:652`). `MCPluginManagerSurvivor`: `InstancesInReverse`.
6. A session file that cannot be read leaves the former session's name with the
   new session's file (`session.cpp:620`): the former cannot be loaded again, for
   it counts as loaded, and what is done is saved in the new one's file. `MCSessionUnreadable`:
   `NamedIsLoaded`.
7. `clear()` removes all projects although it returns false when an editor could not be
   saved (`session.cpp:891`); `clearSession` takes that for "Action has been
   cancelled" and does not update the actions (`projectexplorer.cpp:728`), so that
   those that build and clear the session stay enabled without a project. The menu of
   sessions and the welcome page load another session without any update.
   `MCProjectExplorerClear`: `ActionsFresh`. A session file that cannot be removed stays when
   its session is deleted (`session.cpp:1042`), and is what a new session of that name loads.
8. Breakpoints. A row that is removed moves those after it, and the answer that is on its
   way goes to another row or, if there is none, through a null pointer
   (`gdbengine.cpp:2031`, `2119`; `MCDebuggerRows`: `RowsRight`); one that is removed before its number
   came stays in gdb; the last one, removed while its ignore count is sent, ends the
   synchronization, and the start with it (`gdbengine.cpp:1975`; `MCDebuggerHang`: `StartupFinishes`),
   as an error of gdb would. "info break" in words that are not understood overwrites
   the number, and the breakpoint cannot be deleted any more (`MCDebuggerOrphan`: `NoOrphans`). The
   answer to "info break" of one row finishes the start while another is inserted; if that
   needs the fallback, it comes after "run" (`gdbengine.cpp:2203`; `MCDebuggerEarly`: `RunAfterInsert`).
   An insertion sent before a stop is reported is dropped by the barrier, and its row
   stays without a number; a row set again while the table is read takes the number of
   the former one; a row set between the start and the first insertion is not in gdb
   when the inferior is run. A condition edited while the former one is on its way counts
   as acknowledged (`handleBreakCondition`; `MCDebuggerSettled`: `Settled`), and one that
   is edited and not saved with the session is lost when a debugger starts or ends
   (`BreakHandler::setData`; `MCDebuggerEdits`: `EditsKept`).
9. `setCustomDumpersWanted` moves the barrier: during a start the answer to an
   insertion is dropped, and the start never ends; while a stop is on its way its
   handling is dropped, and the status stays "running".
10. The barrier compares with `<`: the last command of the former round is still
    accepted (`gdbengine.cpp:754`). `updateWatchModel` zeroes `m_pendingRequests` with
    answers on their way (`3261` to `3266`): "Finished retrieving data." is said before
    they are there (`MCDebuggerViews`: `FinishedRetrieving`), and the count goes below zero.
11. `exitDebugger` terminates gdb only if it is *not* running
    (`gdbengine.cpp:1492`); records that gdb has printed are handled afterwards;
    `m_cookieForToken`, `m_pendingRequests` and the list of removed breakpoints
    live on into the next session.
12. "Start External Application" leaves the pid -1, with which
    `interruptInferior` does nothing; "Run to line" ignores its `^running`; the
    key "Delete" in the view of breakpoints does not synchronize.
13. A file that was found deleted, and that another program creates again, is not
    watched any more, and of two writings with one time stamp the second is not seen, against "The files the
    IFile's point to will be monitored at filesystem level." in the description of `FileManager`.
14. When one of two documents on a file is saved as another one, the watch is
    removed from both (`blockFileChange`), and added for the new path only.
15. A document whose file another document saves is never told; a save that fails
    makes `unblockFileChange` take over the time stamp of a foreign change.
16. `addWatch` in `checkForNewFileName` does nothing, because the path is entered
    as managed a line before; the watch comes from `unblockFileChange` alone.
17. An editor whose text is emptied keeps the document of its last text, for no document
    is made of empty contents (`cppmodelmanager.cpp:388`; `MCCppModelManagerEmptied`: `ModelFollows`).
18. A task of the index that started before the last edit, and ends after the
    task of the editor, leaves the older document in the snapshot until the next
    edit. `OwnInOrder` is about the editor's own documents, and `EditArrives` says
    that the newest one arrives, not that it stays.
19. Documents of a task that was cancelled with its session enter the empty
    snapshot; the document of a text that was never saved stays when its editor is
    closed; `GC` drops those of open files outside all projects; re-indexing
    uses the cached documents of headers; an entry that the filter gets after
    `GC` stays.

## What is not modelled

Inside the modelled parts: the texts of the output pane; versions and files of
plugin specs, plugin tests; the values other plugins keep in a session; nested
event loops while a session is loaded (user input is excluded there);
`saveModifiedFiles` in `ProjectExplorer` (it returns, or the user cancels and
nothing happens); the veto of the plug-in when the application is closed while
building; build configurations of a project other than as a name; run controls
that a tab shows but does not own.

Of the debugger: breakpoints at functions, attaching, core files, run to a
function, jumps, the selection of threads, assigned values, tool tips, shared
libraries, the dumpers' library, what the views show, a session that is switched
meanwhile, the loops of message boxes. gdb's side is what `GdbEngine` counts on and
not what a version of gdb does.

Of files and editors: permissions and the prompts for read-only files (their answers
are choices), symbolic links, recent files, duplicates and groups of editors, navigation.

Of the code model: macros, include paths (that they changed is an event) and what the
parser finds; several editors of one file; a file and what it includes that are read
at different times; a pool without a free thread.

Planned, see above: SynchronousProcess and process steps, ObjectPool and
aggregation, MultiTask, QtSingleApplication, QuickOpen.

Not planned: views, item models and wizards (no state of their own that others
rely on); the C++ front end, indenters, highlighters and text editors (sequential
algorithms on text, of which a finite model says little); evaluation of `.pro`
and CMake files; version control (one command per operation and the parsing of
its output); help, designer, bookmarks and other plugins around libraries of Qt;
the installer, templates, documentation, tests and tools. These make up most of
the repository's lines.

## Running

    tlc -workers 2 -config MCBuildManager.cfg MCBuildManager
    tlapm ProjectExplorerProofs.tla

and likewise for the other configurations of the runs (`MCPluginManager`, `MCSession`,
`MCSessionDependencies`, `MCSessionLost`, `MCProjectExplorer`,
`MCProjectExplorerUnload`, `MCDebugger`, `MCFileManager`, `MCFileManagerMonitored`,
`MCCppModelManager`, `MCCppModelManagerLive`), for the further ones of [the
runs](#the-runs), each with the module of the same first name, and for the other modules of
proofs. Every passing run takes less than three minutes. `MCSessionLost`,
`MCProjectExplorerUnload`, `MCFileManagerMonitored` and all of the further ones end
with their counterexample.
