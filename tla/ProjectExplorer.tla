---------------------------- MODULE ProjectExplorer ----------------------------
(***************************************************************************)
(* ProjectExplorerPlugin on top of the build manager: the menu actions     *)
(* that build, clean, run and debug projects, when they are enabled, the   *)
(* run that waits for its build, and the run controls in the output pane.  *)
(*                                                                         *)
(* What the plugin does in a slot of the build manager's signals is part   *)
(* of the action that emits them.  A menu action may call the build        *)
(* manager several times; `todo' has the calls it has still to make, and   *)
(* until they are made nothing else happens in the GUI thread.             *)
(*                                                                         *)
(* Abstracted: the projects' build configurations, saveModifiedFiles       *)
(* (either the user cancels and nothing happens, or it comes back before   *)
(* anything else is triggered), tabs that show a control but do not own    *)
(* it, and of the debugger all but whose session it runs.                  *)
(***************************************************************************)
EXTENDS BuildManager, SequencesExt

CONSTANTS
    BuildSteps,     \* Project::buildSteps() and ...
    CleanSteps,     \* ... cleanSteps(), with a configuration
    ProjectOrder,   \* in which order dependencies put all projects
    Applications,   \* the projects with a run configuration
    Controls,       \* the RunControl objects there can be: a bound
    None            \* the null pointer

Modes == {"run", "debug"}
Control == [config : Projects, mode : Modes, running : BOOLEAN]

ASSUME ExplorerAssumption ==
    /\ BuildSteps \in [Projects -> Seq(Entry)]
    /\ CleanSteps \in [Projects -> Seq(Entry)]
    /\ ProjectOrder \in Seq(Projects)
    /\ Applications \subseteq Projects
    /\ None \notin Projects \cup Controls \cup Control
    /\ Controls \cap {"external", "none"} = {}

VARIABLES
    projects,           \* m_session->projects()
    sessionStartup,     \* m_session->startupProject()
    currentProject,     \* m_currentProject
    delayed,            \* m_delayedRunConfiguration, by its project
    runMode,            \* m_runMode
    control,            \* the run controls, each in a tab of m_outputPane
    debuggingControl,   \* m_debuggingRunControl
    debugger,           \* whose session the debugger runs
    enabled,            \* the menu actions that are enabled
    todo                \* calls the slot in progress has still to make

explorer == <<projects, sessionStartup, currentProject, delayed, runMode,
              control, debuggingControl, debugger, enabled, todo>>
allVars == <<vars, explorer>>

MenuActions == {"unload", "build", "session", "cancel", "run", "debug"}

ExplorerTypeOK ==
    /\ TypeOK
    /\ projects \subseteq Projects
    /\ sessionStartup \in projects \cup {None}
    /\ currentProject \in projects \cup {None}
    /\ delayed \in Projects \cup {None}
    /\ runMode \in Modes \cup {"none"}
    /\ control \in [Controls -> Control \cup {None}]
    /\ debuggingControl \in Controls \cup {None}
    /\ debugger \in Controls \cup {"external", "none"}
    /\ enabled \subseteq MenuActions
    /\ todo \in Seq(Seq(Entry))

-----------------------------------------------------------------------------
(* The menu actions *)

(* startupProject() *)
StartupProject(startup, currentPro) ==
    IF startup # None THEN startup ELSE currentPro

(* What updateActions enables when `signalled' is what isBuilding() says.  *)
(* "build" also stands for rebuild and clean, "session" for these three    *)
(* with all projects, for clearing the session and for its dependencies.   *)
Enabled(pros, startup, currentPro, debugging, signalled) ==
    {action \in MenuActions :
        /\ action \in {"unload", "build"} => currentPro # None
        /\ action = "build" => currentPro \notin signalled.projects
        /\ action = "session" => pros # {} /\ ~signalled.building
        /\ action = "cancel" => signalled.building
        /\ action \in {"run", "debug"} =>
               ~signalled.building
               /\ StartupProject(startup, currentPro) \in Applications
        /\ action = "debug" => debugging = None}

(* isBuilding() and isBuilding(p) outside the slots of their signals *)
Building ==
    [building |-> IsBuilding, projects |-> {p \in Projects : active[p] > 0}]

(* Faulty variant: updateActions does not call updateRunAction. *)
UpdateActionsButRun(signalled) ==
    enabled' = (enabled \cap {"run", "debug"})
               \cup (Enabled(projects', sessionStartup', currentProject',
                             debuggingControl', signalled) \ {"run", "debug"})

UpdateActions(signalled) ==
    enabled' = Enabled(projects', sessionStartup', currentProject',
                       debuggingControl', signalled)

(* Only "run" and "debug". *)
UpdateRunAction ==
    enabled' = (enabled \ {"run", "debug"})
               \cup (Enabled(projects, sessionStartup, currentProject,
                             debuggingControl', Building) \cap {"run", "debug"})

(* The user can trigger something: no slot is in progress. *)
InEventLoop == gui = "loop" /\ todo = <<>>

-----------------------------------------------------------------------------
(* Projects come and go.  (Session has the whole story.) *)

(* Some application becomes the startup project if there is none. *)
StartupProjects(pros, startup) ==
    IF startup \in pros THEN {startup}
    ELSE IF pros \cap Applications = {} THEN {None}
    ELSE pros \cap Applications

OpenProject(p) ==
    /\ InEventLoop
    /\ p \notin projects
    /\ projects' = projects \cup {p}
    /\ sessionStartup' \in StartupProjects(projects', sessionStartup)
    /\ currentProject' = IF currentProject = None THEN p ELSE currentProject
    /\ UNCHANGED <<vars, delayed, runMode, control, debuggingControl,
                   debugger, todo>>
    /\ UpdateActions(Building)

(* invalidateProject: a project that is removed is no longer current. *)
InvalidateProject == None

UnloadProject ==
    /\ InEventLoop
    /\ "unload" \in enabled
    /\ projects' = projects \ {currentProject}
    /\ sessionStartup' \in StartupProjects(projects', sessionStartup)
    /\ currentProject' = InvalidateProject
    /\ UNCHANGED <<vars, delayed, runMode, control, debuggingControl,
                   debugger, todo>>
    /\ UpdateActions(Building)

(* All projects are removed.  When the first of them goes, the slot of     *)
(* aboutToRemoveProject() calls updateActions, while the projects are      *)
(* still in the session; when they are gone something else may be selected *)
(* in the project tree, which calls it again, or not.                      *)
RemoveAll ==
    /\ projects' = {}
    /\ sessionStartup' = None
    /\ currentProject' = None
    /\ \/ UpdateActions(Building)
       \/ enabled' = (enabled \cap {"session"})
                      \cup Enabled({}, None, None, debuggingControl', Building)

(* m_session->clear() is false where an editor is not saved and stays open *)
(* but the projects are gone all the same, and nothing more is updated.    *)
(* (If the user cancels, nothing happens.)                                 *)
ClearSession(cleared) ==
    /\ InEventLoop
    /\ "session" \in enabled
    /\ UNCHANGED <<vars, delayed, runMode, control, debuggingControl,
                   debugger, todo>>
    /\ RemoveAll
    /\ cleared => UpdateActions(Building)

(* From the session menu or the welcome page: also during a build.  The    *)
(* session is not cleared, or is, and of the other one's projects those    *)
(* are opened that can be; only openProjects() updates the actions, and    *)
(* only if there is one.                                                   *)
LoadSession ==
    /\ InEventLoop
    /\ UNCHANGED <<vars, delayed, runMode, control, debuggingControl,
                   debugger, todo>>
    /\ \/ RemoveAll
       \/ \E opened \in (SUBSET Projects) \ {{}} :
              /\ projects' = opened
              /\ sessionStartup' \in opened \cup StartupProjects(opened, None)
              /\ currentProject' \in opened
              /\ UpdateActions(Building)

(* Another node of the project tree, or an editor of a file. *)
SetCurrent(project) ==
    /\ InEventLoop
    /\ project \in projects \cup {None}
    /\ project # currentProject
    /\ currentProject' = project
    /\ UNCHANGED <<vars, projects, sessionStartup, delayed, runMode, control,
                   debuggingControl, debugger, todo>>
    /\ UpdateActions(Building)

SetStartupProject(project) ==
    /\ InEventLoop
    /\ project \in projects
    /\ sessionStartup' = project
    /\ UNCHANGED <<vars, projects, currentProject, delayed, runMode, control,
                   debuggingControl, debugger, todo>>
    /\ UpdateActions(Building)

-----------------------------------------------------------------------------
(* Menu actions that build.  saveModifiedFiles has returned true. *)

(* Bound: what is called fits into one build and into the event queue. *)
Triggered(action, calls) ==
    /\ InEventLoop
    /\ action \in enabled
    /\ todo' = calls
    /\ maxProgress + Len(FlattenSeq(calls)) <= MaxSteps
    /\ Len(events) + 2 < MaxEvents
    /\ UNCHANGED <<vars, projects, sessionStartup, currentProject, control,
                   debuggingControl, debugger, enabled>>

(* projectOrder() *)
InOrder(steps) ==
    FlattenSeq([i \in DOMAIN ProjectOrder |->
        IF ProjectOrder[i] \in projects THEN steps[ProjectOrder[i]] ELSE <<>>])

BuildProject ==
    /\ Triggered("build", <<BuildSteps[currentProject]>>)
    /\ UNCHANGED <<delayed, runMode>>

CleanProject ==
    /\ Triggered("build", <<CleanSteps[currentProject]>>)
    /\ UNCHANGED <<delayed, runMode>>

RebuildProject ==
    /\ Triggered("build", <<CleanSteps[currentProject], BuildSteps[currentProject]>>)
    /\ UNCHANGED <<delayed, runMode>>

BuildSession ==
    /\ Triggered("session", <<InOrder(BuildSteps)>>)
    /\ UNCHANGED <<delayed, runMode>>

CleanSession ==
    /\ Triggered("session", <<InOrder(CleanSteps)>>)
    /\ UNCHANGED <<delayed, runMode>>

RebuildSession ==
    /\ Triggered("session", <<InOrder(CleanSteps), InOrder(BuildSteps)>>)
    /\ UNCHANGED <<delayed, runMode>>

(* The run waits for its build.  Bound: there is a RunControl for it. *)
BuildAndRun(mode) ==
    LET pro == StartupProject(sessionStartup, currentProject)
    IN  /\ Triggered(mode, <<BuildSteps[pro]>>)
        /\ delayed' = pro
        /\ runMode' = mode
        /\ \E c \in Controls : control[c] = None

RunProject == BuildAndRun("run")

DebugProject == debuggingControl = None /\ BuildAndRun("debug")

-----------------------------------------------------------------------------
(* Run controls *)

(* What start() comes to: whether the control then runs, and who has the   *)
(* debugger.  A process may not start, and there is only one debugger.     *)
Started(c, mode) ==
    {[running |-> FALSE, debugger |-> debugger]} \cup
    (IF mode = "run" THEN {[running |-> TRUE, debugger |-> debugger]}
     ELSE IF debugger = "none" THEN {[running |-> TRUE, debugger |-> c]}
     ELSE {})

(* Faulty variant: runControlFinished does not ask who the sender is. *)
ForgetAny(finished) == None

(* runControlFinished for the controls that emit finished(). *)
Forget(finished) ==
    IF debuggingControl \in finished THEN None ELSE debuggingControl

(* Tabs of controls that can be reused for one of project pro. *)
Reusable(pro) ==
    {old \in Controls : control[old] # None /\ control[old].config = pro
                        /\ ~control[old].running}

(* createNewOutputWindow: the control of a tab that is reused is deleted.  *)
CreateNewOutputWindow(c, new) ==
    IF Reusable(new.config) = {} THEN control' = [control EXCEPT ![c] = new]
    ELSE \E old \in Reusable(new.config) :
             control' = [control EXCEPT ![c] = new, ![old] = None]

(* The end of buildQueueFinished(true) for a run that waits. *)
RunDelayed(c) ==
    /\ control[c] = None
    /\ \E result \in Started(c, runMode) :
        /\ CreateNewOutputWindow(c, [config |-> delayed, mode |-> runMode,
                                     running |-> result.running])
        /\ debugger' = result.debugger
        /\ debuggingControl' =
               IF runMode = "debug" THEN c
               ELSE IF result.running THEN debuggingControl ELSE Forget({c})

(* Faulty variant: after a failed build the run still waits. *)
BuildQueueFinishedKeepsRun(success) ==
    /\ IF success /\ delayed # None
       THEN /\ \E c \in Controls : RunDelayed(c)
            /\ delayed' = None
            /\ runMode' = "none"
       ELSE UNCHANGED <<control, debugger, debuggingControl, delayed, runMode>>
    /\ UNCHANGED <<projects, sessionStartup, currentProject>>
    /\ UpdateActions(seen')

BuildQueueFinishedSlot(success) ==
    /\ IF success /\ delayed # None THEN \E c \in Controls : RunDelayed(c)
       ELSE UNCHANGED <<control, debugger, debuggingControl>>
    /\ delayed' = None
    /\ runMode' = "none"
    /\ UNCHANGED <<projects, sessionStartup, currentProject>>
    /\ UpdateActions(seen')

BuildStateChangedSlot ==
    /\ UNCHANGED <<projects, sessionStartup, currentProject, delayed, runMode,
                   control, debuggingControl, debugger>>
    /\ UpdateActions(seen')

(* The plugin's slots, called while the build manager takes a step. *)
Slots ==
    IF report' # report THEN BuildQueueFinishedSlot(report'.ok)
    ELSE IF seen' # seen THEN BuildStateChangedSlot
    ELSE UNCHANGED <<projects, sessionStartup, currentProject, delayed,
                     runMode, control, debuggingControl, debugger, enabled>>

CallBuildManager ==
    /\ todo # <<>>
    /\ Request(Head(todo))
    /\ todo' = Tail(todo)
    /\ Slots

-----------------------------------------------------------------------------
(* An application ends. *)
ProcessExited(c) ==
    /\ InEventLoop
    /\ control[c] # None
    /\ control[c].mode = "run"
    /\ control[c].running
    /\ control' = [control EXCEPT ![c].running = FALSE]
    /\ debuggingControl' = Forget({c})
    /\ UpdateRunAction
    /\ UNCHANGED <<vars, projects, sessionStartup, currentProject, delayed,
                   runMode, debugger, todo>>

DebugControls == {c \in Controls : control[c] # None /\ control[c].mode = "debug"}

(* Every debug control there is hears debuggingFinished of the manager. *)
Connected == DebugControls

DebuggingFinished(controls) ==
    /\ control' = [c \in Controls |->
                      IF c \in controls THEN [control[c] EXCEPT !.running = FALSE]
                      ELSE control[c]]
    /\ debuggingControl' = Forget(controls)
    /\ IF controls = {} THEN UNCHANGED enabled ELSE UpdateRunAction
    /\ debugger' = "none"
    /\ UNCHANGED <<vars, projects, sessionStartup, currentProject, delayed,
                   runMode, todo>>

(* The session of the debugger ends, or the user stops it. *)
ExitDebugger ==
    /\ InEventLoop
    /\ debugger # "none"
    /\ DebuggingFinished(Connected)

(* An external application is debugged; if that fails it has "finished".   *)
StartExternal ==
    /\ InEventLoop
    /\ debugger = "none"
    /\ \/ /\ debugger' = "external"
          /\ UNCHANGED <<vars, projects, sessionStartup, currentProject,
                         delayed, runMode, control, debuggingControl, enabled,
                         todo>>
       \/ DebuggingFinished(Connected)

(* The button of the output pane; the control is not registered again.     *)
ReRunRunControl(c) ==
    /\ InEventLoop
    /\ control[c] # None
    /\ ~control[c].running
    /\ control[c].config \in projects
    /\ \E result \in Started(c, control[c].mode) :
        /\ control' = [control EXCEPT ![c].running = result.running]
        /\ debugger' = result.debugger
        /\ debuggingControl' =
               IF result.running THEN debuggingControl ELSE Forget({c})
        /\ IF result.running THEN UNCHANGED enabled ELSE UpdateRunAction
    /\ UNCHANGED <<vars, projects, sessionStartup, currentProject, delayed,
                   runMode, todo>>

CloseTab(c) ==
    /\ InEventLoop
    /\ control[c] # None
    /\ ~control[c].running
    /\ control' = [control EXCEPT ![c] = None]
    /\ UNCHANGED <<vars, projects, sessionStartup, currentProject, delayed,
                   runMode, debuggingControl, debugger, enabled, todo>>

-----------------------------------------------------------------------------
ExplorerInit ==
    /\ Init
    /\ projects = {}
    /\ sessionStartup = None
    /\ currentProject = None
    /\ delayed = None
    /\ runMode = "none"
    /\ control = [c \in Controls |-> None]
    /\ debuggingControl = None
    /\ debugger = "none"
    /\ enabled = {}
    /\ todo = <<>>

ProjectAction ==
    \/ \E p \in Projects : OpenProject(p) \/ SetStartupProject(p)
    \/ \E p \in Projects \cup {None} : SetCurrent(p)
    \/ UnloadProject
    \/ \E cleared \in BOOLEAN : ClearSession(cleared)

BuildAction ==
    \/ BuildProject \/ CleanProject \/ RebuildProject
    \/ BuildSession \/ CleanSession \/ RebuildSession
    \/ RunProject \/ DebugProject

ControlAction ==
    \/ \E c \in Controls : ProcessExited(c) \/ ReRunRunControl(c) \/ CloseTab(c)
    \/ ExitDebugger
    \/ StartExternal

(* The build manager's own steps.  (The output of a step does not matter   *)
(* here.)                                                                  *)
BuildManagerStep ==
    \/ EventLoop /\ todo = <<>> /\ Slots /\ UNCHANGED todo
    \/ CancelFinished /\ Slots /\ UNCHANGED todo
    \/ (\E ok \in BOOLEAN : WorkerReturns(ok)) /\ UNCHANGED explorer
    \/ CancelBuild /\ todo = <<>> /\ "cancel" \in enabled /\ UNCHANGED explorer
    \/ CancelInProgressWidget /\ todo = <<>> /\ UNCHANGED explorer

ExplorerNext ==
    \/ ProjectAction
    \/ LoadSession
    \/ BuildAction
    \/ CallBuildManager
    \/ ControlAction
    \/ BuildManagerStep

ExplorerSpec == ExplorerInit /\ [][ExplorerNext]_allVars

-----------------------------------------------------------------------------
(* Properties *)

(* The menu shows the truth whenever the user can look at it: no signal is *)
(* missed, no slot reads too early.  It is not so after all projects were  *)
(* removed by a clear() that returns false or by another session.          *)
ActionsFresh ==
    InEventLoop =>
        enabled = Enabled(projects, sessionStartup, currentProject,
                          debuggingControl, Building)

(* That is all it can be wrong in: with no project left, the actions of    *)
(* the session may be as if there were some.                               *)
OnlySessionLags ==
    InEventLoop =>
        \E pros \in SUBSET Projects :
            /\ pros = projects \/ projects = {}
            /\ enabled = Enabled(pros, sessionStartup, currentProject,
                                 debuggingControl, Building)

(* A run waits only for the build that was started for it, never for the   *)
(* next one, and two debug sessions are not on their way at once.          *)
DelayedOfThisBuild ==
    InEventLoop /\ delayed # None =>
        /\ running
        /\ runMode = "debug" => debuggingControl = None

(* While the control of m_debuggingRunControl runs it stays registered, so *)
(* that "Debug" stays out of reach.                                        *)
DebugKept ==
    [][\A c \in DebugControls :
           debuggingControl = c /\ debugger = c /\ debugger' = c
           => debuggingControl' = c]_allVars

(* Whatever is still to be executed belongs to an open project ("The       *)
(* projects own the buildstep", buildstep.h).                              *)
ProjectsInUse ==
    {ProjectOf[queue[i]] : i \in DOMAIN queue}
    \cup {CurrentProject : x \in IF running THEN {current} ELSE {}}
    \cup ({delayed} \ {None})
StepsAlive == ProjectsInUse \subseteq projects
=============================================================================
