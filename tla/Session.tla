-------------------------------- MODULE Session --------------------------------
(***************************************************************************)
(* SessionManager and SessionFile: the projects that are open, their       *)
(* dependencies and the startup project, and how sessions are created,     *)
(* loaded, saved, cleared, cloned and deleted.                             *)
(*                                                                         *)
(* A project is its file.  The order of m_projects is abstracted: what     *)
(* depends on it (which application becomes the startup project, which of  *)
(* two independent projects is built first) is any of the possibilities.   *)
(* The open editors are there or not.  All code runs in the GUI thread;    *)
(* the session dialog is modal.                                            *)
(***************************************************************************)
EXTENDS Integers, FiniteSets

CONSTANTS
    Files,          \* the project files
    Applications,   \* those of projects with isApplication()
    Names,          \* session names
    Default,        \* "default"
    None,           \* no project, no session name, no file
    Failures        \* what may go wrong outside: see below

ASSUME SessionAssumption ==
    /\ Applications \subseteq Files
    /\ Default \in Names
    /\ None \notin Files \cup Names
    /\ Failures \subseteq {"write",     \* a session file cannot be written
                           "read",      \* or read
                           "open",      \* a project file cannot be opened
                           "editor",    \* an editor cannot be saved
                           "remove"}    \* a session file cannot be removed

VARIABLES
    m_file,         \* the SessionFile in use
    m_sessionName,
    openedEditors,  \* EditorManager has open editors
    sessions,       \* the "Sessions" in the settings
    file,           \* the session files on disk
    dialog,         \* the session dialog is open
    running         \* the application runs

vars == <<m_file, m_sessionName, openedEditors, sessions, file, dialog, running>>

Dependencies == [Files -> SUBSET Files]
Content == [projects : SUBSET Files, startupProject : Files \cup {None},
            depMap : Dependencies, editors : BOOLEAN]
SessionFile == [fileName : Names \cup {None}, projects : SUBSET Files,
                startupProject : Files \cup {None}, depMap : Dependencies]

ASSUME NoneAssumption == None \notin Content
ASSUME FilesAssumption == IsFiniteSet(Files)

TypeOK ==
    /\ m_file \in SessionFile
    /\ m_sessionName \in Names \cup {None}
    /\ openedEditors \in BOOLEAN
    /\ sessions \in SUBSET Names
    /\ file \in [Names -> Content \cup {None}]
    /\ dialog \in BOOLEAN
    /\ running \in BOOLEAN

NewFile(name) ==
    [fileName |-> name, projects |-> {}, startupProject |-> None,
     depMap |-> [p \in Files |-> {}]]

SessionList == sessions \cup {Default}

IsDefaultVirgin ==
    m_sessionName = Default /\ m_file.projects = {} /\ ~openedEditors

-----------------------------------------------------------------------------
(* Projects and their dependencies *)

(* The first application, whichever that is. *)
DefaultStartupProject(projects) ==
    IF projects \cap Applications = {} THEN {None}
    ELSE projects \cap Applications

(* A startup project is chosen only where there is none. *)
WithStartupProject(f) ==
    IF f.startupProject # None THEN {f}
    ELSE {[f EXCEPT !.startupProject = p] : p \in DefaultStartupProject(f.projects)}

AddProjects(f, projects) ==
    WithStartupProject([f EXCEPT !.projects = @ \cup projects])

(* Faulty variant: the dependencies are not refreshed. *)
StaleDependencies(f, kept) == f.depMap

(* Faulty variant: there are dependencies of open projects only. *)
KeptDependencies(f, kept) == [p \in kept |-> f.depMap[p] \cap kept]

(* "Refresh dependencies" *)
RefreshedDependencies(f, kept) ==
    [p \in Files |-> IF p \in kept THEN f.depMap[p] \cap kept ELSE {}]

(* Faulty variant: the startup project is left as it is. *)
RemoveProjectsOnly(f, remove) ==
    {[f EXCEPT !.projects = @ \ remove,
               !.depMap = RefreshedDependencies(f, f.projects \ remove)]}

RemoveProjects(f, remove) ==
    WithStartupProject(
        [f EXCEPT !.projects = @ \ remove,
                  !.startupProject = IF @ \in remove THEN None ELSE @,
                  !.depMap = RefreshedDependencies(f, f.projects \ remove)])

(* Faulty variant: only direct dependencies are looked at. *)
DirectDependencyCheck(depMap, newDep, checkDep) ==
    newDep # checkDep /\ newDep \notin depMap[checkDep]

(* The recursion comes to checkDep and all that it depends on, and fails   *)
(* where it comes to newDep.                                               *)
RecursiveDependencyCheck(depMap, newDep, checkDep) ==
    \E reached \in SUBSET Files :
        /\ checkDep \in reached
        /\ newDep \notin reached
        /\ \A p \in reached : depMap[p] \subseteq reached

Idle == running /\ ~dialog

OpenProject(p) ==
    /\ Idle
    /\ p \notin m_file.projects
    /\ m_file' \in AddProjects(m_file, {p})
    /\ UNCHANGED <<m_sessionName, openedEditors, sessions, file, dialog, running>>

UnloadProject(p) ==
    /\ Idle
    /\ p \in m_file.projects
    /\ m_file' \in RemoveProjects(m_file, {p})
    /\ UNCHANGED <<m_sessionName, openedEditors, sessions, file, dialog, running>>

SetStartupProject(p) ==
    /\ Idle
    /\ p \in m_file.projects
    /\ m_file' = [m_file EXCEPT !.startupProject = p]
    /\ UNCHANGED <<m_sessionName, openedEditors, sessions, file, dialog, running>>

(* What the dependencies dialog applies, one dependency at a time. *)
AddDependency(project, depProject) ==
    /\ Idle
    /\ {project, depProject} \subseteq m_file.projects
    /\ RecursiveDependencyCheck(m_file.depMap, project, depProject)
    /\ m_file' = [m_file EXCEPT !.depMap[project] = @ \cup {depProject}]
    /\ UNCHANGED <<m_sessionName, openedEditors, sessions, file, dialog, running>>

RemoveDependency(project, depProject) ==
    /\ Idle
    /\ {project, depProject} \subseteq m_file.projects
    /\ m_file' = [m_file EXCEPT !.depMap[project] = @ \ {depProject}]
    /\ UNCHANGED <<m_sessionName, openedEditors, sessions, file, dialog, running>>

OpenOrCloseEditors ==
    /\ Idle
    /\ openedEditors' = ~openedEditors
    /\ UNCHANGED <<m_file, m_sessionName, sessions, file, dialog, running>>

(* dependenciesOrder(): the projects that are left after n rounds of its   *)
(* loop.  In a round those without unordered dependencies are put in order.*)
Unordered(f) ==
    LET left[n \in 0..Cardinality(f.projects)] ==
            IF n = 0 THEN f.projects
            ELSE {p \in left[n - 1] :
                     f.depMap[p] \ (f.projects \ left[n - 1]) # {}}
    IN  left

-----------------------------------------------------------------------------
(* Saving and clearing *)

Saved ==
    [projects |-> m_file.projects, startupProject |-> m_file.startupProject,
     depMap |-> m_file.depMap, editors |-> openedEditors]

(* Faulty variant: nothing is saved. *)
Unsaved == UNCHANGED file

Save == file' = [file EXCEPT ![m_file.fileName] = Saved]

SaveFails == "write" \in Failures /\ UNCHANGED file

(* An empty default session is not saved when the application is closed or *)
(* the session dialog opens.                                               *)
SaveUnlessVirgin ==
    IF IsDefaultVirgin THEN UNCHANGED file ELSE Save \/ SaveFails

(* requestCloseOfAllFiles: project files are never modified, editors may   *)
(* be.  The user cancels, or an editor is not saved and stays open.        *)
Outcome ==
    IF ~openedEditors THEN {"closed"}
    ELSE {"closed", "cancelled"} \cup
         {o \in {"notClosed"} : "editor" \in Failures}

(* The list notClosed comes back without the projects it should name: all  *)
(* projects are removed unless the user cancelled.                         *)
Clear(outcome) ==
    /\ IF outcome = "cancelled" THEN UNCHANGED m_file
       ELSE m_file' \in RemoveProjects([m_file EXCEPT !.startupProject = None],
                                       m_file.projects)
    /\ openedEditors' = (openedEditors /\ outcome # "closed")

ClearReturns(outcome) == outcome = "closed"

ClearSession(outcome) ==
    /\ Idle
    /\ m_file.projects # {}
    /\ outcome \in Outcome
    /\ Clear(outcome)
    /\ UNCHANGED <<m_sessionName, sessions, file, dialog, running>>

-----------------------------------------------------------------------------
(* Creating and loading *)

(* The session in use is saved, cleared and deleted. *)
Leave == IF m_file.fileName = None THEN UNCHANGED file ELSE Save

(* It cannot be saved, or is not cleared. *)
LeaveFails ==
    /\ m_file.fileName # None
    /\ \/ SaveFails /\ UNCHANGED <<m_file, openedEditors>>
       \/ Save /\ \E outcome \in Outcome :
                      ~ClearReturns(outcome) /\ Clear(outcome)
    /\ UNCHANGED m_sessionName

UpdateName(name) == m_sessionName' = name

CreateImpl(name) ==
    /\ Leave
    /\ m_file' = NewFile(name)
    /\ openedEditors' = FALSE
    /\ UpdateName(name)

(* Of its projects those are opened that can be; its dependencies and its  *)
(* startup project, if opened, are taken over.                             *)
Loaded(name, saved) ==
    UNION {
        {[f EXCEPT !.depMap = saved.depMap,
                   !.startupProject =
                        IF saved.startupProject \in f.projects
                        THEN saved.startupProject ELSE @]
            : f \in AddProjects(NewFile(name), opened)}
        : opened \in {s \in SUBSET saved.projects :
                        "open" \in Failures \/ s = saved.projects}}

LoadImpl(name) ==
    /\ IF IsDefaultVirgin THEN UNCHANGED file ELSE Leave
    /\ \/ /\ m_file' \in Loaded(name, file'[name])
          /\ openedEditors' = file'[name].editors
          /\ UpdateName(name)
       \/ /\ "read" \in Failures
          /\ m_file' = NewFile(name)
          /\ openedEditors' = FALSE
          /\ UNCHANGED m_sessionName

LoadSession(session) ==
    /\ session \in SessionList
    /\ session # m_sessionName \/ IsDefaultVirgin
    /\ \/ file[session] # None /\ LoadImpl(session)
       \/ file[session] # None /\ ~IsDefaultVirgin /\ LeaveFails
       \/ file[session] = None /\ CreateImpl(session)
       \/ file[session] = None /\ LeaveFails

(* From the menu or the welcome page. *)
SetSession(session) ==
    /\ Idle
    /\ LoadSession(session)
    /\ UNCHANGED <<sessions, dialog, running>>

(* restoreSession(): the session that the command line names, or a new     *)
(* default session.                                                        *)
RestoreSession ==
    /\ ~running
    /\ running' = TRUE
    /\ \/ \E session \in Names : LoadSession(session)
       \/ CreateImpl(Default)
    /\ UNCHANGED <<sessions, dialog>>

(* The application is closed: savePersistentSettings, and the end. *)
Exit ==
    /\ Idle
    /\ SaveUnlessVirgin
    /\ running' = FALSE
    /\ m_file' = NewFile(None)
    /\ m_sessionName' = None
    /\ openedEditors' = FALSE
    /\ UNCHANGED <<sessions, dialog>>

-----------------------------------------------------------------------------
(* The session dialog *)

ShowSessionManager ==
    /\ Idle
    /\ dialog' = TRUE
    /\ SaveUnlessVirgin
    /\ UNCHANGED <<m_file, m_sessionName, openedEditors, sessions, running>>

CreateSession(session) ==
    /\ dialog
    /\ session \notin SessionList
    /\ sessions' = sessions \cup {session}
    /\ UNCHANGED <<m_file, m_sessionName, openedEditors, file, dialog, running>>

(* QFile::copy() does not write over a file that is left of a session that *)
(* was deleted: then nothing is cloned.                                    *)
CloneSession(original, clone) ==
    /\ dialog
    /\ original \in SessionList
    /\ clone \notin SessionList
    /\ file[original] = None \/ file[clone] = None
    /\ file' = IF file[original] = None THEN file
               ELSE [file EXCEPT ![clone] = file[original]]
    /\ sessions' = sessions \cup {clone}
    /\ UNCHANGED <<m_file, m_sessionName, openedEditors, dialog, running>>

(* Faulty variant: the session in use can be deleted. *)
EnableAnyDelete(session) == session # Default

EnableDelete(session) == session # m_sessionName /\ session # Default

(* The name is off the list even where the file cannot be removed. *)
DeleteSession(session) ==
    /\ dialog
    /\ session \in sessions
    /\ EnableDelete(session)
    /\ sessions' = sessions \ {session}
    /\ \/ file' = [file EXCEPT ![session] = None]
       \/ "remove" \in Failures /\ UNCHANGED file
    /\ UNCHANGED <<m_file, m_sessionName, openedEditors, dialog, running>>

CloseDialog ==
    /\ dialog
    /\ dialog' = FALSE
    /\ \/ UNCHANGED <<m_file, m_sessionName, openedEditors, file>>
       \/ \E session \in Names : LoadSession(session)
    /\ UNCHANGED <<sessions, running>>

-----------------------------------------------------------------------------
Init ==
    /\ m_file = NewFile(None)
    /\ m_sessionName = None
    /\ openedEditors = FALSE
    /\ sessions = {}
    /\ file = [s \in Names |-> None]
    /\ dialog = FALSE
    /\ running = FALSE

Next ==
    \/ \E p \in Files : OpenProject(p) \/ UnloadProject(p) \/ SetStartupProject(p)
    \/ \E p, d \in Files : AddDependency(p, d) \/ RemoveDependency(p, d)
    \/ OpenOrCloseEditors
    \/ \E outcome \in Outcome : ClearSession(outcome)
    \/ \E s \in Names : SetSession(s) \/ CreateSession(s) \/ DeleteSession(s)
    \/ \E s, t \in Names : CloneSession(s, t)
    \/ RestoreSession
    \/ Exit
    \/ ShowSessionManager
    \/ CloseDialog

Spec == Init /\ [][Next]_vars

-----------------------------------------------------------------------------
(* Properties *)

(* There is no set of projects in which everyone waits for another one. *)
Acyclic(depMap) ==
    \A s \in SUBSET Files : s # {} => \E p \in s : depMap[p] \cap s = {}

(* recursiveDependencyCheck keeps circles out of the dependencies, in the  *)
(* session in use and in every session file, over any sequence of edits,   *)
(* unloads and loads: otherwise dependencies(proName) recurses for ever.   *)
DependenciesAcyclic ==
    /\ Acyclic(m_file.depMap)
    /\ \A s \in Names : file[s] # None => Acyclic(file[s].depMap)

(* "Build All" gets out of the loop of dependenciesOrder(): some round     *)
(* leaves nothing, because no project waits for one that is not open       *)
(* ("remove the handled projects from the dependency lists of the          *)
(* remaining unordered projects").                                         *)
DependenciesOrderReturns ==
    Unordered(m_file)[Cardinality(m_file.projects)] = {}

(* m_startupProject never points to a project that was removed, and there  *)
(* is one as long as an application is open.                               *)
StartupProjectOpen ==
    /\ m_file.startupProject \in m_file.projects \cup {None}
    /\ m_file.projects \cap Applications # {} => m_file.startupProject # None

(* The session that the window names has the file that save() writes. *)
NameIsFile == m_sessionName = m_file.fileName

(* The session that loadSession takes for "already loaded" is the one that *)
(* is loaded.  An unreadable file breaks it: loadImpl() has the new file   *)
(* then, and m_sessionName the old name.                                   *)
NamedIsLoaded == m_sessionName # None => NameIsFile

(* A session that is not in the list is never saved again: the session in  *)
(* use is one of the list as long as its file is its own, whatever is      *)
(* deleted, cloned, restored or fails.                                     *)
DeletedStaysDeleted ==
    [][NameIsFile => \A s \in Names :
           s \notin SessionList' => file'[s] \in {file[s], None}]_vars

(* What a session has, in memory or on disk. *)
InMemory == [projects |-> m_file.projects,
             startupProject |-> m_file.startupProject,
             depMap |-> m_file.depMap, editors |-> openedEditors]
Empty == [projects |-> {}, startupProject |-> None,
          depMap |-> [p \in Files |-> {}], editors |-> FALSE]
ContentOf(s) ==
    IF s = m_file.fileName THEN InMemory
    ELSE IF file[s] = None THEN Empty ELSE file[s]

(* Going from one session to another loses nothing of either, nor of any   *)
(* other; the default session may start anew.                              *)
SwitchKeepsContents ==
    [][running /\ running' /\ m_file'.fileName # m_file.fileName =>
           \A s \in Names \ {Default} : ContentOf(s)' = ContentOf(s)]_vars

=============================================================================
