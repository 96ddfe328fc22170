----------------------------- MODULE SessionProofs -----------------------------
(***************************************************************************)
(* For any project files, sessions and failures: no circular dependencies, *)
(* and a startup project that is open.  As long as session files can be    *)
(* read, the session in use is the one whose file is written, and going    *)
(* from one session to another loses nothing of any.  As long as project   *)
(* files can be opened, dependenciesOrder() returns.                       *)
(*                                                                         *)
(* The first two have to hold of every session file too, since a load      *)
(* takes them over: the invariant is about whatever has projects and       *)
(* dependencies, in memory or on disk.  A switch keeps contents because it *)
(* is to another name, so what is saved and what is loaded do not meet;    *)
(* and the startup project survives the load because a saved session with  *)
(* an application has one.  The loop returns because no project, in memory *)
(* or on disk, waits for one that is not open (Closed), and then every     *)
(* round puts a project in order.                                          *)
(***************************************************************************)
EXTENDS Session, InductionLemmas, FiniteSetTheorems, TLAPS

(* Of a SessionFile, and of what is saved of one. *)
StartupOpen(f) ==
    /\ f.startupProject \in f.projects \cup {None}
    /\ f.projects \cap Applications # {} => f.startupProject # None

GoodFile(f) == f \in SessionFile /\ Acyclic(f.depMap) /\ StartupOpen(f)
GoodContent(c) == c \in Content /\ Acyclic(c.depMap) /\ StartupOpen(c)

SessionInv ==
    /\ TypeOK
    /\ GoodFile(m_file)
    /\ \A s \in Names : file[s] # None => GoodContent(file[s])

-----------------------------------------------------------------------------
(* Dependencies *)

(* Fewer dependencies have no more circles. *)
LEMMA AcyclicFewer ==
    ASSUME NEW d \in Dependencies, NEW e \in Dependencies, Acyclic(d),
           \A p \in Files : e[p] \subseteq d[p]
    PROVE  Acyclic(e)
<1> SUFFICES ASSUME NEW s \in SUBSET Files, s # {}
             PROVE  \E p \in s : e[p] \cap s = {}
  BY DEF Acyclic
<1>1. PICK p \in s : d[p] \cap s = {}
  BY DEF Acyclic
<1>2. e[p] \subseteq d[p]
  OBVIOUS
<1> QED
  BY <1>1, <1>2

LEMMA AcyclicNone ==
    ASSUME NEW e, e = [p \in Files |-> {}]
    PROVE  e \in Dependencies /\ Acyclic(e)
BY DEF Dependencies, Acyclic

(* What recursiveDependencyCheck is for.  If everyone of a set waited for  *)
(* another one of it, then so did everyone of its part that the check came *)
(* to or, if that is empty, everyone of the set before the addition.       *)
LEMMA AcyclicAdd ==
    ASSUME NEW d \in Dependencies, Acyclic(d), NEW p \in Files, NEW q \in Files,
           RecursiveDependencyCheck(d, p, q)
    PROVE  Acyclic([d EXCEPT ![p] = @ \cup {q}])
<1> DEFINE e == [d EXCEPT ![p] = @ \cup {q}]
<1>1. /\ e[p] = d[p] \cup {q}
      /\ \A x \in Files : x # p => e[x] = d[x]
  BY DEF Dependencies
<1> HIDE DEF e
<1>2. PICK reached \in SUBSET Files :
          /\ q \in reached
          /\ p \notin reached
          /\ \A x \in reached : d[x] \subseteq reached
  BY DEF RecursiveDependencyCheck
<1> SUFFICES ASSUME NEW s \in SUBSET Files, s # {}
             PROVE  \E x \in s : e[x] \cap s = {}
  BY DEF Acyclic, e
<1>3. CASE s \cap reached # {}
  <2>1. PICK x \in s \cap reached : d[x] \cap (s \cap reached) = {}
    <3>1. s \cap reached \in SUBSET Files
      OBVIOUS
    <3> QED
      BY <1>3, <3>1 DEF Acyclic
  <2>2. e[x] = d[x] /\ d[x] \subseteq reached
    BY <1>1, <1>2
  <2> QED
    BY <2>1, <2>2
<1>4. CASE s \cap reached = {}
  <2>1. PICK x \in s : d[x] \cap s = {}
    BY DEF Acyclic
  <2>2. q \notin s
    BY <1>2, <1>4
  <2>3. CASE x = p
    BY <1>1, <2>1, <2>2, <2>3
  <2>4. CASE x # p
    BY <1>1, <2>1, <2>4
  <2> QED
    BY <2>3, <2>4
<1> QED
  BY <1>3, <1>4

-----------------------------------------------------------------------------
(* The operations on a session file *)

LEMMA WithStartupGood ==
    ASSUME NEW f \in SessionFile, NEW g \in WithStartupProject(f),
           f.startupProject \in f.projects \cup {None}
    PROVE  /\ g \in SessionFile
           /\ g.fileName = f.fileName
           /\ g.projects = f.projects
           /\ g.depMap = f.depMap
           /\ StartupOpen(g)
<1> USE SessionAssumption
<1>1. CASE f.startupProject # None
  BY <1>1 DEF WithStartupProject, StartupOpen
<1>2. CASE f.startupProject = None
  <2>1. PICK p \in DefaultStartupProject(f.projects) :
            g = [f EXCEPT !.startupProject = p]
    BY <1>2 DEF WithStartupProject
  <2>2. f.projects \subseteq Files
    BY DEF SessionFile
  <2>3. /\ p \in f.projects \cup {None}
        /\ f.projects \cap Applications # {} => p # None
    BY <2>2 DEF DefaultStartupProject
  <2>4. /\ g \in SessionFile
        /\ g.fileName = f.fileName
        /\ g.projects = f.projects
        /\ g.depMap = f.depMap
        /\ g.startupProject = p
    BY <2>1, <2>2, <2>3 DEF SessionFile
  <2> QED
    BY <2>3, <2>4 DEF StartupOpen
<1> QED
  BY <1>1, <1>2

LEMMA AddProjectsGood ==
    ASSUME NEW f, GoodFile(f), NEW projects \in SUBSET Files,
           NEW g \in AddProjects(f, projects)
    PROVE  GoodFile(g) /\ g.fileName = f.fileName
                       /\ g.projects = f.projects \cup projects
                       /\ g.depMap = f.depMap
<1> DEFINE h == [f EXCEPT !.projects = @ \cup projects]
<1>1. f \in SessionFile
  BY DEF GoodFile
<1>2. /\ h \in SessionFile
      /\ h.fileName = f.fileName
      /\ h.projects = f.projects \cup projects
      /\ h.depMap = f.depMap
      /\ h.startupProject = f.startupProject
  BY <1>1 DEF SessionFile
<1>3. g \in WithStartupProject(h)
  BY DEF AddProjects
<1> HIDE DEF h
<1>4. h.startupProject \in h.projects \cup {None}
  BY <1>2 DEF GoodFile, StartupOpen
<1> QED
  BY <1>2, <1>3, <1>4, WithStartupGood DEF GoodFile

LEMMA RefreshedGood ==
    ASSUME NEW f \in SessionFile, Acyclic(f.depMap), NEW kept \in SUBSET Files
    PROVE  /\ RefreshedDependencies(f, kept) \in Dependencies
           /\ Acyclic(RefreshedDependencies(f, kept))
<1>1. f.depMap \in Dependencies
  BY DEF SessionFile
<1>2. \A p \in Files : f.depMap[p] \subseteq Files
  BY <1>1 DEF Dependencies
<1> DEFINE e == RefreshedDependencies(f, kept)
<1>3. e = [p \in Files |-> IF p \in kept THEN f.depMap[p] \cap kept ELSE {}]
  BY DEF RefreshedDependencies
<1> HIDE DEF e
<1>4. e \in Dependencies /\ \A p \in Files : e[p] \subseteq f.depMap[p]
  BY <1>2, <1>3 DEF Dependencies
<1>5. Acyclic(e)
  BY <1>1, <1>4, AcyclicFewer
<1> QED
  BY <1>4, <1>5 DEF e

LEMMA RemoveProjectsGood ==
    ASSUME NEW f \in SessionFile, Acyclic(f.depMap),
           f.startupProject \in f.projects \cup {None},
           NEW remove \in SUBSET Files, NEW g \in RemoveProjects(f, remove)
    PROVE  GoodFile(g) /\ g.fileName = f.fileName
                       /\ g.projects = f.projects \ remove
                       /\ g.depMap = RefreshedDependencies(f, g.projects)
<1> DEFINE e == RefreshedDependencies(f, f.projects \ remove)
           p == IF f.startupProject \in remove THEN None ELSE f.startupProject
           h == [f EXCEPT !.projects = @ \ remove, !.startupProject = p,
                          !.depMap = e]
<1>1. g \in WithStartupProject(h)
  BY DEF RemoveProjects
<1>2. f.projects \subseteq Files /\ f.startupProject \in Files \cup {None}
  BY DEF SessionFile
<1>3. e \in Dependencies /\ Acyclic(e)
  BY <1>2, RefreshedGood
<1>4. p \in Files \cup {None} /\ p \in (f.projects \ remove) \cup {None}
  BY <1>2
<1> HIDE DEF e, p
<1>5. /\ h \in SessionFile
      /\ h.fileName = f.fileName
      /\ h.projects = f.projects \ remove
      /\ h.depMap = e
      /\ h.startupProject = p
  BY <1>2, <1>3, <1>4 DEF SessionFile
<1> HIDE DEF h
<1>6. /\ GoodFile(g) /\ g.fileName = f.fileName
      /\ g.projects = f.projects \ remove /\ g.depMap = e
  BY <1>1, <1>3, <1>4, <1>5, WithStartupGood DEF GoodFile
<1> QED
  BY <1>6 DEF e

LEMMA NewFileGood ==
    ASSUME NEW name \in Names \cup {None}
    PROVE  GoodFile(NewFile(name)) /\ NewFile(name).fileName = name
                                   /\ NewFile(name).projects = {}
<1>1. /\ NewFile(name) \in SessionFile
      /\ NewFile(name).fileName = name
      /\ NewFile(name).projects = {}
      /\ NewFile(name).startupProject = None
      /\ NewFile(name).depMap = [p \in Files |-> {}]
  <2>1. [p \in Files |-> {}] \in Dependencies
    BY AcyclicNone
  <2> QED
    BY <2>1 DEF NewFile, SessionFile
<1>2. Acyclic(NewFile(name).depMap)
  BY <1>1, AcyclicNone
<1> QED
  BY <1>1, <1>2 DEF GoodFile, StartupOpen

LEMMA LoadedGood ==
    ASSUME NEW name \in Names, NEW saved, GoodContent(saved),
           NEW g \in Loaded(name, saved)
    PROVE  GoodFile(g) /\ g.fileName = name
<1> USE SessionAssumption
<1> DEFINE Taken(f) == [f EXCEPT !.depMap = saved.depMap,
                                 !.startupProject =
                                     IF saved.startupProject \in f.projects
                                     THEN saved.startupProject ELSE @]
<1>1. PICK opened \in SUBSET saved.projects :
         g \in {Taken(f) : f \in AddProjects(NewFile(name), opened)}
  <2>1. PICK S \in {{Taken(f) : f \in AddProjects(NewFile(name), opened)}
                       : opened \in {s \in SUBSET saved.projects :
                             "open" \in Failures \/ s = saved.projects}} :
            g \in S
    BY Zenon DEF Loaded
  <2> QED
    BY <2>1, Zenon
<1>2. PICK f \in AddProjects(NewFile(name), opened) : g = Taken(f)
  BY <1>1, Zenon
<1>3. /\ saved.projects \subseteq Files
      /\ saved.startupProject \in Files \cup {None}
      /\ saved.depMap \in Dependencies
      /\ Acyclic(saved.depMap)
  BY DEF GoodContent, Content
<1>4. GoodFile(f) /\ f.fileName = name
  BY <1>3, NewFileGood, AddProjectsGood
<1>5. f \in SessionFile /\ f.projects \subseteq Files
      /\ f.startupProject \in Files \cup {None}
  BY <1>4 DEF GoodFile, SessionFile
<1> DEFINE p == IF saved.startupProject \in f.projects
                THEN saved.startupProject ELSE f.startupProject
<1>6. /\ p \in Files \cup {None}
      /\ p \in f.projects \cup {None}
      /\ f.projects \cap Applications # {} => p # None
  BY <1>3, <1>4, <1>5 DEF GoodFile, StartupOpen
<1>7. g = [f EXCEPT !.depMap = saved.depMap, !.startupProject = p]
  BY <1>2
<1> HIDE DEF p
<1>8. /\ g \in SessionFile
      /\ g.fileName = f.fileName
      /\ g.projects = f.projects
      /\ g.depMap = saved.depMap
      /\ g.startupProject = p
  BY <1>3, <1>5, <1>6, <1>7 DEF SessionFile
<1> QED
  BY <1>3, <1>4, <1>6, <1>8 DEF GoodFile, StartupOpen

-----------------------------------------------------------------------------
(* What the steps are made of *)

FilesGood(files) ==
    /\ files \in [Names -> Content \cup {None}]
    /\ \A s \in Names : files[s] # None => GoodContent(files[s])

LEMMA InvParts ==
    SessionInv <=> TypeOK /\ GoodFile(m_file) /\ FilesGood(file)
BY DEF SessionInv, FilesGood, TypeOK

LEMMA SaveGood ==
    ASSUME SessionInv, Save
    PROVE  FilesGood(file') /\ \A s \in Names : file[s] # None => file'[s] # None
<1> USE SessionAssumption
<1>1. m_file \in SessionFile /\ Acyclic(m_file.depMap) /\ StartupOpen(m_file)
  BY DEF SessionInv, GoodFile
<1>2. openedEditors \in BOOLEAN
  BY DEF SessionInv, TypeOK
<1> DEFINE c == Saved
<1>3. c = [projects |-> m_file.projects, startupProject |-> m_file.startupProject,
           depMap |-> m_file.depMap, editors |-> openedEditors]
  BY DEF Saved
<1> HIDE DEF c
<1>4. /\ m_file.projects \in SUBSET Files
      /\ m_file.startupProject \in Files \cup {None}
      /\ m_file.depMap \in Dependencies
  BY <1>1 DEF SessionFile
<1>5. c \in Content
  BY <1>2, <1>3, <1>4, Zenon DEF Content
<1>6. /\ c.projects = m_file.projects
      /\ c.startupProject = m_file.startupProject
      /\ c.depMap = m_file.depMap
  BY <1>3
<1>7. GoodContent(c)
  BY <1>1, <1>5, <1>6 DEF GoodContent, StartupOpen
<1>8. file \in [Names -> Content \cup {None}]
      /\ file' = [file EXCEPT ![m_file.fileName] = c]
  BY DEF Save, SessionInv, TypeOK, c
<1>9. \A s \in Names : file'[s] = IF s = m_file.fileName THEN c ELSE file[s]
  BY <1>8
<1>10. file' \in [Names -> Content \cup {None}]
  BY <1>5, <1>8
<1>11. ASSUME NEW s \in Names, file'[s] # None PROVE GoodContent(file'[s])
  BY <1>7, <1>9, <1>11 DEF SessionInv
<1>12. c # None
  BY <1>5, NoneAssumption
<1> QED
  BY <1>9, <1>10, <1>11, <1>12 DEF FilesGood

LEMMA ClearGood ==
    ASSUME SessionInv, NEW outcome, Clear(outcome)
    PROVE  /\ GoodFile(m_file')
           /\ m_file'.fileName = m_file.fileName
           /\ openedEditors' \in BOOLEAN
<1>1. openedEditors' \in BOOLEAN
  BY Zenon DEF Clear
<1>2. m_file \in SessionFile /\ GoodFile(m_file)
  BY DEF SessionInv, GoodFile
<1>3. CASE outcome = "cancelled"
  BY <1>1, <1>2, <1>3 DEF Clear
<1>4. CASE outcome # "cancelled"
  <2> DEFINE h == [m_file EXCEPT !.startupProject = None]
  <2>1. m_file' \in RemoveProjects(h, m_file.projects)
    BY <1>4 DEF Clear
  <2>2. /\ h \in SessionFile
        /\ h.fileName = m_file.fileName
        /\ h.depMap = m_file.depMap
        /\ h.startupProject = None
        /\ m_file.projects \in SUBSET Files
    BY <1>2 DEF SessionFile
  <2> HIDE DEF h
  <2>3. Acyclic(h.depMap)
    BY <1>2, <2>2 DEF GoodFile
  <2>4. h.startupProject \in h.projects \cup {None}
    BY <2>2
  <2> QED
    BY <1>1, <2>1, <2>2, <2>3, <2>4, RemoveProjectsGood
<1> QED
  BY <1>3, <1>4

(* What holds after all that loadSession or createAndLoadNewDefaultSession *)
(* may do.                                                                 *)
SwitchGood ==
    /\ GoodFile(m_file') /\ FilesGood(file')
    /\ m_sessionName' \in Names \cup {None}
    /\ openedEditors' \in BOOLEAN

LEMMA LeaveGood ==
    ASSUME SessionInv, Leave
    PROVE  FilesGood(file') /\ \A s \in Names : file[s] # None => file'[s] # None
<1>1. CASE Save
  BY <1>1, SaveGood
<1>2. CASE UNCHANGED file
  BY <1>2, InvParts
<1> QED
  BY <1>1, <1>2 DEF Leave

LEMMA LeaveFailsGood ==
    ASSUME SessionInv, LeaveFails
    PROVE  SwitchGood
<1>1. m_sessionName' \in Names \cup {None}
  BY DEF LeaveFails, SessionInv, TypeOK
<1>2. CASE SaveFails /\ UNCHANGED <<m_file, openedEditors>>
  BY <1>1, <1>2, InvParts DEF SaveFails, SwitchGood, TypeOK, SessionInv
<1>3. CASE Save /\ \E outcome \in Outcome :
                      ~ClearReturns(outcome) /\ Clear(outcome)
  BY <1>1, <1>3, SaveGood, ClearGood DEF SwitchGood
<1> QED
  BY <1>2, <1>3 DEF LeaveFails

LEMMA CreateImplGood ==
    ASSUME SessionInv, NEW name \in Names, CreateImpl(name)
    PROVE  SwitchGood
<1>1. FilesGood(file')
  BY LeaveGood DEF CreateImpl
<1>2. GoodFile(m_file')
  BY NewFileGood DEF CreateImpl
<1> QED
  BY <1>1, <1>2 DEF SwitchGood, CreateImpl, UpdateName

LEMMA LoadImplGood ==
    ASSUME SessionInv, NEW name \in Names, file[name] # None, LoadImpl(name)
    PROVE  SwitchGood
<1>1. FilesGood(file') /\ file'[name] # None
  <2>1. CASE UNCHANGED file
    BY <2>1, InvParts
  <2>2. CASE Leave
    BY <2>2, LeaveGood
  <2> QED
    BY <2>1, <2>2 DEF LoadImpl
<1>2. GoodContent(file'[name])
  BY <1>1 DEF FilesGood
<1>3. file'[name].editors \in BOOLEAN
  BY <1>2, Zenon DEF GoodContent, Content
<1>4. CASE /\ m_file' \in Loaded(name, file'[name])
           /\ openedEditors' = file'[name].editors
           /\ UpdateName(name)
  <2>1. openedEditors' \in BOOLEAN
    BY <1>3, <1>4, Zenon
  <2>2. GoodFile(m_file')
    BY <1>2, <1>4, LoadedGood
  <2> QED
    BY <1>1, <1>4, <2>1, <2>2 DEF SwitchGood, UpdateName
<1>5. CASE /\ m_file' = NewFile(name)
           /\ openedEditors' = FALSE
           /\ UNCHANGED m_sessionName
  BY <1>1, <1>5, NewFileGood DEF SwitchGood, SessionInv, TypeOK
<1> QED
  BY <1>4, <1>5 DEF LoadImpl

LEMMA LoadSessionGood ==
    ASSUME SessionInv, NEW session \in Names, LoadSession(session)
    PROVE  SwitchGood
BY LeaveFailsGood, CreateImplGood, LoadImplGood DEF LoadSession

-----------------------------------------------------------------------------
(* The steps *)

LEMMA SwitchInv ==
    ASSUME SwitchGood, sessions' \in SUBSET Names, dialog' \in BOOLEAN,
           running' \in BOOLEAN
    PROVE  SessionInv'
<1>1. m_file' \in SessionFile /\ file' \in [Names -> Content \cup {None}]
  BY DEF SwitchGood, GoodFile, FilesGood
<1>2. TypeOK'
  BY <1>1 DEF TypeOK, SwitchGood
<1> QED
  BY <1>2 DEF SessionInv, SwitchGood, FilesGood

(* A step that only replaces the SessionFile. *)
LEMMA FileStepInv ==
    ASSUME SessionInv, GoodFile(m_file'),
           UNCHANGED <<m_sessionName, sessions, file, dialog, running>>,
           openedEditors' \in BOOLEAN
    PROVE  SessionInv'
<1>1. TypeOK'
  BY DEF TypeOK, SessionInv, GoodFile
<1> QED
  BY <1>1 DEF SessionInv

LEMMA ProjectStepInv ==
    ASSUME SessionInv, NEW p \in Files,
           OpenProject(p) \/ UnloadProject(p) \/ SetStartupProject(p)
    PROVE  SessionInv'
<1>1. /\ UNCHANGED <<m_sessionName, sessions, file, dialog, running>>
      /\ openedEditors' \in BOOLEAN
  <2>1. UNCHANGED <<m_sessionName, openedEditors, sessions, file, dialog, running>>
    BY DEF OpenProject, UnloadProject, SetStartupProject
  <2> QED
    BY <2>1 DEF SessionInv, TypeOK
<1>2. m_file \in SessionFile /\ GoodFile(m_file)
  BY DEF SessionInv, GoodFile
<1>3. GoodFile(m_file')
  <2>1. CASE OpenProject(p)
    BY <1>2, <2>1, AddProjectsGood DEF OpenProject
  <2>2. CASE UnloadProject(p)
    <3>1. /\ Acyclic(m_file.depMap)
          /\ m_file.startupProject \in m_file.projects \cup {None}
          /\ {p} \in SUBSET Files
      BY <1>2 DEF GoodFile, StartupOpen
    <3> QED
      BY <1>2, <2>2, <3>1, RemoveProjectsGood DEF UnloadProject
  <2>3. CASE SetStartupProject(p)
    <3>1. p \in m_file.projects /\ p # None
      BY <2>3, SessionAssumption DEF SetStartupProject
    <3>2. /\ m_file' \in SessionFile
          /\ m_file'.projects = m_file.projects
          /\ m_file'.depMap = m_file.depMap
          /\ m_file'.startupProject = p
      BY <1>2, <2>3 DEF SetStartupProject, SessionFile
    <3> QED
      BY <1>2, <3>1, <3>2 DEF GoodFile, StartupOpen
  <2> QED
    BY <2>1, <2>2, <2>3
<1> QED
  BY <1>1, <1>3, FileStepInv

LEMMA DependencyStepInv ==
    ASSUME SessionInv, NEW p \in Files, NEW d \in Files,
           AddDependency(p, d) \/ RemoveDependency(p, d)
    PROVE  SessionInv'
<1>1. /\ UNCHANGED <<m_sessionName, sessions, file, dialog, running>>
      /\ openedEditors' \in BOOLEAN
  <2>1. UNCHANGED <<m_sessionName, openedEditors, sessions, file, dialog, running>>
    BY DEF AddDependency, RemoveDependency
  <2> QED
    BY <2>1 DEF SessionInv, TypeOK
<1>2. m_file \in SessionFile /\ GoodFile(m_file)
  BY DEF SessionInv, GoodFile
<1>3. m_file.depMap \in Dependencies /\ Acyclic(m_file.depMap)
  BY <1>2 DEF GoodFile, SessionFile
<1>4. PICK e : /\ m_file' = [m_file EXCEPT !.depMap = e]
               /\ e \in Dependencies
               /\ Acyclic(e)
  <2>1. CASE AddDependency(p, d)
    <3> DEFINE e == [m_file.depMap EXCEPT ![p] = @ \cup {d}]
    <3>1. m_file' = [m_file EXCEPT !.depMap = e]
      BY <2>1 DEF AddDependency
    <3>2. e \in Dependencies
      BY <1>3 DEF Dependencies
    <3>3. Acyclic(e)
      BY <1>3, <2>1, AcyclicAdd DEF AddDependency
    <3> QED
      BY <3>1, <3>2, <3>3
  <2>2. CASE RemoveDependency(p, d)
    <3> DEFINE e == [m_file.depMap EXCEPT ![p] = @ \ {d}]
    <3>1. m_file' = [m_file EXCEPT !.depMap = e]
      BY <2>2 DEF RemoveDependency
    <3>2. e \in Dependencies /\ \A q \in Files : e[q] \subseteq m_file.depMap[q]
      BY <1>3 DEF Dependencies
    <3>3. Acyclic(e)
      BY <1>3, <3>2, AcyclicFewer
    <3> QED
      BY <3>1, <3>2, <3>3
  <2> QED
    BY <2>1, <2>2
<1>5. /\ m_file' \in SessionFile
      /\ m_file'.projects = m_file.projects
      /\ m_file'.depMap = e
      /\ m_file'.startupProject = m_file.startupProject
  BY <1>2, <1>4 DEF SessionFile
<1>6. GoodFile(m_file')
  BY <1>2, <1>4, <1>5 DEF GoodFile, StartupOpen
<1> QED
  BY <1>1, <1>6, FileStepInv

LEMMA OtherStepInv ==
    ASSUME SessionInv,
           \/ OpenOrCloseEditors
           \/ \E outcome \in Outcome : ClearSession(outcome)
           \/ RestoreSession \/ Exit \/ ShowSessionManager \/ CloseDialog
    PROVE  SessionInv'
<1> USE SessionAssumption
<1>0. TypeOK /\ GoodFile(m_file) /\ FilesGood(file)
  BY InvParts
<1>1. CASE OpenOrCloseEditors
  <2>1. openedEditors' \in BOOLEAN
    BY <1>1, Zenon DEF OpenOrCloseEditors
  <2> QED
    BY <1>0, <1>1, <2>1, FileStepInv DEF OpenOrCloseEditors
<1>2. CASE \E outcome \in Outcome : ClearSession(outcome)
  BY <1>2, ClearGood, FileStepInv DEF ClearSession
<1>3. CASE RestoreSession
  <2>1. SwitchGood
    BY <1>3, LoadSessionGood, CreateImplGood DEF RestoreSession
  <2> QED
    BY <1>0, <1>3, <2>1, SwitchInv DEF RestoreSession, TypeOK
<1>4. ASSUME SaveUnlessVirgin PROVE FilesGood(file')
  BY <1>0, <1>4, SaveGood DEF SaveUnlessVirgin, SaveFails
<1>5. CASE Exit
  <2>1. SwitchGood
    BY <1>4, <1>5, NewFileGood DEF Exit, SwitchGood
  <2> QED
    BY <1>0, <1>5, <2>1, SwitchInv DEF Exit, TypeOK
<1>6. CASE ShowSessionManager
  <2>1. SwitchGood
    BY <1>0, <1>4, <1>6 DEF ShowSessionManager, SwitchGood, TypeOK
  <2> QED
    BY <1>0, <1>6, <2>1, SwitchInv DEF ShowSessionManager, TypeOK
<1>7. CASE CloseDialog
  <2>1. SwitchGood
    BY <1>0, <1>7, LoadSessionGood DEF CloseDialog, SwitchGood, TypeOK
  <2> QED
    BY <1>0, <1>7, <2>1, SwitchInv DEF CloseDialog, TypeOK
<1> QED
  BY <1>1, <1>2, <1>3, <1>5, <1>6, <1>7

LEMMA SessionStepInv ==
    ASSUME SessionInv, NEW s \in Names, NEW t \in Names,
           \/ SetSession(s) \/ CreateSession(s) \/ DeleteSession(s)
           \/ CloneSession(s, t)
    PROVE  SessionInv'
<1>0. TypeOK /\ GoodFile(m_file) /\ FilesGood(file)
  BY InvParts
<1>1. CASE SetSession(s)
  BY <1>0, <1>1, LoadSessionGood, SwitchInv DEF SetSession, TypeOK
<1>2. CASE CreateSession(s)
  <2>1. SwitchGood
    BY <1>0, <1>2 DEF CreateSession, SwitchGood, TypeOK
  <2> QED
    BY <1>0, <1>2, <2>1, SwitchInv DEF CreateSession, TypeOK
<1>3. CASE DeleteSession(s)
  <2>1. file' = [file EXCEPT ![s] = None] \/ file' = file
    BY <1>3 DEF DeleteSession
  <2>2. FilesGood(file')
    BY <1>0, <2>1 DEF FilesGood
  <2>3. SwitchGood
    BY <1>0, <1>3, <2>2 DEF DeleteSession, SwitchGood, TypeOK
  <2> QED
    BY <1>0, <1>3, <2>3, SwitchInv DEF DeleteSession, TypeOK
<1>4. CASE CloneSession(s, t)
  <2>1. file' = IF file[s] = None THEN file ELSE [file EXCEPT ![t] = file[s]]
    BY <1>4, Zenon DEF CloneSession
  <2>2. FilesGood(file')
    <3>1. CASE file[s] = None
      BY <1>0, <2>1, <3>1
    <3>2. CASE file[s] # None
      BY <1>0, <2>1, <3>2 DEF FilesGood
    <3> QED
      BY <3>1, <3>2
  <2>3. SwitchGood
    BY <1>0, <1>4, <2>2 DEF CloneSession, SwitchGood, TypeOK
  <2> QED
    BY <1>0, <1>4, <2>3, SwitchInv DEF CloneSession, TypeOK
<1> QED
  BY <1>1, <1>2, <1>3, <1>4

LEMMA InitInv == Init => SessionInv
<1> SUFFICES ASSUME Init PROVE SessionInv
  OBVIOUS
<1>1. GoodFile(m_file)
  BY NewFileGood DEF Init
<1>2. TypeOK
  BY <1>1 DEF Init, TypeOK, GoodFile
<1> QED
  BY <1>1, <1>2 DEF SessionInv, Init

LEMMA NextInv == SessionInv /\ [Next]_vars => SessionInv'
<1> SUFFICES ASSUME SessionInv, [Next]_vars PROVE SessionInv'
  OBVIOUS
<1>1. CASE UNCHANGED vars
  <2>1. TypeOK'
    BY <1>1 DEF SessionInv, TypeOK, vars
  <2> QED
    BY <1>1, <2>1 DEF SessionInv, vars
<1>2. CASE Next
  BY <1>2, ProjectStepInv, DependencyStepInv, OtherStepInv, SessionStepInv
     DEF Next
<1> QED
  BY <1>1, <1>2

(* Every variable of the session manager keeps its type, whatever fails.   *)
THEOREM TypeCorrect == Spec => []TypeOK
<1>1. SessionInv => TypeOK
  BY DEF SessionInv
<1> QED
  BY <1>1, InitInv, NextInv, PTL DEF Spec

(* No sequence of edits, unloads, saves, clones and loads makes a project  *)
(* depend on itself, directly or over others.                              *)
THEOREM NoCircles == Spec => []DependenciesAcyclic
<1>1. SessionInv => DependenciesAcyclic
  BY DEF SessionInv, DependenciesAcyclic, GoodFile, GoodContent
<1> QED
  BY <1>1, InitInv, NextInv, PTL DEF Spec

(* The startup project is open, and set while an application is open.      *)
THEOREM StartupProject == Spec => []StartupProjectOpen
<1>1. SessionInv => StartupProjectOpen
  BY DEF SessionInv, StartupProjectOpen, GoodFile, StartupOpen
<1> QED
  BY <1>1, InitInv, NextInv, PTL DEF Spec

-----------------------------------------------------------------------------
(* The name of the session and its file. *)

NameInv == NameIsFile /\ m_sessionName \in SessionList \cup {None}

(* A step that goes on with the same file, saved or not. *)
LEMMA SameName ==
    ASSUME NameInv, m_file'.fileName = m_file.fileName,
           UNCHANGED <<m_sessionName, sessions>>
    PROVE  NameInv'
BY DEF NameInv, NameIsFile, SessionList

(* Going over to a session of the list. *)
LEMMA NewName ==
    ASSUME NEW name \in SessionList, m_file'.fileName = name,
           m_sessionName' = name, UNCHANGED sessions
    PROVE  NameInv'
BY DEF NameInv, NameIsFile, SessionList

(* loadSession and createAndLoadNewDefaultSession either stay with the     *)
(* session in use or go over to the other one.                             *)
Stays ==
    m_file'.fileName = m_file.fileName /\ UNCHANGED m_sessionName
Goes(name) ==
    /\ name \in SessionList
    /\ m_file'.fileName = name /\ m_sessionName' = name
    /\ \/ CreateImpl(name) /\ (file[name] = None \/ ~running)
       \/ LoadImpl(name) /\ file[name] # None

LEMMA LeaveFailsStays ==
    ASSUME SessionInv, LeaveFails
    PROVE  Stays /\ (Save \/ UNCHANGED file)
BY ClearGood DEF LeaveFails, SaveFails, Stays

LEMMA LoadSessionGoes ==
    ASSUME SessionInv, "read" \notin Failures, NEW session \in Names, LoadSession(session)
    PROVE  /\ Stays \/ Goes(session)
           /\ Save \/ UNCHANGED file
<1>1. session \in SessionList
  BY DEF LoadSession
<1>2. CASE LeaveFails
  BY <1>2, LeaveFailsStays
<1>3. CASE file[session] = None /\ CreateImpl(session)
  BY <1>1, <1>3, NewFileGood DEF CreateImpl, UpdateName, Leave, Goes
<1>4. CASE file[session] # None /\ LoadImpl(session)
  <2>1. Save \/ UNCHANGED file
    BY <1>4 DEF LoadImpl, Leave
  <2>2. /\ m_file' \in Loaded(session, file'[session])
        /\ UpdateName(session)
    BY <1>4 DEF LoadImpl
  <2>3. GoodContent(file'[session])
    <3>1. FilesGood(file') /\ file'[session] # None
      BY <1>4, <2>1, SaveGood, InvParts
    <3> QED
      BY <3>1 DEF FilesGood
  <2>4. m_file'.fileName = session
    BY <2>2, <2>3, LoadedGood
  <2> QED
    BY <1>1, <1>4, <2>1, <2>2, <2>4 DEF Goes, UpdateName
<1> QED
  BY <1>2, <1>3, <1>4 DEF LoadSession

LEMMA DefaultGoes ==
    ASSUME SessionInv, CreateImpl(Default), ~running
    PROVE  Goes(Default) /\ (Save \/ UNCHANGED file)
<1>1. Default \in Names /\ Default \in SessionList
  BY SessionAssumption DEF SessionList
<1> QED
  BY <1>1, NewFileGood DEF CreateImpl, UpdateName, Leave, Goes

LEMMA SwitchName ==
    ASSUME SessionInv, NameInv, NEW name \in Names, Stays \/ Goes(name),
           UNCHANGED sessions
    PROVE  NameInv'
BY SameName, NewName DEF Stays, Goes

(* Of all the other steps none goes over to another session. *)
LEMMA ProjectStepStays ==
    ASSUME SessionInv,
           \/ \E p \in Files : OpenProject(p) \/ UnloadProject(p) \/ SetStartupProject(p)
           \/ \E p, d \in Files : AddDependency(p, d) \/ RemoveDependency(p, d)
           \/ OpenOrCloseEditors
           \/ \E outcome \in Outcome : ClearSession(outcome)
    PROVE  Stays /\ UNCHANGED <<sessions, file>>
<1>1. UNCHANGED <<m_sessionName, sessions, file>>
  BY DEF OpenProject, UnloadProject, SetStartupProject, AddDependency, RemoveDependency,
         OpenOrCloseEditors, ClearSession
<1>2. /\ m_file \in SessionFile /\ GoodFile(m_file) /\ Acyclic(m_file.depMap)
      /\ m_file.startupProject \in m_file.projects \cup {None}
  BY DEF SessionInv, GoodFile, StartupOpen
<1>3. ASSUME NEW p \in Files, OpenProject(p) PROVE m_file'.fileName = m_file.fileName
  BY <1>2, <1>3, AddProjectsGood DEF OpenProject
<1>4. ASSUME NEW p \in Files, UnloadProject(p) PROVE m_file'.fileName = m_file.fileName
  BY <1>2, <1>4, RemoveProjectsGood DEF UnloadProject
<1>5. ASSUME NEW p \in Files, SetStartupProject(p)
      PROVE  m_file'.fileName = m_file.fileName
  BY <1>2, <1>5 DEF SetStartupProject, SessionFile
<1>6. ASSUME NEW p \in Files, NEW d \in Files, AddDependency(p, d) \/ RemoveDependency(p, d)
      PROVE  m_file'.fileName = m_file.fileName
  BY <1>2, <1>6 DEF AddDependency, RemoveDependency, SessionFile
<1>7. ASSUME NEW outcome, ClearSession(outcome) PROVE m_file'.fileName = m_file.fileName
  BY <1>7, ClearGood DEF ClearSession
<1>8. OpenOrCloseEditors => m_file'.fileName = m_file.fileName
  BY DEF OpenOrCloseEditors
<1> QED
  BY <1>1, <1>3, <1>4, <1>5, <1>6, <1>7, <1>8 DEF Stays

LEMMA NextName ==
    ASSUME "read" \notin Failures
    PROVE  SessionInv /\ NameInv /\ [Next]_vars => NameInv'
<1> SUFFICES ASSUME SessionInv, NameInv, [Next]_vars PROVE NameInv'
  OBVIOUS
<1>0. TypeOK /\ file \in [Names -> Content \cup {None}]
  BY DEF SessionInv, TypeOK
<1>1. CASE \/ \E p \in Files : OpenProject(p) \/ UnloadProject(p) \/ SetStartupProject(p)
           \/ \E p, d \in Files : AddDependency(p, d) \/ RemoveDependency(p, d)
           \/ OpenOrCloseEditors
           \/ \E outcome \in Outcome : ClearSession(outcome)
  <2>1. Stays /\ UNCHANGED <<sessions, file>>
    BY <1>1, ProjectStepStays
  <2> QED
    BY <1>0, <2>1, SameName DEF Stays
<1>2. CASE \E s \in Names : SetSession(s)
  BY <1>2, LoadSessionGoes, SwitchName DEF SetSession
<1>3. CASE RestoreSession
  <2>1. CASE \E s \in Names : LoadSession(s)
    BY <1>3, <2>1, LoadSessionGoes, SwitchName DEF RestoreSession
  <2>2. CASE CreateImpl(Default)
    BY <1>3, <2>2, DefaultGoes, SwitchName, SessionAssumption DEF RestoreSession
  <2> QED
    BY <1>3, <2>1, <2>2 DEF RestoreSession
<1>4. CASE CloseDialog
  <2>1. CASE \E s \in Names : LoadSession(s)
    BY <1>4, <2>1, LoadSessionGoes, SwitchName DEF CloseDialog
  <2>2. CASE UNCHANGED <<m_file, m_sessionName, openedEditors, file>>
    BY <1>0, <1>4, <2>2, SameName DEF CloseDialog
  <2> QED
    BY <1>4, <2>1, <2>2 DEF CloseDialog
<1>5. CASE ShowSessionManager
  BY <1>0, <1>5, SameName DEF ShowSessionManager, SaveUnlessVirgin, SaveFails
<1>6. CASE Exit
  BY <1>6, NewFileGood DEF Exit, NameInv, NameIsFile
<1>7. ASSUME NEW s \in Names, CreateSession(s) PROVE NameInv'
  BY <1>7 DEF CreateSession, SessionList, NameInv, NameIsFile
<1>8. ASSUME NEW s \in Names, DeleteSession(s) PROVE NameInv'
  BY <1>8 DEF DeleteSession, EnableDelete, SessionList, NameInv, NameIsFile
<1>9. ASSUME NEW s \in Names, NEW t \in Names, CloneSession(s, t) PROVE NameInv'
  BY <1>9 DEF CloneSession, SessionList, NameInv, NameIsFile
<1>10. CASE UNCHANGED vars
  BY <1>10 DEF vars, NameInv, NameIsFile, SessionList
<1> QED
  BY <1>1, <1>2, <1>3, <1>4, <1>5, <1>6, <1>7, <1>8, <1>9, <1>10 DEF Next

-----------------------------------------------------------------------------
(* A deleted session is not saved again. *)

ListedInv == m_sessionName \in SessionList \cup {None}

(* Loading comes only to sessions of the list, and saves the one in use. *)
LEMMA LoadSessionListed ==
    ASSUME ListedInv, NEW session \in Names, LoadSession(session), UNCHANGED sessions
    PROVE  ListedInv' /\ (Save \/ UNCHANGED file)
<1>1. session \in SessionList /\ SessionList' = SessionList
  BY DEF LoadSession, SessionList
<1>2. CASE LeaveFails
  BY <1>1, <1>2 DEF LeaveFails, SaveFails, ListedInv
<1>3. CASE CreateImpl(session)
  BY <1>1, <1>3 DEF CreateImpl, Leave, UpdateName, ListedInv
<1>4. CASE LoadImpl(session)
  <2>1. Save \/ UNCHANGED file
    BY <1>4 DEF LoadImpl, Leave
  <2>2. m_sessionName' = session \/ m_sessionName' = m_sessionName
    BY <1>4, Zenon DEF LoadImpl, UpdateName
  <2> QED
    BY <1>1, <2>1, <2>2 DEF ListedInv
<1> QED
  BY <1>2, <1>3, <1>4 DEF LoadSession

(* Every other step that writes a session file saves the one in use. *)
LEMMA NextListed ==
    ASSUME ListedInv, [Next]_vars
    PROVE  /\ ListedInv'
           /\ \/ (Save \/ UNCHANGED file) /\ SessionList \subseteq SessionList'
              \/ \E s \in Names : DeleteSession(s)
              \/ \E s, t \in Names : CloneSession(s, t)
<1>1. CASE \/ \E p \in Files : OpenProject(p) \/ UnloadProject(p) \/ SetStartupProject(p)
           \/ \E p, d \in Files : AddDependency(p, d) \/ RemoveDependency(p, d)
           \/ OpenOrCloseEditors
           \/ \E outcome \in Outcome : ClearSession(outcome)
  <2>1. UNCHANGED <<m_sessionName, sessions, file>>
    BY <1>1 DEF OpenProject, UnloadProject, SetStartupProject, AddDependency,
                RemoveDependency, OpenOrCloseEditors, ClearSession
  <2> QED
    BY <2>1 DEF ListedInv, SessionList
<1>2. CASE \E s \in Names : SetSession(s)
  BY <1>2, LoadSessionListed DEF SetSession, SessionList
<1>3. CASE RestoreSession
  <2>1. UNCHANGED sessions
    BY <1>3 DEF RestoreSession
  <2>2. CASE \E s \in Names : LoadSession(s)
    BY <2>1, <2>2, LoadSessionListed DEF SessionList
  <2>3. CASE CreateImpl(Default)
    BY <2>1, <2>3 DEF CreateImpl, Leave, UpdateName, ListedInv, SessionList
  <2> QED
    BY <1>3, <2>2, <2>3 DEF RestoreSession
<1>4. CASE CloseDialog
  <2>1. UNCHANGED sessions
    BY <1>4 DEF CloseDialog
  <2>2. CASE \E s \in Names : LoadSession(s)
    BY <2>1, <2>2, LoadSessionListed DEF SessionList
  <2>3. CASE UNCHANGED <<m_file, m_sessionName, openedEditors, file>>
    BY <2>1, <2>3 DEF ListedInv, SessionList
  <2> QED
    BY <1>4, <2>2, <2>3 DEF CloseDialog
<1>5. CASE ShowSessionManager
  BY <1>5 DEF ShowSessionManager, SaveUnlessVirgin, SaveFails, ListedInv, SessionList
<1>6. CASE Exit
  BY <1>6 DEF Exit, SaveUnlessVirgin, SaveFails, ListedInv, SessionList
<1>7. CASE \E s \in Names : CreateSession(s)
  BY <1>7 DEF CreateSession, ListedInv, SessionList
<1>8. CASE \E s \in Names : DeleteSession(s)
  BY <1>8 DEF DeleteSession, EnableDelete, ListedInv, SessionList
<1>9. CASE \E s, t \in Names : CloneSession(s, t)
  BY <1>9 DEF CloneSession, ListedInv, SessionList
<1>10. CASE UNCHANGED vars
  BY <1>10 DEF vars, ListedInv, SessionList
<1> QED
  BY <1>1, <1>2, <1>3, <1>4, <1>5, <1>6, <1>7, <1>8, <1>9, <1>10 DEF Next

(* Whatever cannot be read, written, opened or removed, a session that is  *)
(* not in the list is not written as long as the session in use is the one *)
(* of the file in use (an unreadable file ends that).                      *)
THEOREM DeletedStays == Spec => DeletedStaysDeleted
<1>1. Init => ListedInv
  BY DEF Init, ListedInv
<1>2. ListedInv /\ [Next]_vars => ListedInv'
  BY NextListed
<1>3. SessionInv /\ ListedInv /\ [Next]_vars =>
          [NameIsFile => \A s \in Names :
               s \notin SessionList' => file'[s] \in {file[s], None}]_vars
  <2> SUFFICES ASSUME SessionInv, ListedInv, Next, NameIsFile,
                      NEW s \in Names, s \notin SessionList'
               PROVE  file'[s] \in {file[s], None}
    BY Zenon DEF vars
  <2>1. file \in [Names -> Content \cup {None}]
    BY DEF SessionInv, TypeOK
  <2>2. CASE (Save \/ UNCHANGED file) /\ SessionList \subseteq SessionList'
    <3>1. s # m_file.fileName
      BY <2>2, SessionAssumption DEF ListedInv, NameIsFile
    <3> QED
      BY <2>1, <2>2, <3>1 DEF Save
  <2>3. CASE \E d \in Names : DeleteSession(d)
    BY <2>1, <2>3 DEF DeleteSession
  <2>4. ASSUME NEW o \in Names, NEW t \in Names, CloneSession(o, t)
        PROVE  file'[s] = file[s]
    <3>1. s # t
      BY <2>4 DEF CloneSession, SessionList
    <3>2. file' = IF file[o] = None THEN file ELSE [file EXCEPT ![t] = file[o]]
      BY <2>4, Zenon DEF CloneSession
    <3> QED
      BY <2>1, <3>1, <3>2
  <2> QED
    BY <2>2, <2>3, <2>4, NextListed
<1> QED
  BY <1>1, <1>2, <1>3, InitInv, NextInv, PTL DEF Spec, DeletedStaysDeleted

-----------------------------------------------------------------------------
(* Going over to another session. *)

LEMMA InMemoryContent ==
    ASSUME SessionInv
    PROVE  Saved \in Content /\ Saved # None /\ Saved = InMemory
<1>1. /\ m_file.projects \in SUBSET Files
      /\ m_file.startupProject \in Files \cup {None}
      /\ m_file.depMap \in Dependencies
      /\ openedEditors \in BOOLEAN
  BY DEF SessionInv, TypeOK, SessionFile
<1>2. Saved \in Content
  BY <1>1, Zenon DEF Saved, Content
<1> QED
  BY <1>2, NoneAssumption DEF Saved, InMemory

(* What was saved of a session is all there when it is loaded. *)
LEMMA LoadedExactly ==
    ASSUME "open" \notin Failures, NEW name \in Names, NEW saved, GoodContent(saved),
           NEW g \in Loaded(name, saved)
    PROVE  /\ g.projects = saved.projects
           /\ g.startupProject = saved.startupProject
           /\ g.depMap = saved.depMap
<1> USE SessionAssumption
<1> DEFINE Taken(f) == [f EXCEPT !.depMap = saved.depMap,
                                 !.startupProject =
                                     IF saved.startupProject \in f.projects
                                     THEN saved.startupProject ELSE @]
<1>1. g \in {Taken(f) : f \in AddProjects(NewFile(name), saved.projects)}
  <2>1. PICK S \in {{Taken(f) : f \in AddProjects(NewFile(name), opened)}
                       : opened \in {s \in SUBSET saved.projects :
                             "open" \in Failures \/ s = saved.projects}} :
            g \in S
    BY Zenon DEF Loaded
  <2> QED
    BY <2>1, Zenon
<1>2. PICK f \in AddProjects(NewFile(name), saved.projects) : g = Taken(f)
  BY <1>1, Zenon
<1>3. /\ saved.projects \subseteq Files
      /\ saved.startupProject \in saved.projects \cup {None}
      /\ saved.projects \cap Applications # {} => saved.startupProject # None
      /\ None \notin Files
  BY DEF GoodContent, Content, StartupOpen
<1> DEFINE h == [NewFile(name) EXCEPT !.projects = @ \cup saved.projects]
<1>4. f \in WithStartupProject(h)
  BY <1>2 DEF AddProjects
<1>5. /\ NewFile(name) \in SessionFile /\ NewFile(name).projects = {}
      /\ NewFile(name).startupProject = None
  BY NewFileGood DEF GoodFile, NewFile
<1>6. h \in SessionFile /\ h.projects = saved.projects /\ h.startupProject = None
  BY <1>3, <1>5 DEF SessionFile
<1> HIDE DEF h
<1>7. PICK p \in DefaultStartupProject(saved.projects) : f = [h EXCEPT !.startupProject = p]
  BY <1>4, <1>6 DEF WithStartupProject
<1>8. p \in Files \cup {None} /\ (saved.startupProject = None => p = None)
  BY <1>3, <1>7 DEF DefaultStartupProject
<1>9. f \in SessionFile /\ f.projects = saved.projects /\ f.startupProject = p
  BY <1>6, <1>7, <1>8 DEF SessionFile
<1>10. /\ g.projects = f.projects /\ g.depMap = saved.depMap
       /\ g.startupProject = IF saved.startupProject \in f.projects
                             THEN saved.startupProject ELSE f.startupProject
  BY <1>2, <1>9 DEF SessionFile
<1> QED
  BY <1>3, <1>8, <1>9, <1>10

(* Where the contents of the sessions are, after a switch from old. *)
LEMMA ContentsKept ==
    ASSUME SessionInv, NameIsFile, NEW name \in Names, m_file'.fileName = name,
           m_file.fileName # name, InMemory' = ContentOf(name),
           \/ Leave
           \/ UNCHANGED file /\ m_file.fileName = Default,
           NEW s \in Names, s # Default
    PROVE  ContentOf(s)' = ContentOf(s)
<1>1. file \in [Names -> Content \cup {None}]
  BY DEF SessionInv, TypeOK
<1>2. CASE s = name
  BY <1>2 DEF ContentOf
<1>3. CASE s # name /\ s = m_file.fileName
  <2>1. file'[s] = Saved
    <3>1. s # None
      BY SessionAssumption
    <3> QED
      BY <1>1, <1>3, <3>1 DEF Leave, Save
  <2> QED
    BY <1>3, <2>1, InMemoryContent DEF ContentOf
<1>4. CASE s # name /\ s # m_file.fileName
  <2>1. file'[s] = file[s]
    BY <1>1, <1>4 DEF Leave, Save
  <2> QED
    BY <1>4, <2>1 DEF ContentOf, Empty
<1> QED
  BY <1>2, <1>3, <1>4

LEMMA GoesKeepsContents ==
    ASSUME SessionInv, NameInv, "read" \notin Failures, "open" \notin Failures, running,
           NEW name \in Names, Goes(name), m_file.fileName # name,
           NEW s \in Names, s # Default
    PROVE  ContentOf(s)' = ContentOf(s)
<1>1. NameIsFile /\ m_file'.fileName = name
  BY DEF NameInv, Goes
<1>2. CASE CreateImpl(name) /\ file[name] = None
  <2>1. InMemory' = Empty
    BY <1>2 DEF CreateImpl, InMemory, Empty, NewFile
  <2>2. ContentOf(name) = Empty
    BY <1>2 DEF ContentOf
  <2> QED
    BY <1>1, <1>2, <2>1, <2>2, ContentsKept DEF CreateImpl
<1>3. CASE LoadImpl(name) /\ file[name] # None
  <2>1. /\ m_file' \in Loaded(name, file'[name])
        /\ openedEditors' = file'[name].editors
        /\ Leave \/ (UNCHANGED file /\ m_file.fileName = Default)
    BY <1>1, <1>3 DEF LoadImpl, IsDefaultVirgin, NameIsFile
  <2>2. file'[name] = file[name]
    BY <2>1 DEF Leave, Save, SessionInv, TypeOK
  <2>3. GoodContent(file[name])
    BY <1>3 DEF SessionInv
  <2>4. InMemory' = file[name]
    <3> DEFINE c == file[name]
    <3>1. /\ m_file'.projects = c.projects /\ m_file'.startupProject = c.startupProject
          /\ m_file'.depMap = c.depMap /\ openedEditors' = c.editors
      BY <2>1, <2>2, <2>3, LoadedExactly
    <3>2. c \in Content
      BY <2>3 DEF GoodContent
    <3>3. c = [projects |-> c.projects, startupProject |-> c.startupProject,
               depMap |-> c.depMap, editors |-> c.editors]
      BY <3>2, Zenon DEF Content
    <3> QED
      BY <3>1, <3>3 DEF InMemory
  <2>5. ContentOf(name) = file[name]
    BY <1>3 DEF ContentOf
  <2> QED
    BY <1>1, <2>1, <2>4, <2>5, ContentsKept
<1> QED
  BY <1>2, <1>3 DEF Goes

LEMMA NextKeepsContents ==
    ASSUME "read" \notin Failures, "open" \notin Failures
    PROVE  SessionInv /\ NameInv /\ [Next]_vars =>
               [running /\ running' /\ m_file'.fileName # m_file.fileName =>
                   \A s \in Names \ {Default} : ContentOf(s)' = ContentOf(s)]_vars
<1> SUFFICES ASSUME SessionInv, NameInv, Next, running, running',
                    m_file'.fileName # m_file.fileName, NEW s \in Names \ {Default}
             PROVE  ContentOf(s)' = ContentOf(s)
  BY Zenon DEF vars
<1>1. ASSUME NEW name \in Names, LoadSession(name) PROVE ContentOf(s)' = ContentOf(s)
  BY <1>1, LoadSessionGoes, GoesKeepsContents DEF Stays, Goes
<1>2. CASE \/ \E p \in Files : OpenProject(p) \/ UnloadProject(p) \/ SetStartupProject(p)
           \/ \E p, d \in Files : AddDependency(p, d) \/ RemoveDependency(p, d)
           \/ OpenOrCloseEditors
           \/ \E outcome \in Outcome : ClearSession(outcome)
  BY <1>2, ProjectStepStays DEF Stays
<1>3. CASE (\E n \in Names : SetSession(n)) \/ CloseDialog
  BY <1>1, <1>3 DEF SetSession, CloseDialog
<1>4. CASE RestoreSession \/ Exit
  BY <1>4 DEF RestoreSession, Exit
<1>5. CASE \/ ShowSessionManager \/ \E n \in Names : CreateSession(n) \/ DeleteSession(n)
           \/ \E n, t \in Names : CloneSession(n, t)
  BY <1>5 DEF ShowSessionManager, CreateSession, DeleteSession, CloneSession
<1> QED
  BY <1>2, <1>3, <1>4, <1>5 DEF Next

(* When session files can be read and their projects opened, going over    *)
(* to another session loses nothing of any session: what the session left  *)
(* had in memory is in its file, and what the file of the other had is in  *)
(* memory.                                                                 *)
THEOREM SwitchKeeps ==
    ASSUME "read" \notin Failures, "open" \notin Failures
    PROVE  Spec => SwitchKeepsContents
<1>1. Init => NameInv
  BY NewFileGood DEF Init, NameInv, NameIsFile
<1>2. SessionInv /\ NameInv /\ [Next]_vars => NameInv'
  BY NextName
<1>3. SessionInv /\ NameInv /\ [Next]_vars =>
          [running /\ running' /\ m_file'.fileName # m_file.fileName =>
              \A s \in Names \ {Default} : ContentOf(s)' = ContentOf(s)]_vars
  BY NextKeepsContents
<1> QED
  BY <1>1, <1>2, <1>3, InitInv, NextInv, PTL DEF Spec, SwitchKeepsContents

-----------------------------------------------------------------------------
(* dependenciesOrder(). *)

(* Dependencies are on open projects only. *)
Closed(f) == \A p \in Files : f.depMap[p] \subseteq f.projects

(* Where dependencies are without circles and on open projects only, every *)
(* round puts one of the projects that are left in order: so there are no  *)
(* more rounds than projects.                                              *)
LEMMA OrderReturns ==
    ASSUME NEW f \in SessionFile, Acyclic(f.depMap), Closed(f)
    PROVE  Unordered(f)[Cardinality(f.projects)] = {}
<1> DEFINE N == Cardinality(f.projects)
           S == SUBSET f.projects
           Waiting(x) == {p \in x : f.depMap[p] \ (f.projects \ x) # {}}
           F == [n \in Nat |-> [x \in S |-> Waiting(x)]]
           IsLeft(g) ==
               g = [n \in 0..N |-> IF n = 0 THEN f.projects ELSE Waiting(g[n - 1])]
           left[n \in 0..N] ==
               IF n = 0 THEN f.projects
               ELSE {p \in left[n - 1] : f.depMap[p] \ (f.projects \ left[n - 1]) # {}}
<1>1. /\ IsFiniteSet(f.projects) /\ N \in Nat /\ f.projects \in S
      /\ f.projects \subseteq Files /\ f.depMap \in Dependencies
  BY FilesAssumption, FS_Subset, FS_CardinalityType DEF SessionFile
<1>2. Unordered(f) = left
  BY Zenon DEF Unordered
<1>3. ASSUME NEW x \in S
      PROVE  /\ Waiting(x) \in S
             /\ IsFiniteSet(x) /\ Cardinality(x) \in Nat /\ Cardinality(Waiting(x)) \in Nat
             /\ x # {} => Cardinality(Waiting(x)) < Cardinality(x)
  <2> DEFINE w == Waiting(x)
  <2>1. w \in SUBSET x /\ w \in S
    OBVIOUS
  <2>2. x # {} => w # x
    <3> SUFFICES ASSUME x # {} PROVE w # x
      OBVIOUS
    <3>1. x \in SUBSET Files
      BY <1>1
    <3>2. PICK p \in x : f.depMap[p] \cap x = {}
      BY <3>1 DEF Acyclic
    <3>3. f.depMap[p] \subseteq f.projects
      BY <3>1, <3>2 DEF Closed
    <3>4. p \notin w
      BY <3>2, <3>3
    <3> QED
      BY <3>2, <3>4
  <2> HIDE DEF w
  <2>3. IsFiniteSet(x)
    BY <1>1, FS_Subset
  <2>4. /\ IsFiniteSet(w) /\ Cardinality(w) <= Cardinality(x)
        /\ Cardinality(x) = Cardinality(w) => x = w
    BY <2>1, <2>3, FS_Subset
  <2>5. Cardinality(x) \in Nat /\ Cardinality(w) \in Nat
    BY <2>3, <2>4, FS_CardinalityType
  <2>6. x # {} => Cardinality(w) < Cardinality(x)
    BY <2>2, <2>4, <2>5
  <2> QED
    BY <2>1, <2>3, <2>5, <2>6 DEF w
<1> HIDE DEF N, S
<1>4. \E g : IsLeft(g)
  <2>1. F \in [Nat -> [S -> S]]
    BY <1>3
  <2> HIDE DEF F
  <2>2. PICK g \in [0..N -> S] : Iterates(g, f.projects, F, N)
    BY <1>1, <2>1, Iteration
  <2>3. ASSUME NEW n \in 0..N
        PROVE  g[n] = IF n = 0 THEN f.projects ELSE Waiting(g[n - 1])
    <3>1. CASE n = 0
      BY <2>2, <3>1 DEF Iterates
    <3>2. CASE n # 0
      <4>1. n \in 1..N /\ n \in Nat /\ n - 1 \in 0..N
        BY <1>1, <3>2
      <4>2. g[n] = F[n][g[n - 1]] /\ g[n - 1] \in S
        BY <2>2, <4>1 DEF Iterates
      <4> QED
        BY <3>2, <4>1, <4>2 DEF F
    <3> QED
      BY <3>1, <3>2
  <2>4. g = [n \in 0..N |-> g[n]]
    BY <2>2
  <2> HIDE DEF Waiting
  <2>5. g = [n \in 0..N |-> IF n = 0 THEN f.projects ELSE Waiting(g[n - 1])]
    BY <2>3, <2>4
  <2> QED
    BY <2>5
<1>5. IsLeft(left)
  BY <1>4, Zenon
<1> HIDE DEF left, F
<1>6. /\ left[0] = f.projects
      /\ \A n \in 0..N : n # 0 => left[n] = Waiting(left[n - 1])
  <2> HIDE DEF Waiting
  <2>1. ASSUME NEW n \in 0..N
        PROVE  left[n] = IF n = 0 THEN f.projects ELSE Waiting(left[n - 1])
    BY <1>5
  <2>2. 0 \in 0..N
    BY <1>1
  <2> QED
    BY <2>1, <2>2
<1> HIDE <1>5
<1> HIDE DEF Waiting
<1> DEFINE P == {n \in Nat : /\ left[n] \in S
                             /\ left[n] = {} \/ Cardinality(left[n]) + n <= N}
<1>7. 0 \in P
  BY <1>1, <1>6 DEF N
<1>8. ASSUME NEW n \in Nat, n < N, n \in P PROVE n + 1 \in P
  <2> DEFINE x == left[n]
             y == left[n + 1]
  <2>1. y = Waiting(x)
    <3>1. n + 1 \in 0..N /\ n + 1 # 0 /\ (n + 1) - 1 = n
      BY <1>1, <1>8
    <3> QED
      BY <1>6, <3>1
  <2>2. x \in S /\ (x = {} \/ Cardinality(x) + n <= N)
    BY <1>8
  <2> HIDE DEF x, y
  <2>3. y \in S /\ Cardinality(x) \in Nat /\ Cardinality(y) \in Nat
        /\ (x # {} => Cardinality(y) < Cardinality(x))
    BY <1>3, <2>1, <2>2
  <2>4. x = {} => y = {}
    BY <2>1 DEF Waiting
  <2>5. y = {} \/ Cardinality(y) + (n + 1) <= N
    BY <1>1, <2>2, <2>3, <2>4
  <2> QED
    BY <2>3, <2>5 DEF y
<1> HIDE DEF P
<1>9. 0..N \subseteq P
  BY <1>1, <1>7, <1>8, UpTo
<1>10. N \in P
  BY <1>1, <1>9
<1>11. left[N] = {}
  <2> DEFINE x == left[N]
  <2>1. x \in S /\ (x = {} \/ Cardinality(x) + N <= N)
    BY <1>10 DEF P
  <2> HIDE DEF x
  <2>2. IsFiniteSet(x) /\ Cardinality(x) \in Nat
    BY <1>3, <2>1
  <2>3. Cardinality(x) = 0 => x = {}
    BY <2>2, FS_EmptySet
  <2>4. x = {}
    BY <1>1, <2>1, <2>2, <2>3
  <2> QED
    BY <2>4 DEF x
<1> QED
  BY <1>2, <1>11 DEF N

ClosedFiles(files) == \A s \in Names : files[s] # None => Closed(files[s])
ClosedInv == Closed(m_file) /\ ClosedFiles(file)

LEMMA NewFileClosed == \A name : Closed(NewFile(name))
BY DEF Closed, NewFile

LEMMA SaveClosed ==
    ASSUME SessionInv, ClosedInv, Save \/ UNCHANGED file
    PROVE  ClosedFiles(file')
<1>1. Closed(Saved)
  BY DEF ClosedInv, Closed, Saved
<1>2. file \in [Names -> Content \cup {None}]
  BY DEF SessionInv, TypeOK
<1>3. ASSUME NEW s \in Names, file'[s] # None PROVE Closed(file'[s])
  BY <1>1, <1>2, <1>3 DEF Save, ClosedInv, ClosedFiles
<1> QED
  BY <1>3 DEF ClosedFiles

(* "Refresh dependencies" *)
LEMMA RemoveProjectsClosed ==
    ASSUME NEW f \in SessionFile, Acyclic(f.depMap),
           f.startupProject \in f.projects \cup {None},
           NEW remove \in SUBSET Files, NEW g \in RemoveProjects(f, remove)
    PROVE  Closed(g)
<1>1. g.projects = f.projects \ remove /\ g.depMap = RefreshedDependencies(f, g.projects)
  BY RemoveProjectsGood
<1>2. g.projects \subseteq Files
  BY <1>1 DEF SessionFile
<1> QED
  BY <1>1, <1>2 DEF Closed, RefreshedDependencies

LEMMA ClearClosed ==
    ASSUME SessionInv, ClosedInv, NEW outcome, Clear(outcome)
    PROVE  Closed(m_file')
<1>1. m_file \in SessionFile /\ Acyclic(m_file.depMap)
  BY DEF SessionInv, GoodFile
<1>2. CASE m_file' = m_file
  BY <1>2 DEF ClosedInv
<1>3. CASE m_file' \in RemoveProjects([m_file EXCEPT !.startupProject = None], m_file.projects)
  <2> DEFINE h == [m_file EXCEPT !.startupProject = None]
  <2>1. /\ h \in SessionFile /\ h.depMap = m_file.depMap
        /\ h.startupProject = None /\ m_file.projects \in SUBSET Files
    BY <1>1 DEF SessionFile
  <2>2. m_file' \in RemoveProjects(h, m_file.projects)
    BY <1>3
  <2> HIDE DEF h
  <2>3. Acyclic(h.depMap) /\ h.startupProject \in h.projects \cup {None}
    BY <1>1, <2>1
  <2> QED
    BY <2>1, <2>2, <2>3, RemoveProjectsClosed
<1> QED
  BY <1>2, <1>3 DEF Clear

LEMMA LoadSessionClosed ==
    ASSUME "open" \notin Failures, SessionInv, ClosedInv,
           NEW session \in Names, LoadSession(session)
    PROVE  ClosedInv'
<1>1. CASE LeaveFails
  <2>1. Save \/ UNCHANGED file
    BY <1>1 DEF LeaveFails, SaveFails
  <2>2. Closed(m_file')
    BY <1>1, ClearClosed DEF LeaveFails, SaveFails, ClosedInv
  <2> QED
    BY <2>1, <2>2, SaveClosed DEF ClosedInv
<1>2. CASE CreateImpl(session)
  <2>1. Save \/ UNCHANGED file
    BY <1>2 DEF CreateImpl, Leave
  <2>2. Closed(m_file')
    BY <1>2, NewFileClosed DEF CreateImpl
  <2> QED
    BY <2>1, <2>2, SaveClosed DEF ClosedInv
<1>3. CASE file[session] # None /\ LoadImpl(session)
  <2>1. Save \/ UNCHANGED file
    BY <1>3 DEF LoadImpl, Leave
  <2>2. ClosedFiles(file')
    BY <2>1, SaveClosed
  <2>3. FilesGood(file') /\ file'[session] # None
    BY <1>3, <2>1, SaveGood, InvParts
  <2>4. CASE m_file' \in Loaded(session, file'[session])
    <3>1. GoodContent(file'[session]) /\ Closed(file'[session])
      BY <2>2, <2>3 DEF FilesGood, ClosedFiles
    <3>2. /\ m_file'.projects = file'[session].projects
          /\ m_file'.depMap = file'[session].depMap
      BY <2>4, <3>1, LoadedExactly
    <3> QED
      BY <2>2, <3>1, <3>2 DEF ClosedInv, Closed
  <2>5. CASE m_file' = NewFile(session)
    BY <2>2, <2>5, NewFileClosed DEF ClosedInv
  <2> QED
    BY <1>3, <2>4, <2>5 DEF LoadImpl
<1> QED
  BY <1>1, <1>2, <1>3 DEF LoadSession

LEMMA NextClosed ==
    ASSUME "open" \notin Failures
    PROVE  SessionInv /\ ClosedInv /\ [Next]_vars => ClosedInv'
<1> SUFFICES ASSUME SessionInv, ClosedInv, [Next]_vars PROVE ClosedInv'
  OBVIOUS
<1>0. /\ m_file \in SessionFile /\ GoodFile(m_file) /\ Acyclic(m_file.depMap)
      /\ m_file.startupProject \in m_file.projects \cup {None}
      /\ m_file.depMap \in Dependencies
      /\ Closed(m_file) /\ ClosedFiles(file)
  BY DEF SessionInv, GoodFile, StartupOpen, SessionFile, ClosedInv
<1>1. ASSUME UNCHANGED file, Closed(m_file') PROVE ClosedInv'
  BY <1>0, <1>1 DEF ClosedInv
<1>2. ASSUME UNCHANGED m_file, ClosedFiles(file') PROVE ClosedInv'
  BY <1>0, <1>2 DEF ClosedInv
<1>3. ASSUME NEW p \in Files, OpenProject(p) PROVE ClosedInv'
  <2>1. m_file' \in AddProjects(m_file, {p}) /\ UNCHANGED file
    BY <1>3 DEF OpenProject
  <2>2. m_file'.projects = m_file.projects \cup {p} /\ m_file'.depMap = m_file.depMap
    BY <1>0, <2>1, AddProjectsGood
  <2>3. Closed(m_file')
    BY <1>0, <2>2 DEF Closed
  <2> QED
    BY <1>1, <2>1, <2>3
<1>4. ASSUME NEW p \in Files, UnloadProject(p) PROVE ClosedInv'
  <2>1. m_file' \in RemoveProjects(m_file, {p}) /\ UNCHANGED file
    BY <1>4 DEF UnloadProject
  <2>2. Closed(m_file')
    BY <1>0, <2>1, RemoveProjectsClosed
  <2> QED
    BY <1>1, <2>1, <2>2
<1>5. ASSUME NEW p \in Files, SetStartupProject(p) PROVE ClosedInv'
  <2>1. /\ UNCHANGED file
        /\ m_file'.projects = m_file.projects
        /\ m_file'.depMap = m_file.depMap
    BY <1>0, <1>5 DEF SetStartupProject, SessionFile
  <2>2. Closed(m_file')
    BY <1>0, <2>1 DEF Closed
  <2> QED
    BY <1>1, <2>1, <2>2
<1>6. ASSUME NEW p \in Files, NEW d \in Files, AddDependency(p, d) PROVE ClosedInv'
  <2> DEFINE e == [m_file.depMap EXCEPT ![p] = @ \cup {d}]
  <2>1. m_file' = [m_file EXCEPT !.depMap = e] /\ UNCHANGED file /\ d \in m_file.projects
    BY <1>6 DEF AddDependency
  <2>2. \A q \in Files : e[q] \subseteq m_file.depMap[q] \cup {d}
    BY <1>0 DEF Dependencies
  <2> HIDE DEF e
  <2>3. m_file'.projects = m_file.projects /\ m_file'.depMap = e
    BY <1>0, <2>1 DEF SessionFile
  <2>4. Closed(m_file')
    BY <1>0, <2>1, <2>2, <2>3 DEF Closed
  <2> QED
    BY <1>1, <2>1, <2>4
<1>7. ASSUME NEW p \in Files, NEW d \in Files, RemoveDependency(p, d) PROVE ClosedInv'
  <2> DEFINE e == [m_file.depMap EXCEPT ![p] = @ \ {d}]
  <2>1. m_file' = [m_file EXCEPT !.depMap = e] /\ UNCHANGED file
    BY <1>7 DEF RemoveDependency
  <2>2. \A q \in Files : e[q] \subseteq m_file.depMap[q]
    BY <1>0 DEF Dependencies
  <2> HIDE DEF e
  <2>3. m_file'.projects = m_file.projects /\ m_file'.depMap = e
    BY <1>0, <2>1 DEF SessionFile
  <2>4. Closed(m_file')
    BY <1>0, <2>2, <2>3 DEF Closed
  <2> QED
    BY <1>1, <2>1, <2>4
<1>8. CASE OpenOrCloseEditors
  BY <1>0, <1>2, <1>8 DEF OpenOrCloseEditors
<1>9. ASSUME NEW outcome, ClearSession(outcome) PROVE ClosedInv'
  <2>1. Clear(outcome) /\ UNCHANGED file
    BY <1>9 DEF ClearSession
  <2> QED
    BY <1>1, <2>1, ClearClosed
<1>10. CASE \E s \in Names : SetSession(s)
  BY <1>10, LoadSessionClosed DEF SetSession
<1>11. CASE RestoreSession
  <2>1. CASE \E s \in Names : LoadSession(s)
    BY <2>1, LoadSessionClosed
  <2>2. CASE CreateImpl(Default)
    <3>1. Save \/ UNCHANGED file
      BY <2>2 DEF CreateImpl, Leave
    <3>2. Closed(m_file')
      BY <2>2, NewFileClosed DEF CreateImpl
    <3> QED
      BY <3>1, <3>2, SaveClosed DEF ClosedInv
  <2> QED
    BY <1>11, <2>1, <2>2 DEF RestoreSession
<1>12. ASSUME SaveUnlessVirgin PROVE ClosedFiles(file')
  BY <1>12, SaveClosed DEF SaveUnlessVirgin, SaveFails
<1>13. CASE Exit
  BY <1>12, <1>13, NewFileClosed DEF Exit, ClosedInv
<1>14. CASE ShowSessionManager
  BY <1>2, <1>12, <1>14 DEF ShowSessionManager
<1>15. CASE CloseDialog
  <2>1. CASE \E s \in Names : LoadSession(s)
    BY <2>1, LoadSessionClosed
  <2>2. CASE UNCHANGED <<m_file, m_sessionName, openedEditors, file>>
    BY <1>0, <1>2, <2>2
  <2> QED
    BY <1>15, <2>1, <2>2 DEF CloseDialog
<1>16. ASSUME NEW s \in Names, CreateSession(s) PROVE ClosedInv'
  BY <1>0, <1>2, <1>16 DEF CreateSession
<1>17. file \in [Names -> Content \cup {None}]
  BY DEF SessionInv, TypeOK
<1>18. ASSUME NEW s \in Names, DeleteSession(s) PROVE ClosedInv'
  <2>1. UNCHANGED m_file /\ (file' = [file EXCEPT ![s] = None] \/ file' = file)
    BY <1>18 DEF DeleteSession
  <2>2. ClosedFiles(file')
    BY <1>0, <1>17, <2>1 DEF ClosedFiles
  <2> QED
    BY <1>2, <2>1, <2>2
<1>19. ASSUME NEW s \in Names, NEW t \in Names, CloneSession(s, t) PROVE ClosedInv'
  <2>1. /\ UNCHANGED m_file
        /\ file' = IF file[s] = None THEN file ELSE [file EXCEPT ![t] = file[s]]
    BY <1>19, Zenon DEF CloneSession
  <2>2. ASSUME NEW x \in Names
        PROVE  \/ file'[x] = file[x]
               \/ file[s] # None /\ file'[x] = file[s]
    BY <1>17, <2>1
  <2>3. ClosedFiles(file')
    BY <1>0, <2>2 DEF ClosedFiles
  <2> QED
    BY <1>2, <2>1, <2>3
<1>20. CASE UNCHANGED vars
  BY <1>0, <1>2, <1>20 DEF vars
<1> QED
  BY <1>3, <1>4, <1>5, <1>6, <1>7, <1>8, <1>9, <1>10, <1>11, <1>13, <1>14, <1>15,
     <1>16, <1>18, <1>19, <1>20 DEF Next

(* Where every project of a session can be opened, "Build All" gets out of *)
(* the loop of dependenciesOrder(), after any sequence of edits, unloads,  *)
(* saves and loads: no project waits for one that is not open.             *)
THEOREM OrderFound ==
    ASSUME "open" \notin Failures
    PROVE  Spec => []DependenciesOrderReturns
<1>1. Init => ClosedInv
  BY NewFileClosed, SessionAssumption DEF Init, ClosedInv, ClosedFiles
<1>2. SessionInv /\ ClosedInv => DependenciesOrderReturns
  <2> SUFFICES ASSUME SessionInv, ClosedInv PROVE DependenciesOrderReturns
    OBVIOUS
  <2>1. m_file \in SessionFile /\ Acyclic(m_file.depMap) /\ Closed(m_file)
    BY DEF SessionInv, GoodFile, ClosedInv
  <2> QED
    BY <2>1, OrderReturns DEF DependenciesOrderReturns
<1>3. SessionInv /\ ClosedInv /\ [Next]_vars => ClosedInv'
  BY NextClosed
<1> QED
  BY <1>1, <1>2, <1>3, InitInv, NextInv, PTL DEF Spec

=============================================================================
