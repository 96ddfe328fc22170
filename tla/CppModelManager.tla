--------------------------- MODULE CppModelManager ---------------------------
(***************************************************************************)
(* CppTools::Internal::CppModelManager: the documents of the C++ code      *)
(* model, which threads of the pool make from what is in the editors and   *)
(* on disk, and which arrive in the GUI thread some time later.            *)
(*                                                                         *)
(* A document is here the version of the text that was parsed, and         *)
(* Includes says which files a text includes if it is not empty.  Macros,  *)
(* include paths and the parser itself are left out.                       *)
(***************************************************************************)
EXTENDS Integers, Sequences, SequencesExt, FiniteSets, Functions

CONSTANTS
    Files,
    Projects,
    FileLists,      \* what the source files of a project may be
    Includes,       \* for each file, the files that its text includes
    Generated,      \* files that the build writes and the project watches
    Missable,       \* bound: the files that may not be there at first
    MaxIndexing,    \* bound: the tasks at a time that no editor has asked for
    MaxVersion,     \* bound: the versions of all texts
    MaxSupports,    \* bound: the times that an editor is opened
    MaxPosted       \* bound: the events that are posted at a time

ASSUME CppModelAssumption ==
    /\ IsFiniteSet(Files) /\ FileLists \subseteq Seq(Files)
    /\ Includes \in [Files -> Seq(Files)] /\ Generated \subseteq Files
    /\ {MaxIndexing, MaxSupports, MaxPosted} \subseteq Nat
    /\ MaxVersion \in Nat \ {0}

VARIABLES
    disk,           \* the version of the text of each file on disk
    clock,          \* the last version that was written
    empty,          \* the versions that are an empty text
    editors,        \* for the file of each C++ editor its CppEditorSupport
    supports,       \* the number of those that were made
    projects,       \* m_projects: the source files of each project
    dirty,          \* m_dirty
    projectFiles,   \* m_projectFiles
    snapshot,       \* m_snapshot: the document of each file
    searchList,     \* CppQuickOpenFilter::m_searchList
    tasks,          \* parse() in the threads of the pool
    queue           \* documentUpdated(doc), posted to the GUI thread

texts == <<disk, clock, empty>>
model == <<projects, dirty, projectFiles, snapshot, searchList>>
vars == <<texts, editors, supports, model, tasks, queue>>

Missing == 0        \* the version of a file that is not there, or not readable
None == 0           \* the support of a task that no editor has asked for
Document == [file : Files, version : Nat, support : Nat]

Init ==
    /\ disk \in [Files -> {Missing, 1}] /\ clock = 1 /\ empty = {}
    /\ \A f \in Files \ Missable : disk[f] = 1
    /\ editors = <<>> /\ supports = None
    /\ projects = <<>> /\ dirty = TRUE /\ projectFiles = {}
    /\ snapshot = <<>> /\ searchList = <<>>
    /\ tasks = <<>> /\ queue = <<>>

Enter(f, x, value) == [y \in DOMAIN f \cup {x} |-> IF y = x THEN value ELSE f[y]]
Without(f, xs) == Restrict(f, DOMAIN f \ xs)

-----------------------------------------------------------------------------
(* The tasks.                                                              *)

InternalProjectFiles(ps) == UNION {ToSet(ps[p]) : p \in DOMAIN ps}

(* Faulty variant: a list that is not empty is kept.                       *)
LazyEnsureUpdated(ps, isDirty) ==
    /\ dirty' = FALSE
    /\ projectFiles' = IF projectFiles = {} THEN InternalProjectFiles(ps) ELSE projectFiles

(* ensureUpdated(), with which projectFiles() begins.                      *)
EnsureUpdated(ps, isDirty) ==
    /\ dirty' = FALSE
    /\ projectFiles' = IF isDirty THEN InternalProjectFiles(ps) ELSE projectFiles

(* buildWorkingCopyList()                                                  *)
WorkingCopy == [f \in DOMAIN editors |-> editors[f].version]

(* refreshSourceFiles(): a task for the files, with the texts of the       *)
(* editors and the documents of this moment.                               *)
RefreshSourceFiles(files, support, ps, isDirty) ==
    LET id == CHOOSE n \in 1..Cardinality(DOMAIN tasks) + 1 : n \notin DOMAIN tasks
    IN  /\ EnsureUpdated(ps, isDirty)
        /\ tasks' = Enter(tasks, id,
              [todo     |-> files,
               indexing |-> Len(files) > 1,         \* told to the ProgressManager
               canceled |-> FALSE,
               support  |-> support,
               copy     |-> WorkingCopy,            \* m_workingCopy
               cached   |-> DOMAIN snapshot,        \* m_snapshot of the preprocessor
               included |-> {},                     \* m_included
               found    |-> <<>>])                  \* documents not told of yet

(* sourceNeeded(): a text is read once in a task.  One that is empty, or   *)
(* that is included and has a document already, is not parsed.  The files  *)
(* that are parsed come after those they include.  No text is read within  *)
(* itself, so depth is never 0 for one that is still to be read.           *)
Reading == [included : SUBSET Files, parsed : Seq(Files)]

IncludedBy(f, read, reading) ==
    LET after[i \in 0..Len(Includes[f])] ==
            IF i = 0 THEN reading ELSE read[after[i - 1]][Includes[f][i]]
    IN  after[Len(Includes[f])]

SourceNeeded(f, text, cached, included) ==
    LET read[depth \in 0..Cardinality(Files)] == [reading \in Reading |-> [g \in Files |->
            IF depth = 0 \/ g \in reading.included \/ text[g] = Missing THEN reading
            ELSE LET begun == [included |-> reading.included \cup {g}, parsed |-> reading.parsed]
                     ended == IncludedBy(g, read[depth - 1], begun)
                 IN  IF text[g] \in empty \/ (g # f /\ g \in cached) THEN begun
                     ELSE [included |-> ended.included, parsed |-> Append(ended.parsed, g)]]]
    IN  read[Cardinality(Files)][[included |-> included, parsed |-> <<>>]][f]

(* One round of the loop of parse().  The texts and the documents that the *)
(* preprocessor was given are not used after the last.                     *)
Parsed(t) ==
    LET f == Head(t.todo)
        text(g) == IF g \in DOMAIN t.copy THEN t.copy[g] ELSE disk[g]
        reading == SourceNeeded(f, [g \in Files |-> text(g)], t.cached, t.included)
        last == Tail(t.todo) = <<>>
    IN  [t EXCEPT !.todo = Tail(@),
                  !.copy = IF last THEN <<>> ELSE @,
                  !.cached = IF last THEN {} ELSE @,
                  !.included = IF last THEN {} ELSE reading.included,
                  !.found = [i \in 1..Len(reading.parsed) |->
                      LET g == reading.parsed[i]
                      IN  [file |-> g, version |-> text(g), support |-> t.support]]]

ParseFile(n) ==
    /\ tasks[n].found = <<>> /\ tasks[n].todo # <<>> /\ ~tasks[n].canceled
    /\ tasks' = [tasks EXCEPT ![n] = Parsed(@)]
    /\ UNCHANGED <<texts, editors, supports, model, queue>>

(* emitDocumentUpdated(): one event for the manager, one for the filter.   *)
Tell(n) ==
    /\ tasks[n].found # <<>> /\ Len(queue) < MaxPosted
    /\ LET doc == Head(tasks[n].found)
       IN  queue' = queue \o <<[to |-> "manager", doc |-> doc],
                               [to |-> "filter", doc |-> doc]>>
    /\ tasks' = [tasks EXCEPT ![n].found = Tail(@)]
    /\ UNCHANGED <<texts, editors, supports, model>>

(* reportFinished()                                                        *)
Finish(n) ==
    /\ tasks[n].found = <<>> /\ (tasks[n].todo = <<>> \/ tasks[n].canceled)
    /\ tasks' = Without(tasks, {n})
    /\ UNCHANGED <<texts, editors, supports, model, queue>>

(* onDocumentUpdated() of the manager and of the filter.                   *)
OnDocumentUpdated ==
    /\ queue # <<>>
    /\ LET doc == Head(queue).doc
       IN  CASE Head(queue).to = "manager" ->
                  /\ snapshot' = Enter(snapshot, doc.file, doc)
                  /\ UNCHANGED searchList
             [] Head(queue).to = "filter" ->
                  /\ searchList' = Enter(searchList, doc.file, doc)
                  /\ UNCHANGED snapshot
    /\ queue' = Tail(queue)
    /\ UNCHANGED <<texts, editors, supports, projects, dirty, projectFiles, tasks>>

-----------------------------------------------------------------------------
(* The projects.                                                           *)

(* The files that are reached from some through the documents.             *)
Reached(from, documents) ==
    LET step(s) == s \cup UNION {ToSet(Includes[f]) : f \in s \cap DOMAIN documents}
        after[n \in 0..Cardinality(Files)] == IF n = 0 THEN from ELSE step(after[n - 1])
    IN  after[Cardinality(Files)]

(* Faulty variant: the filter loses all files that no project lists.       *)
GCListed(ps) ==
    /\ EnsureUpdated(ps, TRUE)
    /\ searchList' = Restrict(searchList, DOMAIN searchList \cap projectFiles')
    /\ snapshot' = Without(snapshot, DOMAIN snapshot \ Reached(projectFiles', snapshot))

(* GC(), after projects became ps and the model dirty.  The filter is told *)
(* before the documents go, by a direct call.                              *)
GC(ps) ==
    /\ EnsureUpdated(ps, TRUE)
    /\ LET removed == DOMAIN snapshot \ Reached(projectFiles', snapshot)
       IN  /\ searchList' = Without(searchList, removed)
           /\ snapshot' = Without(snapshot, removed)

(* onProjectAdded(), for a project that says nothing of its files yet.     *)
OnProjectAdded ==
    /\ DOMAIN projects # Projects
    /\ dirty' = TRUE
    /\ UNCHANGED <<texts, editors, supports, projects, projectFiles, snapshot,
                   searchList, tasks, queue>>

OnAboutToRemoveProject(p) ==
    /\ p \in DOMAIN projects
    /\ projects' = Without(projects, {p})
    /\ GC(projects')
    /\ UNCHANGED <<texts, editors, supports, tasks, queue>>

(* onSessionUnloaded(), after the projects were removed one by one.        *)
OnSessionUnloaded ==
    /\ projects = <<>>
    /\ tasks' = [n \in DOMAIN tasks |->
                    IF tasks[n].indexing THEN [tasks[n] EXCEPT !.canceled = TRUE]
                    ELSE tasks[n]]
    /\ GC(projects)
    /\ UNCHANGED <<texts, editors, supports, projects, queue>>

CanIndex == Cardinality({n \in DOMAIN tasks : tasks[n].support = None}) < MaxIndexing

(* Qt4Project::updateCodeModel(): updateProjectInfo(), and also            *)
(* updateSourceFiles() when the list of the files has changed, or the      *)
(* macros or the paths have.                                               *)
UpdateCodeModel(p, files) ==
    LET ps == Enter(projects, p, files)
    IN  /\ CanIndex
        /\ projects' = ps
        /\ \/ /\ files = <<>> \/ (p \in DOMAIN projects /\ projects[p] = files)
              /\ dirty' = TRUE /\ UNCHANGED <<projectFiles, tasks>>
           \/ /\ files # <<>>
              /\ RefreshSourceFiles(files, None, ps, TRUE)
        /\ UNCHANGED <<texts, editors, supports, snapshot, searchList, queue>>

(* A text is written that is new, and may be empty.                        *)
Written ==
    /\ clock < MaxVersion /\ clock' = clock + 1
    /\ empty' \in {empty, empty \cup {clock'}}

(* The build writes a file, and Qt4ProFileNode::fileChanged() hears of it. *)
FileChanged(f) ==
    /\ f \in InternalProjectFiles(projects) /\ CanIndex
    /\ Written /\ disk' = [disk EXCEPT ![f] = clock']
    /\ RefreshSourceFiles(<<f>>, None, projects, dirty)
    /\ UNCHANGED <<editors, supports, projects, snapshot, searchList, queue>>

-----------------------------------------------------------------------------
(* The editors.                                                            *)

EditorOpened(f) ==
    /\ f \notin DOMAIN editors /\ disk[f] # Missing /\ supports < MaxSupports
    /\ supports' = supports + 1
    /\ editors' = Enter(editors, f,
           [support |-> supports', version |-> disk[f], timer |-> TRUE])
    /\ UNCHANGED <<texts, model, tasks, queue>>

EditorAboutToClose(f) ==
    /\ editors' = Without(editors, {f})
    /\ UNCHANGED <<texts, supports, model, tasks, queue>>

(* The user types: contentsChanged(), CppEditorSupport::updateDocument().  *)
UpdateDocument(f) ==
    /\ Written
    /\ editors' = [editors EXCEPT ![f].version = clock', ![f].timer = TRUE]
    /\ UNCHANGED <<disk, supports, model, tasks, queue>>

Save(f) ==
    /\ disk' = [disk EXCEPT ![f] = editors[f].version]
    /\ UNCHANGED <<clock, empty, editors, supports, model, tasks, queue>>

IsRunning(f) == \E n \in DOMAIN tasks : tasks[n].support = editors[f].support

(* Faulty variant: it does not wait for the last task.                     *)
ImpatientUpdateDocumentNow(f) ==
    /\ editors[f].timer
    /\ editors' = [editors EXCEPT ![f].timer = FALSE]
    /\ RefreshSourceFiles(<<f>>, editors[f].support, projects, dirty)
    /\ UNCHANGED <<texts, supports, projects, snapshot, searchList, queue>>

(* Faulty variant: while the last task runs the timer is not started again. *)
ForgetfulUpdateDocumentNow(f) ==
    /\ editors[f].timer
    /\ editors' = [editors EXCEPT ![f].timer = FALSE]
    /\ IF IsRunning(f) THEN UNCHANGED <<dirty, projectFiles, tasks>>
       ELSE RefreshSourceFiles(<<f>>, editors[f].support, projects, dirty)
    /\ UNCHANGED <<texts, supports, projects, snapshot, searchList, queue>>

(* updateDocumentNow(), at the timer's end.  While the last task of the    *)
(* editor runs the timer is just started again.                            *)
UpdateDocumentNow(f) ==
    /\ editors[f].timer /\ ~IsRunning(f)
    /\ editors' = [editors EXCEPT ![f].timer = FALSE]
    /\ RefreshSourceFiles(<<f>>, editors[f].support, projects, dirty)
    /\ UNCHANGED <<texts, supports, projects, snapshot, searchList, queue>>

-----------------------------------------------------------------------------
Pool == \E n \in DOMAIN tasks : ParseFile(n) \/ Tell(n) \/ Finish(n)

ProjectManager ==
    \/ \E p \in Projects, files \in FileLists : UpdateCodeModel(p, files)
    \/ \E p \in Projects : OnAboutToRemoveProject(p)
    \/ \E f \in Generated : FileChanged(f)
    \/ OnProjectAdded
    \/ OnSessionUnloaded

Editing ==
    \/ \E f \in Files : EditorOpened(f)
    \/ \E f \in DOMAIN editors :
          EditorAboutToClose(f) \/ UpdateDocument(f) \/ Save(f) \/ UpdateDocumentNow(f)

Next == Pool \/ OnDocumentUpdated \/ ProjectManager \/ Editing

Spec == Init /\ [][Next]_vars

(* The threads of the pool, the event loop and the timers do not stop, and *)
(* there is a free thread for each task.  No thread of the program waits   *)
(* to post an event, so none is kept from it by the others where MaxPosted *)
(* makes it wait.                                                          *)
FairSpec ==
    /\ Spec
    /\ WF_vars(OnDocumentUpdated)
    /\ \A n \in 1..MaxIndexing + MaxSupports :
          SF_vars(n \in DOMAIN tasks /\ (ParseFile(n) \/ Tell(n) \/ Finish(n)))
    /\ \A f \in Files : WF_vars(f \in DOMAIN editors /\ UpdateDocumentNow(f))

-----------------------------------------------------------------------------
(* Properties.                                                             *)

(* The type of the state.  Every document is under the name of its file.   *)
CppModelTypeOK ==
    /\ disk \in [Files -> 0..MaxVersion] /\ clock \in 1..MaxVersion
    /\ empty \subseteq 1..clock
    /\ \A f \in DOMAIN editors :
          /\ f \in Files /\ editors[f].version \in 1..clock
          /\ editors[f].support \in 1..supports /\ editors[f].timer \in BOOLEAN
    /\ supports \in 0..MaxSupports
    /\ DOMAIN projects \subseteq Projects
    /\ \A p \in DOMAIN projects : projects[p] \in FileLists
    /\ dirty \in BOOLEAN /\ projectFiles \subseteq Files
    /\ \A list \in {snapshot, searchList} : \A f \in DOMAIN list :
          list[f] \in Document /\ list[f].file = f
    /\ \A n \in DOMAIN tasks : tasks[n].found \in Seq(Document)
    /\ \A i \in 1..Len(queue) : queue[i].doc \in Document /\ queue[i].to \in {"manager", "filter"}

(* The quick open filter has the document that the manager has, or is      *)
(* about to be given it: the two are told by separate events, and a        *)
(* collection of the manager's documents may come between these            *)
(* (cppquickopenfilter.cpp 62, cppmodelmanager.cpp 672 and 869).           *)
FilterFollows ==
    \A f \in DOMAIN snapshot :
        \/ f \in DOMAIN searchList /\ searchList[f] = snapshot[f]
        \/ \E i \in 1..Len(queue) :
              queue[i] = [to |-> "filter", doc |-> snapshot[f]]

(* What a collection takes is not used any more: no project lists its      *)
(* file, although the files of all projects are kept in m_projectFiles, and *)
(* no document that stays includes it (GC, ensureUpdated).                 *)
CollectsUnused ==
    [][\A f \in DOMAIN snapshot \ DOMAIN snapshot' :
          /\ f \notin InternalProjectFiles(projects')
          /\ \A g \in DOMAIN snapshot' : f \notin ToSet(Includes[g])]_vars

(* What an editor's own tasks make of its text never goes back to an older *)
(* version: updateDocumentNow() waits for the task before.                 *)
OwnInOrder ==
    [][\A f \in DOMAIN editors \cap DOMAIN snapshot \cap DOMAIN snapshot' :
          snapshot[f].support = editors[f].support
             /\ snapshot'[f].support = editors[f].support
          => snapshot'[f].version >= snapshot[f].version]_vars

(* What is typed reaches the code model unless the text is closed or       *)
(* empty, although the timer may end while the last task of the editor     *)
(* still runs.                                                             *)
EditArrives ==
    \A f \in Files :
        (f \in DOMAIN editors /\ editors[f].timer)
        ~> \/ f \notin DOMAIN editors \/ editors[f].version \in empty
           \/ f \in DOMAIN snapshot /\ snapshot[f].version = editors[f].version

(* editorOpened(): "the model manager listens to content changes in order  *)
(* to update the CppCodeModel accordingly": the document of a text that    *)
(* was typed comes, or goes if the text was emptied.                       *)
ModelFollows ==
    \A f \in Files :
        (f \in DOMAIN editors /\ editors[f].timer)
        ~> \/ f \notin DOMAIN editors
           \/ IF f \in DOMAIN snapshot THEN snapshot[f].version = editors[f].version
              ELSE editors[f].version \in empty

=============================================================================
