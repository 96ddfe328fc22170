----------------------------- MODULE FileManager -----------------------------
(***************************************************************************)
(* Core::FileManager and the documents of the editors: the watches on the  *)
(* files on disk, what the file manager knows of each file, and how the    *)
(* user comes to be asked whether to reload a file that another program    *)
(* has changed.                                                            *)
(*                                                                         *)
(* What is in a file is a version: every writing of a file gives it a     *)
(* version that no file has had before.  The file manager compares time    *)
(* stamps, which several versions may share.  Other programs may do        *)
(* something between any two calls of the file system that the code makes: *)
(* a handler that makes several of them takes several steps, and doing     *)
(* says where it is.  Permissions and symbolic links are left out.         *)
(***************************************************************************)
EXTENDS Naturals, FiniteSets, Functions

CONSTANTS
    Documents,      \* the IFile objects that editors may open
    Names,          \* paths of files
    Untitled,       \* the empty path of a new document
    None,
    MaxVersion,     \* bound: the number of times that files are written
    LastModified    \* the time stamp of each version

ASSUME FileManagerAssumption ==
    /\ Untitled \notin Names
    /\ None \notin Documents
    /\ MaxVersion \in Nat \ {0}
    /\ LastModified \in [0..MaxVersion -> Nat]

VARIABLES
    disk,           \* the version of each file on disk, Absent without one
    clock,          \* the last version that was used
    watched,        \* the paths of m_fileWatcher
    notices,        \* its signals fileChanged(...) that are on their way
    docs,           \* the open documents: name, version shown, isModified()
    managed,        \* m_managedFiles: name and time stamp of each document
    untold,         \* history: the managed documents to whose file something
                    \* was done since then that no signal will tell
    changed,        \* m_changedFiles
    posted,         \* a call of checkForReload() is posted
    reload,         \* checkForReload() where m_blockActivated is set
    active,         \* the main window is the active window
    saving,         \* filesToSave that saveModifiedFiles has still to save
    closing,        \* acceptedEditors of the closeEditors that called it
    doing           \* the handler that is between two calls of the file system

files == <<disk, clock, notices, untold>>
books == <<docs, managed, watched>>
calls == <<changed, posted, reload, active>>
dialogs == <<saving, closing>>
vars == <<files, books, calls, dialogs, doing>>

Absent == 0

(* Behaviors of one run of checkForReload().                               *)
Behaviors == {"ask", "all", "none"}
NoReload == [blocked |-> FALSE, todo |-> {}, asking |-> None, behavior |-> "ask"]

(* The next call that the handler makes, for which document, under which   *)
(* name it is saved, the version that it wrote, the documents of which     *)
(* updateFileInfo() is still to be called, and what follows.               *)
Calls == {"none", "write", "changed", "add", "info", "unwatch", "watch"}
NotDoing == [call |-> "none", doc |-> None, name |-> Untitled,
             version |-> Absent, left |-> {}, after |-> "none"]
AtRest == doing.call = "none"

Init ==
    /\ disk \in [Names -> {Absent, 1}] /\ clock = 1
    /\ watched = {} /\ notices = {} /\ untold = {}
    /\ docs = <<>> /\ managed = <<>>
    /\ changed = {} /\ posted = FALSE /\ reload = NoReload /\ active = TRUE
    /\ saving = {} /\ closing = {} /\ doing = NotDoing

-----------------------------------------------------------------------------
(* m_managedFiles and the watches, as functions of their former values.    *)

ManagedFiles(m, name) ==
    IF name = Untitled THEN {} ELSE {d \in DOMAIN m : m[d].name = name}

(* QFileSystemWatcher::addPath() does nothing for a file that is not there. *)
AddPath(w, name) ==
    IF name \in Names /\ disk[name] # Absent THEN w \cup {name} ELSE w

AddWatch(w, m, name) ==
    IF ManagedFiles(m, name) = {} THEN AddPath(w, name) ELSE w

RemoveWatch(w, m, name) ==
    IF ManagedFiles(m, name) = {} THEN w \ {name} ELSE w

FileInfo(name) ==
    [name |-> name,
     modified |-> LastModified[IF name = Untitled THEN Absent ELSE disk[name]]]

Enter(f, d, value) == [e \in DOMAIN f \cup {d} |-> IF e = d THEN value ELSE f[e]]

Without(f, ds) == Restrict(f, DOMAIN f \ ds)

(* Faulty variant of RemoveFiles: the watches stay.                        *)
KeepWatches(w, m, ds) == w

(* removeFile() of each: a path is watched as long as it is managed.       *)
RemoveFiles(w, m, ds) ==
    w \ {m[d].name : d \in {e \in ds : ManagedFiles(Without(m, ds), m[e].name) = {}}}

-----------------------------------------------------------------------------
(* Other programs.  A watch is on the file and not on its name: it is gone *)
(* with the file, and the last it tells is that.  The documents of a file  *)
(* that is not watched are not told.                                       *)

Signals(name, gone) == {[name |-> n, gone |-> gone] : n \in {name} \cap watched}

Untold(name) == IF name \in watched THEN {} ELSE ManagedFiles(managed, name)

Written(name) ==
    /\ clock < MaxVersion
    /\ clock' = clock + 1
    /\ disk' = [disk EXCEPT ![name] = clock']
    /\ notices' = notices \cup Signals(name, FALSE)

Write(name) ==
    /\ disk[name] # Absent
    /\ Written(name)
    /\ untold' = untold \cup Untold(name)
    /\ UNCHANGED <<books, calls, dialogs, doing>>

Unlink(name) ==
    /\ watched' = watched \ {name}
    /\ notices' = notices \cup Signals(name, TRUE)
    /\ untold' = untold \cup Untold(name)
    /\ UNCHANGED <<docs, managed, calls, dialogs, doing>>

(* Another editor writes a new file and renames it, or makes a first one.  *)
Replace(name) ==
    /\ clock < MaxVersion
    /\ clock' = clock + 1
    /\ disk' = [disk EXCEPT ![name] = clock']
    /\ Unlink(name)

Delete(name) ==
    /\ disk[name] # Absent
    /\ disk' = [disk EXCEPT ![name] = Absent]
    /\ Unlink(name)
    /\ UNCHANGED clock

-----------------------------------------------------------------------------
(* The event loop.  It also runs inside the dialogs, which keep the main   *)
(* window from being active.                                               *)

Running ==
    /\ AtRest
    /\ reload.blocked => reload.asking # None
    /\ closing # {} => saving # {}

(* A signal for a path that is not watched any more is dropped by          *)
(* QFileSystemWatcher, unless it says just that.                           *)
ChangedFile(notice) ==
    /\ Running /\ notice \in notices
    /\ notices' = notices \ {notice}
    /\ LET told == ManagedFiles(managed, notice.name)
       IN IF notice.gone \/ notice.name \in watched
          THEN changed' = changed \cup told /\ UNCHANGED untold
          ELSE untold' = untold \cup told /\ UNCHANGED changed
    /\ posted' = (posted \/ (changed = {} /\ changed' # {}))
    /\ UNCHANGED <<disk, clock, books, reload, active, dialogs, doing>>

(* Faulty variant of MainWindowActivated: nothing is posted.               *)
SilentlyActivated ==
    /\ AtRest /\ ~active /\ ~reload.blocked /\ saving = {}
    /\ active' = TRUE
    /\ UNCHANGED <<files, books, changed, posted, reload, dialogs, doing>>

MainWindowActivated ==
    /\ AtRest /\ ~active /\ ~reload.blocked /\ saving = {}
    /\ active' = TRUE /\ posted' = TRUE
    /\ UNCHANGED <<files, books, changed, reload, dialogs, doing>>

Deactivate ==
    /\ AtRest /\ active /\ ~reload.blocked
    /\ active' = FALSE
    /\ UNCHANGED <<files, books, changed, posted, reload, dialogs, doing>>

(* The beginning of checkForReload().  Documents that are deleted leave    *)
(* both lists (QPointer); an entry that a list has twice has no effect the *)
(* second time.                                                            *)
Begin(isActive) ==
    IF isActive /\ changed # {}
    THEN /\ reload' = [NoReload EXCEPT !.blocked = TRUE, !.todo = changed]
         /\ changed' = {}
    ELSE reload' = NoReload /\ UNCHANGED changed

CheckForReload ==
    /\ Running /\ posted
    /\ posted' = FALSE
    /\ IF reload.blocked THEN UNCHANGED <<changed, reload>> ELSE Begin(active)
    /\ UNCHANGED <<files, books, active, dialogs, doing>>

(* BaseTextDocument::reload(): a file that is not there cannot be opened.  *)
Reload(d) ==
    docs' = IF disk[docs[d].name] = Absent THEN docs
            ELSE [docs EXCEPT ![d].version = disk[docs[d].name], ![d].edited = FALSE]

(* modified(&behavior) has returned: updateFileInfo(), removePath() and    *)
(* addPath() follow.                                                       *)
Checked(d) ==
    doing' = [NotDoing EXCEPT !.call = "info", !.doc = d, !.left = {d}, !.after = "unwatch"]

SameFile(d) == managed[d].modified = LastModified[disk[docs[d].name]]

(* One turn of its loop, up to the dialog if there is one.                 *)
NextFile(d) ==
    /\ AtRest /\ reload.blocked /\ reload.asking = None /\ d \in reload.todo
    /\ LET todo == reload.todo \ {d}
       IN \/ /\ SameFile(d)
             /\ reload' = [reload EXCEPT !.todo = todo]
             /\ UNCHANGED <<docs, active, doing>>
          \/ /\ ~SameFile(d) /\ reload.behavior = "ask"
             /\ reload' = [reload EXCEPT !.todo = todo, !.asking = d]
             /\ active' = FALSE
             /\ UNCHANGED <<docs, doing>>
          \/ /\ ~SameFile(d) /\ reload.behavior # "ask"
             /\ IF reload.behavior = "all" THEN Reload(d) ELSE UNCHANGED docs
             /\ Checked(d)
             /\ reload' = [reload EXCEPT !.todo = todo]
             /\ UNCHANGED active
    /\ UNCHANGED <<files, managed, watched, changed, posted, dialogs>>

(* reloadPrompt(): Yes, No, and both for all.  The main window may be      *)
(* active again at once, or later.                                         *)
Answer(yes, forAll) ==
    /\ AtRest /\ reload.asking # None
    /\ IF yes THEN Reload(reload.asking) ELSE UNCHANGED docs
    /\ Checked(reload.asking)
    /\ reload' = [reload EXCEPT !.asking = None,
                                !.behavior = IF ~forAll THEN @ ELSE IF yes THEN "all" ELSE "none"]
    /\ active' \in BOOLEAN /\ posted' = (posted \/ active')
    /\ UNCHANGED <<files, managed, watched, changed, dialogs>>

(* m_blockActivated is reset, and checkForReload() calls itself.           *)
EndReload ==
    /\ AtRest /\ reload.blocked /\ reload.asking = None /\ reload.todo = {}
    /\ Begin(active)
    /\ UNCHANGED <<files, books, posted, active, dialogs, doing>>

-----------------------------------------------------------------------------
(* The calls of a handler after its first one.                             *)

(* updateFileInfo() of these documents, and what follows.                  *)
Infos(ds, then) ==
    IF ds # {} THEN [doing EXCEPT !.call = "info", !.left = ds, !.after = then]
    ELSE IF then = "none" THEN NotDoing
    ELSE [doing EXCEPT !.call = then, !.left = {}, !.after = "none"]

UpdateFileInfo(d) ==
    /\ doing.call = "info" /\ d \in doing.left
    /\ managed' = Enter(managed, d, FileInfo(docs[d].name))
    /\ untold' = untold \ {d}
    /\ doing' = Infos(doing.left \ {d}, doing.after)
    /\ UNCHANGED <<disk, clock, notices, docs, watched, calls, dialogs>>

(* The watch that is removed and added again.                              *)
RemovePath ==
    /\ doing.call = "unwatch"
    /\ watched' = watched \ {docs[doing.doc].name}
    /\ doing' = [doing EXCEPT !.call = "watch"]
    /\ UNCHANGED <<files, docs, managed, calls, dialogs>>

AddPathAgain ==
    /\ doing.call = "watch"
    /\ watched' = AddPath(watched, docs[doing.doc].name)
    /\ doing' = NotDoing
    /\ UNCHANGED <<files, docs, managed, calls, dialogs>>

(* addFiles(): the watch, and then the time stamp.                         *)
AddFile ==
    /\ doing.call = "add"
    /\ watched' = AddWatch(watched, managed, docs[doing.doc].name)
    /\ doing' = Infos({doing.doc}, "none")
    /\ UNCHANGED <<files, docs, managed, calls, dialogs>>

(* Faulty variant of Unblocked: what was written is taken for the work of  *)
(* another program.                                                        *)
UnblockOnly(ds) == Infos({}, "watch")

(* unblockFileChange(), for the documents of the file.                     *)
Unblocked(ds) == Infos(ds, "watch")

NotOpened ==
    /\ doing' = Unblocked(ManagedFiles(managed, docs[doing.doc].name))
    /\ UNCHANGED files

(* Documents of another file that is not watched are not told of this      *)
(* program's writing either.                                               *)
Writes ==
    /\ Written(doing.name)
    /\ untold' = untold \cup
           (IF doing.name = docs[doing.doc].name THEN {} ELSE Untold(doing.name))

(* save(): the file cannot be opened, or it has lost its contents when the *)
(* writing fails, or all goes well and changed() is emitted.  An editor    *)
(* whose document was not saved is not closed.                             *)
WriteFile ==
    /\ doing.call = "write"
    /\ \/ NotOpened /\ closing' = closing \ {doing.doc}
       \/ /\ Writes /\ closing' = closing \ {doing.doc}
          /\ doing' = Unblocked(ManagedFiles(managed, docs[doing.doc].name))
       \/ /\ Writes
          /\ doing' = [doing EXCEPT !.call = "changed", !.version = clock']
          /\ UNCHANGED closing
    /\ UNCHANGED <<books, calls, saving>>

(* checkForNewFileName(): addWatch() finds the new name managed already    *)
(* and does nothing.  Then the file is unblocked, under this name.         *)
CheckForNewFileName ==
    /\ doing.call = "changed"
    /\ LET d == doing.doc
           old == docs[d].name
       IN /\ docs' = [docs EXCEPT ![d] =
                [name |-> doing.name, version |-> doing.version, edited |-> FALSE]]
          /\ managed' = [managed EXCEPT ![d].name = doing.name]
          /\ watched' = IF doing.name = old THEN watched
                        ELSE AddWatch(RemoveWatch(watched, managed', old), managed', doing.name)
          /\ doing' = Unblocked(ManagedFiles(managed', doing.name))
    /\ UNCHANGED <<files, calls, dialogs>>

-----------------------------------------------------------------------------
(* The editors.                                                            *)

Idle == AtRest /\ ~reload.blocked /\ saving = {} /\ closing = {}
User == Idle /\ active

(* openEditor() of a file that no editor shows: it is read, then added.    *)
OpenEditor(d, name) ==
    /\ User /\ d \notin DOMAIN docs
    /\ disk[name] # Absent /\ \A e \in DOMAIN docs : docs[e].name # name
    /\ docs' = Enter(docs, d, [name |-> name, version |-> disk[name], edited |-> FALSE])
    /\ doing' = [NotDoing EXCEPT !.call = "add", !.doc = d]
    /\ UNCHANGED <<files, managed, watched, calls, dialogs>>

NewFile(d) ==
    /\ User /\ d \notin DOMAIN docs
    /\ docs' = Enter(docs, d, [name |-> Untitled, version |-> Absent, edited |-> TRUE])
    /\ managed' = Enter(managed, d, FileInfo(Untitled))
    /\ UNCHANGED <<files, watched, calls, dialogs, doing>>

Edit(d) ==
    /\ User /\ d \in DOMAIN docs /\ ~docs[d].edited
    /\ docs' = [docs EXCEPT ![d].edited = TRUE]
    /\ UNCHANGED <<files, managed, watched, calls, dialogs, doing>>

Close(ds) ==
    /\ docs' = Without(docs, ds) /\ managed' = Without(managed, ds)
    /\ changed' = changed \ ds /\ untold' = untold \ ds

(* The beginning of a save: blockFileChange().                             *)
Save(d, name) == doing' = [NotDoing EXCEPT !.call = "write", !.doc = d, !.name = name]

(* saveFile(), and saveFileAs(): editors that show the other file are      *)
(* closed before, but for those that a listener keeps open.                *)
SaveFile(d, name) ==
    /\ User /\ d \in DOMAIN docs
    /\ \E others \in SUBSET {e \in DOMAIN docs \ {d} : docs[e].name = name} :
          /\ name = docs[d].name => others = {}
          /\ Close(others)
          /\ watched' = RemoveFiles(watched, managed, others) \ {docs[d].name}
    /\ Save(d, name)
    /\ UNCHANGED <<disk, clock, notices, posted, reload, active, dialogs>>

(* saveModifiedFiles(), for itself or before editors are closed: the user  *)
(* has chosen what to save of the modified files.                          *)
SaveModifiedFiles(chosen, editors) ==
    /\ User /\ chosen \cup editors # {}
    /\ chosen \subseteq {d \in DOMAIN docs : docs[d].edited}
    /\ editors = {} \/ chosen \subseteq editors
    /\ saving' = chosen /\ closing' = editors
    /\ active' = (chosen = {})
    /\ UNCHANGED <<files, books, changed, posted, reload, doing>>

(* One turn of its loop: the file is written, or as another one if it has  *)
(* no name or is read-only (nobody looks at the editors of that one), or   *)
(* the user does not name one.  A read-only file that may not be saved     *)
(* under another name is closed without, or everything is cancelled.       *)
SaveNext(d) ==
    /\ AtRest /\ d \in saving
    /\ \/ /\ \E name \in Names : Save(d, name)
          /\ watched' = watched \ {docs[d].name}
          /\ saving' = saving \ {d} /\ UNCHANGED closing
       \/ /\ closing' \in {closing, closing \ {d}} /\ saving' = saving \ {d}
          /\ UNCHANGED <<watched, doing>>
       \/ /\ saving' = {} /\ closing' = {}
          /\ UNCHANGED <<watched, doing>>
    /\ active' \in IF saving' = {} THEN BOOLEAN ELSE {FALSE}
    /\ posted' = (posted \/ active')
    /\ UNCHANGED <<files, docs, managed, changed, reload>>

CloseEditors ==
    /\ AtRest /\ saving = {} /\ closing # {}
    /\ Close(closing)
    /\ watched' = RemoveFiles(watched, managed, closing)
    /\ closing' = {}
    /\ UNCHANGED <<disk, clock, notices, posted, reload, active, saving, doing>>

-----------------------------------------------------------------------------
OtherPrograms ==
    \E name \in Names : Write(name) \/ Replace(name) \/ Delete(name)

EventLoop ==
    \/ \E notice \in notices : ChangedFile(notice)
    \/ MainWindowActivated \/ Deactivate \/ CheckForReload
    \/ \E d \in reload.todo : NextFile(d)
    \/ \E yes, forAll \in BOOLEAN : Answer(yes, forAll)
    \/ EndReload

Handler ==
    \/ \E d \in doing.left : UpdateFileInfo(d)
    \/ RemovePath \/ AddPathAgain \/ AddFile
    \/ WriteFile \/ CheckForNewFileName

Editors ==
    \/ \E d \in Documents :
          \/ NewFile(d) \/ Edit(d) \/ SaveNext(d)
          \/ \E name \in Names : OpenEditor(d, name) \/ SaveFile(d, name)
    \/ \E chosen, editors \in SUBSET DOMAIN docs : SaveModifiedFiles(chosen, editors)
    \/ CloseEditors

Next == OtherPrograms \/ EventLoop \/ Handler \/ Editors

Spec == Init /\ [][Next]_vars

-----------------------------------------------------------------------------
Versions == 0..MaxVersion
Doing == [call : Calls, doc : DOMAIN docs \cup {None}, name : Names \cup {Untitled},
          version : Versions, left : SUBSET DOMAIN docs,
          after : {"none", "unwatch", "watch"}]

(* The type of the variables.                                              *)
FileManagerTypeOK ==
    /\ disk \in [Names -> Versions] /\ clock \in Versions
    /\ watched \subseteq Names
    /\ notices \subseteq [name : Names, gone : BOOLEAN]
    /\ DOMAIN docs \subseteq Documents
    /\ docs \in [DOMAIN docs ->
                    [name : Names \cup {Untitled}, version : Versions, edited : BOOLEAN]]
    /\ DOMAIN managed \subseteq DOMAIN docs
    /\ managed \in [DOMAIN managed -> [name : Names \cup {Untitled}, modified : Nat]]
    /\ \A d \in DOMAIN managed : managed[d].name = docs[d].name
    /\ AtRest => DOMAIN managed = DOMAIN docs
    /\ untold \subseteq DOMAIN managed
    /\ changed \cup saving \cup closing \subseteq DOMAIN managed
    /\ reload \in [blocked : BOOLEAN, todo : SUBSET DOMAIN managed,
                   asking : DOMAIN managed \cup {None}, behavior : Behaviors]
    /\ posted \in BOOLEAN /\ active \in BOOLEAN
    /\ doing \in Doing

Known(d) == managed[d].name \in Names /\ managed[d].modified = LastModified[disk[managed[d].name]]

(* It is known of a document that its file has changed, or it will be: a   *)
(* signal is on its way, or the document waits in one of the lists of      *)
(* checkForReload(), or its time stamp is about to be taken.               *)
WillBeKnown(d) ==
    \/ \E notice \in notices : notice.name = managed[d].name
    \/ d \in changed \cup reload.todo \cup {reload.asking} \cup doing.left
    \/ doing.call = "changed" /\ doing.name = managed[d].name

(* A file that is not as the file manager knows it is noticed, unless      *)
(* another program wrote, replaced or deleted it while its watch was off,  *)
(* or its watch went off before the signal came: whatever this program     *)
(* does itself, saving, renaming, reloading or closing, and in whichever   *)
(* order the calls of the two come, no change is lost.                     *)
Noticed ==
    \A d \in DOMAIN managed :
        managed[d].name = Untitled \/ Known(d) \/ WillBeKnown(d) \/ d \in untold

(* FileManager: "The files the IFile's point to will be monitored at       *)
(* filesystem level"; unblockFileChange() "Enables the monitoring of the   *)
(* file [...] and update the status of the corresponding IFile's": a file  *)
(* that is monitored is as the file manager knows it, or is noticed,       *)
(* without the exception that Noticed makes.                               *)
Monitored ==
    \A d \in DOMAIN managed :
        AtRest /\ managed[d].name \in watched => Known(d) \/ WillBeKnown(d)

(* The watches are those of open documents: none is left behind by files   *)
(* that were closed or got another name.                                   *)
WatchesOfDocuments == watched \subseteq {docs[d].name : d \in DOMAIN docs}

(* The user is asked about a file only if another version of it is on disk *)
(* than the document shows or has written itself.                          *)
AskedForReason ==
    [][\A d \in DOMAIN docs :
          reload'.asking = d /\ reload.asking # d =>
              disk[docs[d].name] # docs[d].version]_vars

(* Whoever waits in m_changedFiles will be looked at: where the main       *)
(* window is active and nothing is being asked, a call of checkForReload() *)
(* is posted.                                                              *)
ChangesLookedAt == changed # {} /\ active /\ ~reload.blocked => posted

=============================================================================
