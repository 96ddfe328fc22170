--------------------------- MODULE FileManagerProofs ---------------------------
(***************************************************************************)
(* For any documents, paths, time stamps and number of writings: the       *)
(* types, that no watch is left without a document, that no change is put  *)
(* aside, that nobody is asked without reason, and that what is not        *)
(* noticed was done by another program while the file was not watched.     *)
(*                                                                         *)
(* IInv has a part for the file system, one for the documents and what is  *)
(* known of their files, one for the handler that is under way and one for *)
(* what waits for checkForReload().  The watches, the time stamps and      *)
(* Noticed are invariants on top of it.                                    *)
(***************************************************************************)
EXTENDS FileManager, TLAPS

Paths == Names \cup {Untitled}

Disk ==
    /\ clock \in Versions
    /\ disk \in [Names -> 0..clock]
    /\ notices \subseteq [name : Names, gone : BOOLEAN]
    /\ watched \subseteq Names

(* A document that is added is open and not managed yet.                   *)
Adding == doing.call = "add" \/ (doing.call = "info" /\ doing.after = "none")

Books ==
    /\ DOMAIN docs \subseteq Documents
    /\ docs \in [DOMAIN docs -> [name : Paths, version : 0..clock, edited : BOOLEAN]]
    /\ managed \in [DOMAIN managed -> [name : Paths, modified : Nat]]
    /\ DOMAIN managed = IF Adding THEN DOMAIN docs \ {doing.doc} ELSE DOMAIN docs
    /\ \A d \in DOMAIN managed : managed[d].name = docs[d].name
    /\ untold \subseteq DOMAIN managed

Handling ==
    /\ doing \in Doing
    /\ IF AtRest THEN doing.doc = None ELSE doing.doc \in DOMAIN docs
    /\ doing.call \in {"write", "changed"} => doing.name \in Names
    /\ doing.call = "changed" => doing.version \in 1..clock
    /\ doing.left # {} <=> doing.call = "info"
    /\ Adding => doing.left \subseteq {doing.doc}

Waiting == changed \cup reload.todo \cup ({reload.asking} \ {None})

Reloading == [blocked : BOOLEAN, todo : SUBSET DOMAIN managed,
              asking : DOMAIN managed \cup {None}, behavior : Behaviors]

Lists ==
    /\ reload \in Reloading
    /\ changed \cup saving \cup closing \subseteq DOMAIN managed
    /\ posted \in BOOLEAN /\ active \in BOOLEAN
    /\ \A d \in Waiting : docs[d].name \in Names
    /\ ~reload.blocked => reload.todo = {} /\ reload.asking = None
    /\ saving # {} => ~active
    /\ saving \cup closing # {} => ~reload.blocked

IInv == Disk /\ Books /\ Handling /\ Lists /\ ChangesLookedAt

-----------------------------------------------------------------------------
(* What stays as long as the variables that it is about. *)

LEMMA SameBooks ==
    ASSUME Books, clock \in Nat, clock' \in Nat, clock <= clock', UNCHANGED <<docs, managed, doing>>,
           untold' \subseteq DOMAIN managed
    PROVE  Books'
  BY DEF Books, Adding

LEMMA SameHandling ==
    ASSUME Handling, clock \in Nat, clock' \in Nat, clock <= clock',
           UNCHANGED doing, DOMAIN docs \subseteq DOMAIN docs'
    PROVE  Handling'
  BY DEF Handling, Doing, AtRest, Adding

(* A handler that is at rest while documents come and go.                  *)
LEMMA RestHandling ==
    ASSUME Handling, AtRest, UNCHANGED doing
    PROVE  Handling'
  BY DEF Handling, Doing, AtRest, Adding

LEMMA SameLists ==
    ASSUME Lists, ChangesLookedAt, UNCHANGED <<docs, managed, calls, dialogs>>
    PROVE  Lists' /\ ChangesLookedAt'
  BY DEF Lists, Reloading, Waiting, ChangesLookedAt, calls, dialogs

LEMMA ManagedType ==
    ASSUME Books, NEW name
    PROVE  ManagedFiles(managed, name) \subseteq DOMAIN managed
  BY DEF ManagedFiles

LEMMA SignalsType ==
    ASSUME NEW name \in Names, NEW gone \in BOOLEAN
    PROVE  Signals(name, gone) \subseteq [name : Names, gone : BOOLEAN]
<1>1. [name |-> name, gone |-> gone] \in [name : Names, gone : BOOLEAN]
  OBVIOUS
<1> QED
  BY <1>1 DEF Signals

-----------------------------------------------------------------------------
(* The initial states and the actions. *)

LEMMA InitInv == Init => IInv
<1> SUFFICES ASSUME Init PROVE IInv
  OBVIOUS
<1>1. Disk
  BY FileManagerAssumption DEF Init, Disk, Versions, Absent
<1>2. Handling
  BY FileManagerAssumption
     DEF Init, Handling, Doing, NotDoing, Calls, AtRest, Adding, Versions, Absent
<1>3. Books
  BY FileManagerAssumption DEF Init, Books, Adding, NotDoing, Absent
<1>4. Lists
  BY DEF Init, Lists, Reloading, Waiting, NoReload, Behaviors
<1> QED
  BY <1>1, <1>2, <1>3, <1>4 DEF Init, IInv, ChangesLookedAt

LEMMA WrittenDisk ==
    ASSUME Disk, NEW name \in Names, Written(name), watched' \subseteq Names
    PROVE  Disk' /\ clock' = clock + 1 /\ clock \in Nat /\ clock' \in Nat
<1>1. notices' \subseteq [name : Names, gone : BOOLEAN]
  BY SignalsType DEF Disk, Written
<1>2. /\ clock \in Nat /\ clock' = clock + 1 /\ clock' \in Versions
      /\ disk' = [disk EXCEPT ![name] = clock'] /\ disk \in [Names -> 0..clock]
  BY FileManagerAssumption DEF Disk, Written, Versions
<1>3. disk' \in [Names -> 0..clock']
  BY <1>2
<1> QED
  BY <1>1, <1>2, <1>3 DEF Disk

LEMMA OtherProgramsInv == IInv /\ OtherPrograms => IInv'
<1> SUFFICES ASSUME IInv, NEW name \in Names,
                    Write(name) \/ Replace(name) \/ Delete(name)
             PROVE  IInv'
  BY DEF OtherPrograms
<1> USE DEF IInv
<1>1. Untold(name) \subseteq DOMAIN managed
  BY ManagedType DEF Untold
<1>2. UNCHANGED <<docs, managed, calls, dialogs, doing>>
  BY DEF Write, Replace, Delete, Unlink, books
<1>3. Disk' /\ clock \in Nat /\ clock' \in Nat /\ clock <= clock'
  <2>1. CASE Write(name)
    BY <2>1, WrittenDisk DEF Write, books, Disk
  <2>2. ASSUME Unlink(name)
        PROVE  watched' \subseteq Names /\ notices' \subseteq [name : Names, gone : BOOLEAN]
    BY <2>2, SignalsType DEF Unlink, Disk
  <2>3. CASE Replace(name)
    BY <2>2, <2>3, FileManagerAssumption DEF Replace, Disk, Versions
  <2>4. CASE Delete(name)
    BY <2>2, <2>4, FileManagerAssumption DEF Delete, Disk, Versions, Absent
  <2> QED
    BY <2>1, <2>3, <2>4
<1>4. untold' \subseteq DOMAIN managed
  BY <1>1 DEF Books, Write, Replace, Delete, Unlink
<1> QED
  BY <1>2, <1>3, <1>4, SameBooks, SameHandling, SameLists

(* A signal: only documents on the path of a watch come to the list.       *)
LEMMA ChangedFileInv ==
    ASSUME IInv, NEW notice \in notices, ChangedFile(notice)
    PROVE  IInv'
<1> USE DEF IInv
<1>1. notice.name \in Names /\ notice.name # Untitled
  BY FileManagerAssumption DEF Disk
<1>2. \A d \in ManagedFiles(managed, notice.name) :
          d \in DOMAIN managed /\ docs[d].name \in Names
  BY <1>1 DEF ManagedFiles, Books
<1>3. Disk' /\ clock \in Nat
  BY FileManagerAssumption DEF Disk, ChangedFile, books, Versions
<1>4. Books' /\ Handling'
  <2>1. untold' \subseteq DOMAIN managed
    BY <1>2 DEF ChangedFile, Books
  <2> QED
    BY <1>3, <2>1, SameBooks, SameHandling DEF ChangedFile, books
<1>5. Lists'
  BY <1>2 DEF ChangedFile, Lists, Reloading, Waiting, books, dialogs
<1>6. ChangesLookedAt'
  BY DEF ChangedFile, ChangesLookedAt
<1> QED
  BY <1>3, <1>4, <1>5, <1>6

LEMMA SameFiles ==
    ASSUME Disk, Books, Handling, UNCHANGED <<files, books, doing>>
    PROVE  Disk' /\ Books' /\ Handling'
<1>1. clock \in Nat
  BY FileManagerAssumption DEF Disk, Versions
<1> QED
  BY <1>1, SameBooks, SameHandling DEF Disk, files, books, Books

LEMMA WindowInv ==
    ASSUME IInv, MainWindowActivated \/ Deactivate
    PROVE  IInv'
<1> USE DEF IInv, MainWindowActivated, Deactivate
<1>1. Disk' /\ Books' /\ Handling'
  BY SameFiles
<1>2. Lists'
  BY DEF Lists, Reloading, Waiting, books, dialogs
<1> QED
  BY <1>1, <1>2 DEF ChangesLookedAt

(* The beginning of checkForReload(), of its own or after another one.     *)
LEMMA BeginLists ==
    ASSUME Lists, Begin(active), reload.asking = None, reload.todo = {},
           active => saving \cup closing = {},
           UNCHANGED <<docs, managed, active, dialogs>>, posted' \in BOOLEAN
    PROVE  Lists' /\ ChangesLookedAt'
<1>1. CASE active /\ changed # {}
  <2>1. reload' = [blocked |-> TRUE, todo |-> changed, asking |-> None, behavior |-> "ask"]
    BY <1>1 DEF Begin, NoReload
  <2>2. changed' = {}
    BY <1>1 DEF Begin
  <2>3. reload' \in Reloading'
    BY <2>1 DEF Lists, Reloading, Behaviors
  <2> QED
    BY <1>1, <2>1, <2>2, <2>3 DEF Lists, Waiting, ChangesLookedAt, dialogs
<1>2. CASE ~(active /\ changed # {})
  <2>1. reload' = NoReload /\ changed' = changed
    BY <1>2 DEF Begin
  <2>2. reload' \in Reloading'
    BY <2>1 DEF NoReload, Behaviors, Reloading
  <2> QED
    BY <1>2, <2>1, <2>2 DEF Lists, Waiting, ChangesLookedAt, NoReload, dialogs
<1> QED
  BY <1>1, <1>2

LEMMA CheckForReloadInv ==
    ASSUME IInv, CheckForReload
    PROVE  IInv'
<1> USE DEF IInv
<1>1. Disk' /\ Books' /\ Handling'
  BY SameFiles DEF CheckForReload
<1>2. CASE reload.blocked
  BY <1>1, <1>2 DEF CheckForReload, Lists, Reloading, Waiting, ChangesLookedAt, books, dialogs
<1>3. CASE ~reload.blocked
  <2>1. active => saving \cup closing = {}
    BY DEF CheckForReload, Running, Lists
  <2> QED
    BY <1>1, <1>3, <2>1, BeginLists DEF CheckForReload, Lists, books
<1> QED
  BY <1>2, <1>3

LEMMA EndReloadInv ==
    ASSUME IInv, EndReload
    PROVE  IInv'
<1> USE DEF IInv
<1>1. Disk' /\ Books' /\ Handling'
  BY SameFiles DEF EndReload
<1>2. saving \cup closing = {}
  BY DEF EndReload, Lists
<1> QED
  BY <1>1, <1>2, BeginLists DEF EndReload, Lists, books

(* One file less to look at, of documents that keep their paths.           *)
LEMMA FewerLists ==
    ASSUME Lists, NEW todo, todo \subseteq reload.todo,
           NEW asking, asking \in reload.todo \cup {None},
           NEW behavior \in Behaviors, reload.blocked,
           reload' = [blocked |-> TRUE, todo |-> todo, asking |-> asking,
                      behavior |-> behavior],
           \A e \in DOMAIN managed : docs'[e].name = docs[e].name,
           UNCHANGED <<managed, changed, dialogs>>,
           active' \in BOOLEAN, posted' \in BOOLEAN
    PROVE  Lists' /\ ChangesLookedAt'
<1>1. saving = {} /\ closing = {}
  BY DEF Lists
<1>2. reload' \in Reloading'
  BY DEF Lists, Reloading
<1>3. reload'.blocked /\ reload'.todo = todo /\ reload'.asking = asking
  OBVIOUS
<1>4. /\ todo \cup ({asking} \ {None}) \subseteq Waiting
      /\ Waiting \subseteq DOMAIN managed
  BY DEF Waiting, Lists, Reloading
<1> QED
  BY <1>1, <1>2, <1>3, <1>4 DEF Lists, Waiting, ChangesLookedAt, dialogs

(* A document that is shown as it is on disk, if it is there, or as before,*)
(* and the handler that checkForReload() is in.                            *)
LEMMA ReloadedBooks ==
    ASSUME Disk, Books, Handling, AtRest, NEW d \in DOMAIN docs, docs[d].name \in Names,
           Reload(d) \/ UNCHANGED docs, Checked(d) \/ UNCHANGED doing,
           UNCHANGED <<files, managed, watched>>
    PROVE  /\ Disk' /\ Books' /\ Handling'
           /\ DOMAIN docs' = DOMAIN docs
           /\ \A e \in DOMAIN docs : docs'[e].name = docs[e].name
<1>1. /\ DOMAIN docs' = DOMAIN docs
      /\ \A e \in DOMAIN docs : docs'[e].name = docs[e].name
      /\ docs' \in [DOMAIN docs -> [name : Paths, version : 0..clock, edited : BOOLEAN]]
  BY DEF Reload, Books, Disk
<1>2. ~Adding /\ ~Adding'
  BY DEF AtRest, Checked, NotDoing, Adding
<1>3. Handling'
  <2>1. CASE UNCHANGED doing
    BY <1>1, <2>1 DEF Handling, AtRest, Doing, Adding
  <2>2. CASE Checked(d)
    <3>1. doing' = [call |-> "info", doc |-> d, name |-> Untitled, version |-> Absent,
                    left |-> {d}, after |-> "unwatch"]
      BY <2>2 DEF Checked, NotDoing
    <3> QED
      BY <1>1, <1>2, <3>1, FileManagerAssumption
         DEF Handling, AtRest, Doing, Calls, Versions, Absent
  <2> QED
    BY <2>1, <2>2
<1>4. Disk'
  BY DEF Disk, files
<1> QED
  BY <1>1, <1>2, <1>3, <1>4 DEF Books, files

LEMMA NextFileInv ==
    ASSUME IInv, NEW d \in reload.todo, NextFile(d)
    PROVE  IInv'
<1> USE DEF IInv
<1> DEFINE todo == reload.todo \ {d}
<1>1. /\ d \in DOMAIN docs /\ docs[d].name \in Names
      /\ reload.blocked /\ reload.asking = None /\ reload.behavior \in Behaviors
      /\ reload \in Reloading /\ AtRest
      /\ active \in BOOLEAN /\ posted \in BOOLEAN
  BY DEF Lists, Reloading, Waiting, NextFile, Books
<1>2. UNCHANGED <<files, managed, watched, changed, posted, dialogs>>
  BY DEF NextFile
<1>3. /\ Reload(d) \/ UNCHANGED docs
      /\ Checked(d) \/ UNCHANGED doing
      /\ \/ reload' = [reload EXCEPT !.todo = todo]
         \/ reload' = [reload EXCEPT !.todo = todo, !.asking = d]
      /\ active' \in BOOLEAN
  BY <1>1 DEF NextFile
<1>4. \E asking \in reload.todo \cup {None} :
          reload' = [blocked |-> TRUE, todo |-> todo, asking |-> asking,
                     behavior |-> reload.behavior]
  BY <1>1, <1>3 DEF Reloading
<1>5. /\ Disk' /\ Books' /\ Handling'
      /\ \A e \in DOMAIN docs : docs'[e].name = docs[e].name
  BY <1>1, <1>2, <1>3, ReloadedBooks
<1>6. \A e \in DOMAIN managed : docs'[e].name = docs[e].name
  BY <1>5 DEF Books
<1> HIDE DEF todo
<1>7. todo \subseteq reload.todo
  BY DEF todo
<1> QED
  BY <1>1, <1>2, <1>3, <1>4, <1>5, <1>6, <1>7, FewerLists

LEMMA AnswerInv ==
    ASSUME IInv, NEW yes \in BOOLEAN, NEW forAll \in BOOLEAN, Answer(yes, forAll)
    PROVE  IInv'
<1> USE DEF IInv
<1> DEFINE d == reload.asking
           behavior == IF ~forAll THEN reload.behavior ELSE IF yes THEN "all" ELSE "none"
<1>1. /\ d \in DOMAIN docs /\ docs[d].name \in Names
      /\ reload.blocked /\ behavior \in Behaviors /\ AtRest
      /\ reload \in Reloading
      /\ active' \in BOOLEAN /\ posted \in BOOLEAN
  BY DEF Lists, Reloading, Waiting, Answer, Behaviors, Books
<1>2. UNCHANGED <<files, managed, watched, changed, dialogs>>
  BY DEF Answer
<1>3. /\ Disk' /\ Books' /\ Handling'
      /\ \A e \in DOMAIN docs : docs'[e].name = docs[e].name
  BY <1>1, <1>2, ReloadedBooks DEF Answer
<1>4. reload' = [blocked |-> TRUE, todo |-> reload.todo, asking |-> None, behavior |-> behavior]
  BY <1>1 DEF Answer, Reloading
<1>5. posted' \in BOOLEAN
  BY <1>1 DEF Answer
<1>6. \A e \in DOMAIN managed : docs'[e].name = docs[e].name
  BY <1>3 DEF Books
<1> HIDE DEF behavior
<1> QED
  BY <1>1, <1>2, <1>3, <1>4, <1>5, <1>6, FewerLists

-----------------------------------------------------------------------------
(* The handlers. *)

(* What follows the last updateFileInfo(), or the next one.                *)
LEMMA InfosHandling ==
    ASSUME Handling, ~AtRest, NEW ds \in SUBSET DOMAIN docs,
           NEW then \in {"none", "unwatch", "watch"}, doing' = Infos(ds, then),
           UNCHANGED DOMAIN docs, then = "none" => ds \subseteq {doing.doc}
    PROVE  Handling' /\ (Adding' <=> then = "none" /\ ds # {})
<1>1. doing \in Doing /\ doing.doc \in DOMAIN docs
  BY DEF Handling
<1>2. CASE ds # {}
  <2>1. doing' = [call |-> "info", doc |-> doing.doc, name |-> doing.name,
                  version |-> doing.version, left |-> ds, after |-> then]
    BY <1>1, <1>2 DEF Infos, Doing
  <2> QED
    BY <1>1, <1>2, <2>1 DEF Handling, Doing, Calls, AtRest, Adding
<1>3. CASE ds = {} /\ then # "none"
  <2>1. doing' = [call |-> then, doc |-> doing.doc, name |-> doing.name,
                  version |-> doing.version, left |-> {}, after |-> "none"]
    BY <1>1, <1>3 DEF Infos, Doing
  <2> QED
    BY <1>1, <1>3, <2>1 DEF Handling, Doing, Calls, AtRest, Adding
<1>4. CASE ds = {} /\ then = "none"
  <2>1. doing' = NotDoing
    BY <1>4 DEF Infos
  <2> QED
    BY <1>4, <2>1, FileManagerAssumption
       DEF Handling, NotDoing, Doing, Calls, AtRest, Adding, Versions, Absent
<1> QED
  BY <1>2, <1>3, <1>4

LEMMA FileInfoType ==
    ASSUME Disk, NEW name \in Paths
    PROVE  FileInfo(name) \in [name : Paths, modified : Nat] /\ FileInfo(name).name = name
  BY FileManagerAssumption DEF Disk, FileInfo, Absent, Paths, Versions

LEMMA UpdateFileInfoInv ==
    ASSUME IInv, NEW d \in doing.left, UpdateFileInfo(d)
    PROVE  IInv'
<1> USE DEF IInv
<1>1. /\ doing \in Doing /\ doing.call = "info" /\ ~AtRest /\ d \in DOMAIN docs
      /\ UNCHANGED <<disk, clock, notices, docs, watched, calls, dialogs>>
      /\ doing' = Infos(doing.left \ {d}, doing.after)
  BY DEF Handling, Doing, UpdateFileInfo, AtRest
<1>2. Disk'
  BY <1>1 DEF Disk
<1>3. /\ doing.left \ {d} \in SUBSET DOMAIN docs
      /\ doing.after \in {"none", "unwatch", "watch"}
      /\ doing.after = "none" => d = doing.doc /\ doing.left \ {d} = {}
  BY <1>1 DEF Handling, Doing, Adding
<1>4. Handling' /\ ~Adding'
  BY <1>1, <1>3, InfosHandling
<1>5. /\ managed' \in [DOMAIN managed \cup {d} -> [name : Paths, modified : Nat]]
      /\ DOMAIN managed' = DOMAIN managed \cup {d}
      /\ managed'[d].name = docs[d].name
      /\ \A e \in DOMAIN managed : e # d => managed'[e] = managed[e]
  <2> DEFINE info == FileInfo(docs[d].name)
  <2>1. managed' = Enter(managed, d, info)
    BY DEF UpdateFileInfo
  <2>2. docs[d].name \in Paths
    BY <1>1 DEF Books
  <2>3. info \in [name : Paths, modified : Nat] /\ info.name = docs[d].name
    BY <2>2, FileInfoType
  <2>4. managed \in [DOMAIN managed -> [name : Paths, modified : Nat]]
    BY DEF Books
  <2> HIDE DEF info
  <2> QED
    BY <2>1, <2>3, <2>4 DEF Enter
<1>6. DOMAIN managed' = DOMAIN docs'
  BY <1>1, <1>3, <1>5 DEF Books, Adding
<1>7. Books'
  BY <1>1, <1>4, <1>5, <1>6 DEF Books, UpdateFileInfo
<1>8. Lists'
  BY <1>1, <1>5 DEF Lists, Reloading, Waiting, calls, dialogs
<1> QED
  BY <1>1, <1>2, <1>4, <1>7, <1>8 DEF ChangesLookedAt, calls

LEMMA AddPathType ==
    ASSUME Disk, NEW w \in SUBSET Names, NEW name
    PROVE  AddPath(w, name) \subseteq w \cup {name} /\ AddPath(w, name) \subseteq Names
  BY DEF AddPath

(* The handlers that only touch the watches.                               *)
LEMMA WatchesInv ==
    ASSUME IInv, RemovePath \/ AddPathAgain \/ AddFile
    PROVE  IInv'
<1> USE DEF IInv
<1>1. /\ UNCHANGED <<files, docs, managed, calls, dialogs>>
      /\ doing \in Doing /\ doing.doc \in DOMAIN docs /\ ~AtRest
  BY DEF RemovePath, AddPathAgain, AddFile, Handling, AtRest
<1>2. Disk'
  <2>1. watched' \subseteq Names
    BY AddPathType DEF RemovePath, AddPathAgain, AddFile, AddWatch, Disk
  <2> QED
    BY <1>1, <2>1 DEF Disk, files
<1>3. Handling' /\ (Adding' <=> Adding) /\ (Adding => doing'.doc = doing.doc)
  <2>1. CASE RemovePath
    <3>1. doing' = [doing EXCEPT !.call = "watch"] /\ doing.call = "unwatch"
      BY <2>1 DEF RemovePath
    <3> QED
      BY <1>1, <3>1 DEF Handling, Doing, Calls, AtRest, Adding
  <2>2. CASE AddPathAgain
    <3>1. doing' = NotDoing /\ doing.call = "watch"
      BY <2>2 DEF AddPathAgain
    <3> QED
      BY <1>1, <3>1, FileManagerAssumption
         DEF Handling, Doing, Calls, AtRest, Adding, NotDoing, Versions, Absent
  <2>3. CASE AddFile
    <3>1. doing' = Infos({doing.doc}, "none") /\ doing.call = "add"
      BY <2>3 DEF AddFile
    <3>2. Handling' /\ Adding'
      BY <1>1, <3>1, InfosHandling
    <3>3. doing' = [doing EXCEPT !.call = "info", !.left = {doing.doc}, !.after = "none"]
      BY <3>1 DEF Infos
    <3> QED
      BY <1>1, <3>1, <3>2, <3>3 DEF Adding, Doing
  <2> QED
    BY <2>1, <2>2, <2>3
<1>4. Books'
  BY <1>1, <1>3 DEF Books, files
<1> QED
  BY <1>1, <1>2, <1>3, <1>4, SameLists

(* A write that fails, before or after the file has lost its contents, or  *)
(* not.                                                                    *)
LEMMA WriteFileInv ==
    ASSUME IInv, WriteFile
    PROVE  IInv'
<1> USE DEF IInv
<1>1. /\ UNCHANGED <<books, calls, saving>>
      /\ doing \in Doing /\ doing.doc \in DOMAIN docs /\ ~AtRest /\ ~Adding
      /\ doing.call = "write" /\ doing.name \in Names
      /\ closing' \subseteq closing
      /\ DOMAIN managed = DOMAIN docs
  BY DEF WriteFile, Handling, AtRest, Adding, Books
<1>2. /\ Disk' /\ clock \in Nat /\ clock' \in Nat /\ clock <= clock'
      /\ untold' \subseteq DOMAIN managed
  <2>1. CASE UNCHANGED files
    BY <1>1, <2>1, FileManagerAssumption DEF Disk, files, books, Versions, Books
  <2>2. CASE Writes
    <3>1. Untold(doing.name) \subseteq DOMAIN managed
      BY ManagedType DEF Untold
    <3>2. watched' \subseteq Names
      BY <1>1 DEF books, Disk
    <3> QED
      BY <1>1, <2>2, <3>1, <3>2, WrittenDisk DEF Writes, Books
  <2> QED
    BY <2>1, <2>2 DEF WriteFile, NotOpened
<1>3. Handling' /\ ~Adding'
  <2>1. CASE doing' = Unblocked(ManagedFiles(managed, docs[doing.doc].name))
    <3>1. ManagedFiles(managed, docs[doing.doc].name) \in SUBSET DOMAIN docs
      BY <1>1, ManagedType
    <3> QED
      BY <1>1, <2>1, <3>1, InfosHandling DEF Unblocked, books
  <2>2. CASE Writes /\ doing' = [doing EXCEPT !.call = "changed", !.version = clock']
    <3>1. clock' \in Versions /\ clock' \in 1..clock'
      BY <1>2, <2>2, FileManagerAssumption DEF Writes, Written, Disk, Versions
    <3>2. doing.left = {}
      BY <1>1 DEF Handling
    <3> QED
      BY <1>1, <2>2, <3>1, <3>2 DEF Handling, Doing, Calls, AtRest, Adding, books
  <2> QED
    BY <2>1, <2>2 DEF WriteFile, NotOpened
<1>4. Books'
  BY <1>1, <1>2, <1>3 DEF Books, books
<1>5. Lists'
  BY <1>1 DEF Lists, Reloading, Waiting, books, calls
<1> QED
  BY <1>1, <1>2, <1>3, <1>4, <1>5 DEF ChangesLookedAt, calls

LEMMA CheckForNewFileNameInv ==
    ASSUME IInv, CheckForNewFileName
    PROVE  IInv'
<1> USE DEF IInv
<1> DEFINE d == doing.doc
           shown == [name |-> doing.name, version |-> doing.version, edited |-> FALSE]
<1>1. /\ UNCHANGED <<files, calls, dialogs>>
      /\ doing \in Doing /\ d \in DOMAIN docs /\ ~AtRest /\ ~Adding
      /\ doing.name \in Names /\ doing.version \in 1..clock
      /\ DOMAIN managed = DOMAIN docs
      /\ docs' = [docs EXCEPT ![d] = shown]
      /\ managed' = [managed EXCEPT ![d].name = doing.name]
      /\ doing' = Unblocked(ManagedFiles(managed', doing.name))
  BY DEF CheckForNewFileName, Handling, AtRest, Adding, Books
<1>2. clock \in Nat
  BY FileManagerAssumption DEF Disk, Versions
<1>3. shown \in [name : Paths, version : 0..clock, edited : BOOLEAN]
  BY <1>1, <1>2 DEF Paths
<1> HIDE DEF shown
<1>4. /\ docs' \in [DOMAIN docs -> [name : Paths, version : 0..clock, edited : BOOLEAN]]
      /\ managed' \in [DOMAIN docs -> [name : Paths, modified : Nat]]
      /\ \A e \in DOMAIN docs : managed'[e].name = IF e = d THEN doing.name ELSE managed[e].name
      /\ \A e \in DOMAIN docs : docs'[e] = IF e = d THEN shown ELSE docs[e]
  BY <1>1, <1>3 DEF Books, Paths
<1>5. shown.name = doing.name
  BY DEF shown
<1>6. Handling' /\ ~Adding'
  <2>1. ManagedFiles(managed', doing.name) \in SUBSET DOMAIN docs
    BY <1>4 DEF ManagedFiles
  <2> QED
    BY <1>1, <1>4, <2>1, InfosHandling DEF Unblocked
<1>7. Books'
  BY <1>1, <1>4, <1>5, <1>6 DEF Books, files
<1>8. watched' \subseteq Names
  <2>1. RemoveWatch(watched, managed', docs[d].name) \subseteq Names
    BY DEF RemoveWatch, Disk
  <2> QED
    BY <1>1, <2>1 DEF CheckForNewFileName, AddWatch, AddPath, Disk
<1>9. Disk'
  BY <1>1, <1>8 DEF Disk, files
<1>10. Lists'
  <2>1. reload' \in Reloading'
    BY <1>1, <1>4 DEF Lists, Reloading, calls
  <2>2. \A e \in Waiting' : docs'[e].name \in Names
    BY <1>1, <1>4, <1>5 DEF Lists, Waiting, calls, Reloading
  <2> QED
    BY <1>1, <1>4, <2>1, <2>2 DEF Lists, calls, dialogs
<1> QED
  BY <1>1, <1>6, <1>7, <1>9, <1>10 DEF ChangesLookedAt, calls

-----------------------------------------------------------------------------
(* The editors. *)

LEMMA OpenEditorInv ==
    ASSUME IInv, NEW d \in Documents, NEW name \in Names, OpenEditor(d, name)
    PROVE  IInv'
<1> USE DEF IInv
<1> DEFINE shown == [name |-> name, version |-> disk[name], edited |-> FALSE]
<1>1. /\ UNCHANGED <<files, managed, watched, calls, dialogs>>
      /\ d \notin DOMAIN docs /\ docs' = Enter(docs, d, shown)
      /\ AtRest /\ ~Adding /\ DOMAIN managed = DOMAIN docs
  BY DEF OpenEditor, User, Idle, Books, Adding, AtRest
<1>2. shown \in [name : Paths, version : 0..clock, edited : BOOLEAN]
  BY DEF Disk, Paths
<1> HIDE DEF shown
<1>3. /\ docs' \in [DOMAIN docs \cup {d} ->
                       [name : Paths, version : 0..clock, edited : BOOLEAN]]
      /\ \A e \in DOMAIN docs : docs'[e] = docs[e]
  BY <1>1, <1>2 DEF Books, Enter
<1>4. Disk'
  BY <1>1 DEF Disk, files
<1>5. doing' = [call |-> "add", doc |-> d, name |-> Untitled, version |-> Absent,
                left |-> {}, after |-> "none"]
  BY DEF OpenEditor, NotDoing
<1>6. Handling' /\ Adding'
  BY <1>3, <1>5, FileManagerAssumption
     DEF Handling, Doing, Calls, AtRest, Adding, Versions, Absent
<1>7. Books'
  BY <1>1, <1>3, <1>5, <1>6 DEF Books, files
<1>8. Lists'
  BY <1>1, <1>3 DEF Lists, Reloading, Waiting, calls, dialogs
<1> QED
  BY <1>1, <1>4, <1>6, <1>7, <1>8 DEF ChangesLookedAt, calls

LEMMA NewFileInv ==
    ASSUME IInv, NEW d \in Documents, NewFile(d)
    PROVE  IInv'
<1> USE DEF IInv
<1> DEFINE shown == [name |-> Untitled, version |-> Absent, edited |-> TRUE]
           info == FileInfo(Untitled)
<1>1. /\ UNCHANGED <<files, watched, calls, dialogs, doing>>
      /\ d \notin DOMAIN docs
      /\ docs' = Enter(docs, d, shown) /\ managed' = Enter(managed, d, info)
      /\ AtRest /\ ~Adding /\ ~Adding' /\ DOMAIN managed = DOMAIN docs
  BY DEF NewFile, User, Idle, Books, Adding, AtRest
<1>2. /\ shown \in [name : Paths, version : 0..clock, edited : BOOLEAN]
      /\ info \in [name : Paths, modified : Nat] /\ info.name = shown.name
  BY FileInfoType, FileManagerAssumption DEF Disk, Paths, Absent, Versions
<1> HIDE DEF shown, info
<1>3. /\ docs' \in [DOMAIN docs \cup {d} ->
                       [name : Paths, version : 0..clock, edited : BOOLEAN]]
      /\ managed' \in [DOMAIN docs \cup {d} -> [name : Paths, modified : Nat]]
      /\ docs'[d] = shown /\ managed'[d] = info
      /\ \A e \in DOMAIN docs : docs'[e] = docs[e] /\ managed'[e] = managed[e]
  BY <1>1, <1>2 DEF Books, Enter
<1>4. Disk'
  BY <1>1 DEF Disk, files
<1>5. Handling'
  BY <1>1, RestHandling
<1>6. Books'
  BY <1>1, <1>2, <1>3 DEF Books, files
<1>7. Lists'
  BY <1>1, <1>3 DEF Lists, Reloading, Waiting, calls, dialogs
<1> QED
  BY <1>1, <1>4, <1>5, <1>6, <1>7 DEF ChangesLookedAt, calls

LEMMA EditInv ==
    ASSUME IInv, NEW d \in Documents, Edit(d)
    PROVE  IInv'
<1> USE DEF IInv
<1>1. /\ docs \in [DOMAIN docs -> [name : Paths, version : 0..clock, edited : BOOLEAN]]
      /\ d \in DOMAIN docs /\ docs' = [docs EXCEPT ![d].edited = TRUE]
      /\ UNCHANGED <<files, managed, watched, calls, dialogs, doing>>
  BY DEF Books, Edit
<1>2. /\ DOMAIN docs' = DOMAIN docs
      /\ docs' \in [DOMAIN docs -> [name : Paths, version : 0..clock, edited : BOOLEAN]]
      /\ \A e \in DOMAIN docs : docs'[e].name = docs[e].name
  BY <1>1
<1>3. Disk' /\ clock \in Nat
  BY <1>1, FileManagerAssumption DEF Disk, files, Versions
<1>4. Books' /\ Handling'
  BY <1>1, <1>2, <1>3, SameHandling DEF Books, files, Adding
<1>5. Lists' /\ ChangesLookedAt'
  BY <1>1, <1>2 DEF Books, Lists, Reloading, Waiting, ChangesLookedAt, calls, dialogs
<1> QED
  BY <1>3, <1>4, <1>5

(* Documents that leave, while nobody is asked.                            *)
LEMMA CloseInv ==
    ASSUME IInv, ~Adding, ~Adding', NEW gone \in SUBSET DOMAIN docs, Close(gone), ~reload.blocked,
           UNCHANGED <<reload, posted, active, clock>>,
           saving' \cup closing' \subseteq DOMAIN docs \ gone,
           saving' # {} => ~active
    PROVE  Books' /\ Lists' /\ DOMAIN docs' = DOMAIN docs \ gone
           /\ \A e \in DOMAIN docs' : docs'[e] = docs[e] /\ managed'[e] = managed[e]
<1> USE DEF IInv
<1> DEFINE rest == DOMAIN docs \ gone
<1>1. /\ DOMAIN docs' = rest /\ DOMAIN managed' = rest /\ DOMAIN managed = DOMAIN docs
      /\ \A e \in rest : docs'[e] = docs[e] /\ managed'[e] = managed[e]
      /\ docs' \in [rest -> [name : Paths, version : 0..clock, edited : BOOLEAN]]
      /\ managed' \in [rest -> [name : Paths, modified : Nat]]
  BY DEF Close, Without, Restrict, Books
<1>2. Books'
  BY <1>1 DEF Books, Close
<1>3. reload.todo = {} /\ reload.asking = None
  BY DEF Lists
<1>4. reload' \in Reloading'
  BY <1>1, <1>3 DEF Lists, Reloading
<1>5. Waiting' = changed' /\ changed' \subseteq changed \cap rest /\ changed \subseteq Waiting
  BY <1>1, <1>3 DEF Waiting, Close, Lists
<1>6. Lists'
  BY <1>1, <1>3, <1>4, <1>5 DEF Lists
<1> QED
  BY <1>1, <1>2, <1>6

LEMMA Removed ==
    ASSUME NEW w, NEW m, NEW gone, w \subseteq Names
    PROVE  RemoveFiles(w, m, gone) \subseteq w
  BY DEF RemoveFiles

LEMMA SaveHandling ==
    ASSUME NEW d \in DOMAIN docs', NEW name \in Names, Save(d, name)
    PROVE  Handling' /\ ~Adding'
<1>1. doing' = [call |-> "write", doc |-> d, name |-> name, version |-> Absent,
                left |-> {}, after |-> "none"]
  BY DEF Save, NotDoing
<1> QED
  BY <1>1, FileManagerAssumption DEF Handling, Doing, Calls, AtRest, Adding, Versions, Absent

LEMMA SaveFileInv ==
    ASSUME IInv, NEW d \in Documents, NEW name \in Names, SaveFile(d, name)
    PROVE  IInv'
<1> USE DEF IInv
<1>1. PICK others \in SUBSET {e \in DOMAIN docs \ {d} : docs[e].name = name} :
          /\ Close(others)
          /\ watched' = RemoveFiles(watched, managed, others) \ {docs[d].name}
  BY DEF SaveFile
<1>2. /\ UNCHANGED <<disk, clock, notices, posted, reload, active, dialogs>>
      /\ AtRest /\ ~Adding /\ ~reload.blocked /\ saving = {} /\ closing = {}
      /\ d \in DOMAIN docs /\ Save(d, name) /\ others \in SUBSET DOMAIN docs
  BY DEF SaveFile, User, Idle, AtRest, Adding
<1>3. ~Adding'
  BY <1>2 DEF Save, NotDoing, Adding
<1>4. Books' /\ Lists' /\ DOMAIN docs' = DOMAIN docs \ others
  BY <1>1, <1>2, <1>3, CloseInv DEF dialogs
<1>5. Handling'
  BY <1>1, <1>2, <1>4, SaveHandling
<1>6. Disk'
  BY <1>1, <1>2, Removed DEF Disk
<1>7. ChangesLookedAt'
  BY <1>1, <1>2 DEF ChangesLookedAt, Close
<1> QED
  BY <1>4, <1>5, <1>6, <1>7

LEMMA SaveModifiedFilesInv ==
    ASSUME IInv, NEW chosen \in SUBSET DOMAIN docs, NEW editors \in SUBSET DOMAIN docs,
           SaveModifiedFiles(chosen, editors)
    PROVE  IInv'
<1> USE DEF IInv
<1>1. Disk' /\ Books' /\ Handling'
  BY SameFiles DEF SaveModifiedFiles
<1>2. DOMAIN managed = DOMAIN docs
  BY DEF SaveModifiedFiles, User, Idle, AtRest, Adding, Books
<1>3. Lists'
  BY <1>2 DEF SaveModifiedFiles, User, Idle, Lists, Reloading, Waiting, books
<1>4. ChangesLookedAt'
  BY DEF SaveModifiedFiles, User, Idle, ChangesLookedAt
<1> QED
  BY <1>1, <1>3, <1>4

LEMMA SaveNextInv ==
    ASSUME IInv, NEW d \in Documents, SaveNext(d)
    PROVE  IInv'
<1> USE DEF IInv
<1>1. /\ d \in DOMAIN managed /\ saving # {} /\ ~reload.blocked
      /\ saving' \subseteq saving /\ closing' \subseteq closing
      /\ active' \in BOOLEAN /\ (saving' # {} => ~active')
      /\ posted' \in BOOLEAN /\ (active' => posted')
      /\ UNCHANGED <<files, docs, managed, changed, reload>>
      /\ AtRest /\ ~Adding /\ watched' \subseteq watched
      /\ UNCHANGED doing \/ \E name \in Names : Save(d, name)
  BY DEF SaveNext, Lists, AtRest, Adding
<1>2. Disk' /\ d \in DOMAIN docs
  BY <1>1 DEF Disk, files, Books
<1>3. Handling' /\ ~Adding'
  <2>1. CASE UNCHANGED doing
    BY <1>1, <2>1, RestHandling DEF Adding
  <2>2. ASSUME NEW name \in Names, Save(d, name) PROVE Handling' /\ ~Adding'
    BY <1>1, <1>2, <2>2, SaveHandling
  <2> QED
    BY <1>1, <2>1, <2>2
<1>4. Books'
  BY <1>1, <1>3 DEF Books, files
<1>5. Lists'
  BY <1>1 DEF Lists, Reloading, Waiting
<1> QED
  BY <1>1, <1>2, <1>3, <1>4, <1>5 DEF ChangesLookedAt

LEMMA CloseEditorsInv ==
    ASSUME IInv, CloseEditors
    PROVE  IInv'
<1> USE DEF IInv
<1>1. /\ closing \in SUBSET DOMAIN docs /\ ~reload.blocked /\ ~Adding /\ ~Adding'
      /\ AtRest
      /\ UNCHANGED <<disk, clock, notices, posted, reload, active, saving, doing>>
      /\ saving' = {} /\ closing' = {}
  BY DEF CloseEditors, Lists, AtRest, Adding, Books
<1>2. Close(closing)
  BY DEF CloseEditors
<1>3. Books' /\ Lists'
  BY <1>1, <1>2, CloseInv
<1>4. Handling'
  BY <1>1, RestHandling
<1>5. Disk'
  BY <1>1, Removed DEF CloseEditors, Disk
<1>6. ChangesLookedAt'
  BY <1>1, <1>2 DEF ChangesLookedAt, Close
<1> QED
  BY <1>3, <1>4, <1>5, <1>6

LEMMA NextInv == IInv /\ [Next]_vars => IInv'
<1> SUFFICES ASSUME IInv, [Next]_vars PROVE IInv'
  OBVIOUS
<1>1. CASE OtherPrograms
  BY <1>1, OtherProgramsInv
<1>2. CASE EventLoop
  <2>1. ASSUME NEW notice \in notices, ChangedFile(notice) PROVE IInv'
    BY <2>1, ChangedFileInv
  <2>2. CASE MainWindowActivated \/ Deactivate
    BY <2>2, WindowInv
  <2>3. CASE CheckForReload \/ EndReload
    BY <2>3, CheckForReloadInv, EndReloadInv
  <2>4. ASSUME NEW d \in reload.todo, NextFile(d) PROVE IInv'
    BY <2>4, NextFileInv
  <2>5. ASSUME NEW yes \in BOOLEAN, NEW forAll \in BOOLEAN, Answer(yes, forAll) PROVE IInv'
    BY <2>5, AnswerInv
  <2> QED
    BY <1>2, <2>1, <2>2, <2>3, <2>4, <2>5 DEF EventLoop
<1>3. CASE Handler
  BY <1>3, UpdateFileInfoInv, WatchesInv, WriteFileInv, CheckForNewFileNameInv DEF Handler
<1>4. CASE Editors
  <2>1. ASSUME NEW d \in Documents, NewFile(d) \/ Edit(d) \/ SaveNext(d) PROVE IInv'
    BY <2>1, NewFileInv, EditInv, SaveNextInv
  <2>2. ASSUME NEW d \in Documents, NEW name \in Names,
               OpenEditor(d, name) \/ SaveFile(d, name)
        PROVE  IInv'
    BY <2>2, OpenEditorInv, SaveFileInv
  <2>3. ASSUME NEW chosen \in SUBSET DOMAIN docs, NEW editors \in SUBSET DOMAIN docs,
               SaveModifiedFiles(chosen, editors)
        PROVE  IInv'
    BY <2>3, SaveModifiedFilesInv
  <2>4. CASE CloseEditors
    BY <2>4, CloseEditorsInv
  <2> QED
    BY <1>4, <2>1, <2>2, <2>3, <2>4 DEF Editors
<1>5. CASE UNCHANGED vars
  BY <1>5, SameFiles, SameLists DEF IInv, vars, books
<1> QED
  BY <1>1, <1>2, <1>3, <1>4, <1>5 DEF Next

LEMMA Invariant == Spec => []IInv
  BY InitInv, NextInv, PTL DEF Spec

-----------------------------------------------------------------------------
(* The watches. *)

LEMMA NextWatches == IInv /\ WatchesOfDocuments /\ [Next]_vars => WatchesOfDocuments'
<1> SUFFICES ASSUME IInv, WatchesOfDocuments, [Next]_vars PROVE WatchesOfDocuments'
  OBVIOUS
<1> USE DEF IInv
<1>1. ASSUME watched' \subseteq watched, DOMAIN docs \subseteq DOMAIN docs',
             \A e \in DOMAIN docs : docs'[e].name = docs[e].name
      PROVE  WatchesOfDocuments'
  BY <1>1 DEF WatchesOfDocuments
<1>2. CASE OtherPrograms \/ UNCHANGED vars
  <2>1. UNCHANGED docs /\ watched' \subseteq watched
    BY <1>2 DEF OtherPrograms, Write, Replace, Delete, Unlink, books, vars
  <2> QED
    BY <1>1, <2>1
<1>3. CASE EventLoop
  <2>1. ASSUME NEW d, Reload(d) \/ UNCHANGED docs
        PROVE  DOMAIN docs' = DOMAIN docs /\ \A e \in DOMAIN docs : docs'[e].name = docs[e].name
    BY <2>1 DEF Reload, Books
  <2>2. UNCHANGED watched /\ (UNCHANGED docs \/ \E d : Reload(d))
    BY <1>3 DEF EventLoop, ChangedFile, MainWindowActivated, Deactivate, CheckForReload,
                EndReload, NextFile, Answer, books
  <2> QED
    BY <1>1, <2>1, <2>2
<1>4. CASE Handler
  <2>1. CASE (\E d \in doing.left : UpdateFileInfo(d)) \/ RemovePath \/ WriteFile
    BY <1>1, <2>1 DEF UpdateFileInfo, RemovePath, WriteFile, books
  <2>2. CASE AddPathAgain \/ AddFile
    <3>1. doing.doc \in DOMAIN docs
      BY <2>2 DEF AddPathAgain, AddFile, Handling, AtRest
    <3>2. UNCHANGED docs /\ watched' \subseteq watched \cup {docs[doing.doc].name}
      BY <2>2 DEF AddPathAgain, AddFile, AddWatch, AddPath
    <3> QED
      BY <3>1, <3>2 DEF WatchesOfDocuments
  <2>3. CASE CheckForNewFileName
    <3> DEFINE d == doing.doc
               old == docs[d].name
               kept == RemoveWatch(watched, managed', old)
    <3>1. /\ d \in DOMAIN docs /\ d \in DOMAIN managed /\ DOMAIN managed = DOMAIN docs
          /\ docs' = [docs EXCEPT ![d] =
                [name |-> doing.name, version |-> doing.version, edited |-> FALSE]]
          /\ managed' = [managed EXCEPT ![d].name = doing.name]
      BY <2>3 DEF CheckForNewFileName, Handling, AtRest, Adding, Books
    <3>7. \/ watched' \subseteq kept \cup {doing.name}
          \/ watched' = watched /\ doing.name = old
      BY <2>3 DEF CheckForNewFileName, AddWatch, AddPath
    <3>8. old \in watched => old # Untitled
      BY FileManagerAssumption DEF Disk
    <3>2. /\ DOMAIN docs' = DOMAIN docs /\ docs'[d].name = doing.name
          /\ \A e \in DOMAIN docs : e # d => docs'[e] = docs[e] /\ managed'[e] = managed[e]
          /\ managed'[d].name = doing.name
      BY <3>1 DEF Books
    <3>3. ASSUME NEW n \in watched, n # old
          PROVE  \E e \in DOMAIN docs' : docs'[e].name = n
      <4>1. PICK e \in DOMAIN docs : docs[e].name = n
        BY <3>3 DEF WatchesOfDocuments
      <4> QED
        BY <3>2, <3>3, <4>1
    <3>4. ASSUME old \in kept PROVE \E e \in DOMAIN docs' : docs'[e].name = old
      <4>1. old \in watched /\ ManagedFiles(managed', old) # {}
        BY <3>4 DEF RemoveWatch
      <4>2. PICK e \in DOMAIN managed' : managed'[e].name = old
        BY <3>1, <3>8, <4>1 DEF ManagedFiles
      <4>3. e \in DOMAIN docs /\ (e # d => docs'[e].name = old)
        BY <3>1, <3>2, <4>2 DEF Books
      <4> QED
        BY <3>2, <4>2, <4>3
    <3>5. kept \subseteq watched
      BY DEF RemoveWatch
    <3> HIDE DEF d, old, kept
    <3>6. \A n \in watched' : \E e \in DOMAIN docs' : docs'[e].name = n
      BY <3>1, <3>2, <3>3, <3>4, <3>5, <3>7 DEF d
    <3> QED
      BY <3>6 DEF WatchesOfDocuments
  <2> QED
    BY <1>4, <2>1, <2>2, <2>3 DEF Handler
<1>5. CASE Editors
  <2>1. ASSUME NEW gone \in SUBSET DOMAIN docs, Close(gone), AtRest, ~reload.blocked,
               watched' \subseteq RemoveFiles(watched, managed, gone)
        PROVE  WatchesOfDocuments'
    <3>1. /\ DOMAIN managed = DOMAIN docs
          /\ DOMAIN docs' = DOMAIN docs \ gone
          /\ \A e \in DOMAIN docs' : docs'[e] = docs[e]
          /\ DOMAIN Without(managed, gone) = DOMAIN docs \ gone
          /\ \A e \in DOMAIN docs' : Without(managed, gone)[e] = managed[e]
      BY <2>1 DEF Close, Without, Restrict, Books, Adding, AtRest
    <3>2. ASSUME NEW n \in watched'
          PROVE  \E e \in DOMAIN docs' : docs'[e].name = n
      <4>1. n \in RemoveFiles(watched, managed, gone) /\ n \in watched /\ n # Untitled
        BY <2>1, <3>2, FileManagerAssumption DEF RemoveFiles, Disk
      <4>2. PICK e \in DOMAIN docs : docs[e].name = n
        BY <4>1 DEF WatchesOfDocuments
      <4>3. CASE e \in gone
        <5>1. managed[e].name = n
          BY <3>1, <4>2 DEF Books
        <5>2. ManagedFiles(Without(managed, gone), n) # {}
          BY <4>1, <4>3, <5>1 DEF RemoveFiles
        <5>3. PICK f \in DOMAIN docs' : managed[f].name = n
          BY <3>1, <4>1, <5>2 DEF ManagedFiles
        <5> QED
          BY <3>1, <5>3 DEF Books
      <4> QED
        BY <3>1, <4>2, <4>3
    <3> QED
      BY <3>2 DEF WatchesOfDocuments
  <2>2. CASE CloseEditors
    <3>1. closing \in SUBSET DOMAIN docs /\ ~reload.blocked /\ AtRest
      BY <2>2 DEF CloseEditors, Lists, Books
    <3> QED
      BY <2>1, <2>2, <3>1 DEF CloseEditors
  <2>3. ASSUME NEW d \in Documents, NEW name \in Names, SaveFile(d, name)
        PROVE  WatchesOfDocuments'
    BY <2>1, <2>3 DEF SaveFile, User, Idle
  <2>4. ASSUME NEW d \in Documents, SaveNext(d) \/ Edit(d)
        PROVE  WatchesOfDocuments'
    <3>1. CASE SaveNext(d)
      BY <1>1, <3>1 DEF SaveNext
    <3>2. CASE Edit(d)
      <4>1. docs' = [docs EXCEPT ![d].edited = TRUE] /\ UNCHANGED watched
        BY <3>2 DEF Edit
      <4>2. /\ DOMAIN docs' = DOMAIN docs
            /\ \A e \in DOMAIN docs : docs'[e].name = docs[e].name
        BY <4>1 DEF Books
      <4> QED
        BY <1>1, <4>1, <4>2
    <3> QED
      BY <2>4, <3>1, <3>2
  <2>5. ASSUME NEW d \in Documents, NewFile(d) \/ \E name \in Names : OpenEditor(d, name)
        PROVE  WatchesOfDocuments'
    <3>1. /\ DOMAIN docs \subseteq DOMAIN docs' /\ UNCHANGED watched
          /\ \A e \in DOMAIN docs : docs'[e].name = docs[e].name
      BY <2>5 DEF NewFile, OpenEditor, Enter
    <3> QED
      BY <1>1, <3>1
  <2>6. ASSUME NEW chosen, NEW editors, SaveModifiedFiles(chosen, editors)
        PROVE  WatchesOfDocuments'
    BY <1>1, <2>6 DEF SaveModifiedFiles, books
  <2> QED
    BY <1>5, <2>2, <2>3, <2>4, <2>5, <2>6 DEF Editors
<1> QED
  BY <1>2, <1>3, <1>4, <1>5 DEF Next

(* Closing, renaming, saving and reloading leave no watch on a path that   *)
(* no open document is on.                                                 *)
THEOREM WatchesKept == Spec => []WatchesOfDocuments
<1>1. Init => WatchesOfDocuments
  BY DEF Init, WatchesOfDocuments
<1> QED
  BY <1>1, NextWatches, Invariant, PTL DEF Spec

-----------------------------------------------------------------------------
(* The time stamps: of a document that shows what is on disk the stamp is  *)
(* right, unless it is about to be taken.                                  *)

Stamped(d) == managed[d].modified = LastModified[disk[docs[d].name]]

StampRight(d) ==
    docs[d].name \in Names =>
        /\ docs[d].version # Absent
        /\ d \in DOMAIN managed \ doing.left /\ docs[d].version = disk[docs[d].name]
               => Stamped(d)

StampsRight == \A d \in DOMAIN docs : StampRight(d)

(* Another version on disk is one that no document has.                    *)
LEMMA StampAfterWriting ==
    ASSUME IInv, StampsRight, UNCHANGED <<docs, managed>>, doing.left \subseteq doing'.left,
           \A n \in Names : disk'[n] \in {disk[n], Absent, clock + 1}
    PROVE  StampsRight'
<1>1. \A d \in DOMAIN docs : docs[d].version # clock + 1
  BY FileManagerAssumption DEF IInv, Books, Disk, Versions
<1> QED
  BY <1>1 DEF StampsRight, StampRight, Stamped

LEMMA NextStamps == IInv /\ StampsRight /\ [Next]_vars => StampsRight'
<1> SUFFICES ASSUME IInv, StampsRight, [Next]_vars PROVE StampsRight'
  OBVIOUS
<1> USE DEF IInv
<1>1. AtRest => doing.left = {}
  BY DEF Handling, AtRest
<1>2. CASE OtherPrograms
  <2>1. PICK name \in Names : Write(name) \/ Replace(name) \/ Delete(name)
    BY <1>2 DEF OtherPrograms
  <2>2. UNCHANGED <<docs, managed, doing>>
    BY <2>1 DEF Write, Replace, Delete, Unlink, books
  <2>3. disk' = [disk EXCEPT ![name] = clock + 1] \/ disk' = [disk EXCEPT ![name] = Absent]
    BY <2>1 DEF Write, Replace, Delete, Written
  <2>4. \A n \in Names : disk'[n] \in {disk[n], Absent, clock + 1}
    BY <2>3 DEF Disk
  <2> QED
    BY <2>2, <2>4, StampAfterWriting
<1>3. ASSUME NEW d \in DOMAIN docs, docs[d].name \in Names, AtRest,
             Reload(d) \/ UNCHANGED docs, Checked(d),
             UNCHANGED <<disk, managed>>
      PROVE  StampsRight'
  <2>1. doing'.left = {d}
    BY <1>3 DEF Checked, NotDoing
  <2>2. \A e \in DOMAIN docs : e # d => docs'[e] = docs[e]
    BY <1>3 DEF Reload, Books
  <2>3. docs'[d].name = docs[d].name /\ docs'[d].version # Absent /\ DOMAIN docs' = DOMAIN docs
    BY <1>3 DEF Reload, Books, StampsRight, StampRight
  <2>4. StampRight(d)'
    BY <2>1, <2>3 DEF StampRight
  <2>5. ASSUME NEW e \in DOMAIN docs, e # d PROVE StampRight(e)'
    BY <1>1, <1>3, <2>2, <2>5 DEF StampsRight, StampRight, Stamped
  <2> QED
    BY <2>3, <2>4, <2>5 DEF StampsRight
<1>4. ASSUME UNCHANGED <<docs, managed, disk>>, doing.left \subseteq doing'.left
      PROVE  StampsRight'
  BY <1>4 DEF StampsRight, StampRight, Stamped
<1>5. CASE EventLoop
  <2>1. ASSUME NEW d \in reload.todo, NextFile(d) PROVE StampsRight'
    <3>1. d \in DOMAIN docs /\ docs[d].name \in Names
      BY DEF Lists, Reloading, Waiting, Books
    <3>2. CASE UNCHANGED <<docs, doing>>
      BY <1>4, <2>1, <3>2 DEF NextFile, files
    <3>3. CASE (Reload(d) \/ UNCHANGED docs) /\ Checked(d)
      BY <1>3, <2>1, <3>1, <3>3 DEF NextFile, files
    <3> QED
      BY <2>1, <3>2, <3>3 DEF NextFile
  <2>2. ASSUME NEW yes \in BOOLEAN, NEW forAll \in BOOLEAN, Answer(yes, forAll)
        PROVE  StampsRight'
    <3>1. reload.asking \in DOMAIN docs /\ docs[reload.asking].name \in Names
      BY <2>2 DEF Answer, Lists, Reloading, Waiting, Books
    <3> QED
      BY <1>3, <2>2, <3>1 DEF Answer, files
  <2>3. CASE UNCHANGED <<docs, managed, disk, doing>>
    BY <1>4, <2>3
  <2> QED
    BY <1>5, <2>1, <2>2, <2>3
       DEF EventLoop, ChangedFile, MainWindowActivated, Deactivate, CheckForReload,
           EndReload, files, books
<1>6. CASE Handler
  <2>1. ASSUME NEW d \in doing.left, UpdateFileInfo(d) PROVE StampsRight'
    <3>1. /\ UNCHANGED <<docs, disk>> /\ doing'.left = doing.left \ {d} /\ d \in DOMAIN docs
          /\ managed' = Enter(managed, d, FileInfo(docs[d].name))
      BY <2>1 DEF UpdateFileInfo, Infos, NotDoing, Handling, Doing
    <3>2. /\ managed'[d] = FileInfo(docs[d].name)
          /\ DOMAIN managed' = DOMAIN managed \cup {d}
          /\ \A e \in DOMAIN managed : e # d => managed'[e] = managed[e]
      BY <3>1 DEF Enter
    <3>3. docs[d].name \in Names => Stamped(d)'
      BY <3>1, <3>2, FileManagerAssumption DEF Stamped, FileInfo
    <3>4. StampRight(d)'
      BY <3>1, <3>3 DEF StampsRight, StampRight
    <3>5. ASSUME NEW e \in DOMAIN docs, e # d PROVE StampRight(e)'
      BY <3>1, <3>2, <3>5 DEF StampsRight, StampRight, Stamped
    <3> QED
      BY <3>1, <3>4, <3>5 DEF StampsRight
  <2>2. CASE RemovePath \/ AddPathAgain \/ AddFile
    <3>1. UNCHANGED <<docs, managed, disk>> /\ doing.left = {}
      BY <2>2 DEF RemovePath, AddPathAgain, AddFile, files, Handling
    <3> QED
      BY <1>4, <3>1
  <2>3. CASE WriteFile
    <3>1. doing.left = {} /\ doing.name \in Names /\ UNCHANGED <<docs, managed>>
      BY <2>3 DEF WriteFile, Handling, books
    <3>2. UNCHANGED disk \/ disk' = [disk EXCEPT ![doing.name] = clock + 1]
      BY <2>3 DEF WriteFile, NotOpened, Writes, Written, files
    <3>3. \A n \in Names : disk'[n] \in {disk[n], Absent, clock + 1}
      BY <3>2 DEF Disk
    <3> QED
      BY <3>1, <3>3, StampAfterWriting
  <2>4. CASE CheckForNewFileName
    <3>0. PICK d : d = doing.doc
      OBVIOUS
    <3>1. /\ d \in DOMAIN docs /\ doing.left = {} /\ doing.version \in 1..clock /\ UNCHANGED disk
          /\ doing.name \in Names /\ DOMAIN managed = DOMAIN docs
          /\ docs' = [docs EXCEPT ![d] =
                [name |-> doing.name, version |-> doing.version, edited |-> FALSE]]
          /\ managed' = [managed EXCEPT ![d].name = doing.name]
          /\ doing' = Infos(ManagedFiles(managed', doing.name), "watch")
      BY <2>4, <3>0 DEF CheckForNewFileName, Handling, AtRest, Adding, Books, files, Unblocked
    <3>2. /\ DOMAIN docs' = DOMAIN docs
          /\ \A e \in DOMAIN docs : e # d => docs'[e] = docs[e] /\ managed'[e] = managed[e]
          /\ docs'[d].version = doing.version /\ docs'[d].name = doing.name
          /\ managed'[d].name = doing.name /\ d \in DOMAIN managed'
      BY <3>1 DEF Books
    <3>3. d \in doing'.left
      <4>1. d \in ManagedFiles(managed', doing.name)
        BY <3>1, <3>2, FileManagerAssumption DEF ManagedFiles
      <4>2. ManagedFiles(managed', doing.name) # {}
        BY <4>1
      <4>3. doing' = [doing EXCEPT !.call = "info", !.after = "watch",
                                   !.left = ManagedFiles(managed', doing.name)]
        BY <3>1, <4>2 DEF Infos, Handling, Doing
      <4> QED
        BY <4>1, <4>3 DEF Handling, Doing
    <3>4. StampRight(d)'
      BY <3>1, <3>2, <3>3 DEF StampRight, Absent
    <3>5. ASSUME NEW e \in DOMAIN docs, e # d PROVE StampRight(e)'
      BY <3>1, <3>2, <3>5 DEF StampsRight, StampRight, Stamped
    <3> QED
      BY <3>2, <3>4, <3>5 DEF StampsRight
  <2> QED
    BY <1>6, <2>1, <2>2, <2>3, <2>4 DEF Handler
<1>7. CASE Editors
  <2>1. ASSUME NEW gone, Close(gone), AtRest, UNCHANGED disk
        PROVE  StampsRight'
    <3>1. /\ DOMAIN docs' = DOMAIN docs \ gone
          /\ \A e \in DOMAIN docs' : docs'[e] = docs[e]
          /\ DOMAIN managed' \subseteq DOMAIN managed
          /\ \A e \in DOMAIN managed' : managed'[e] = managed[e]
      BY <2>1 DEF Close, Without, Restrict
    <3> QED
      BY <1>1, <2>1, <3>1 DEF StampsRight, StampRight, Stamped
  <2>2. ASSUME NEW d \in Documents, NEW name \in Names, OpenEditor(d, name)
        PROVE  StampsRight'
    <3>1. /\ d \notin DOMAIN docs /\ DOMAIN managed = DOMAIN docs /\ UNCHANGED <<managed, disk>>
          /\ disk[name] # Absent /\ AtRest
          /\ docs' = Enter(docs, d, [name |-> name, version |-> disk[name], edited |-> FALSE])
      BY <2>2 DEF OpenEditor, User, Idle, AtRest, Adding, Books, files
    <3>2. /\ DOMAIN docs' = DOMAIN docs \cup {d} /\ docs'[d].version # Absent
          /\ \A e \in DOMAIN docs : docs'[e] = docs[e]
      BY <3>1 DEF Enter
    <3>3. d \notin DOMAIN managed /\ UNCHANGED managed
      BY <3>1
    <3>4. StampRight(d)'
      BY <3>2, <3>3 DEF StampRight
    <3>5. ASSUME NEW e \in DOMAIN docs PROVE StampRight(e)'
      BY <1>1, <3>1, <3>2, <3>5 DEF StampsRight, StampRight, Stamped
    <3> QED
      BY <3>2, <3>4, <3>5 DEF StampsRight
  <2>3. ASSUME NEW d \in Documents, NewFile(d)
        PROVE  StampsRight'
    <3>1. /\ UNCHANGED <<disk, doing>> /\ d \notin DOMAIN docs /\ DOMAIN managed = DOMAIN docs
          /\ docs' = Enter(docs, d, [name |-> Untitled, version |-> Absent, edited |-> TRUE])
          /\ managed' = Enter(managed, d, FileInfo(Untitled))
      BY <2>3 DEF NewFile, User, Idle, AtRest, Adding, files, Books
    <3>2. /\ DOMAIN docs' = DOMAIN docs \cup {d} /\ docs'[d].name = Untitled
          /\ \A e \in DOMAIN docs : docs'[e] = docs[e]
      BY <3>1 DEF Enter
    <3>3. /\ DOMAIN managed' = DOMAIN managed \cup {d}
          /\ \A e \in DOMAIN docs : managed'[e] = managed[e]
      BY <3>1 DEF Enter
    <3>4. StampRight(d)'
      BY <3>2, FileManagerAssumption DEF StampRight
    <3>5. ASSUME NEW e \in DOMAIN docs PROVE StampRight(e)'
      BY <3>1, <3>2, <3>3, <3>5 DEF StampsRight, StampRight, Stamped
    <3> QED
      BY <3>2, <3>4, <3>5 DEF StampsRight
  <2>4. ASSUME NEW d \in Documents, Edit(d)
        PROVE  StampsRight'
    <3>1. /\ UNCHANGED <<managed, disk, doing>> /\ docs' = [docs EXCEPT ![d].edited = TRUE]
      BY <2>4 DEF Edit, files
    <3>2. /\ DOMAIN docs' = DOMAIN docs
          /\ \A e \in DOMAIN docs : docs'[e].name = docs[e].name /\ docs'[e].version = docs[e].version
      BY <3>1 DEF Books
    <3> QED
      BY <3>1, <3>2 DEF StampsRight, StampRight, Stamped
  <2>5. ASSUME NEW d \in Documents, NEW name \in Names, SaveFile(d, name)
        PROVE  StampsRight'
    BY <2>1, <2>5 DEF SaveFile, User, Idle
  <2>6. ASSUME NEW d \in Documents, SaveNext(d)
        PROVE  StampsRight'
    BY <1>1, <1>4, <2>6 DEF SaveNext, files
  <2>7. CASE CloseEditors
    BY <2>1, <2>7 DEF CloseEditors
  <2>8. ASSUME NEW chosen, NEW editors, SaveModifiedFiles(chosen, editors)
        PROVE  StampsRight'
    BY <1>4, <2>8 DEF SaveModifiedFiles, books, files
  <2> QED
    BY <1>7, <2>2, <2>3, <2>4, <2>5, <2>6, <2>7, <2>8 DEF Editors
<1>8. CASE UNCHANGED vars
  BY <1>4, <1>8 DEF vars, books, files
<1> QED
  BY <1>2, <1>5, <1>6, <1>7, <1>8 DEF Next

LEMMA SpecStamps == Spec => []StampsRight
<1>1. Init => StampsRight
  BY DEF Init, StampsRight
<1> QED
  BY <1>1, NextStamps, Invariant, PTL DEF Spec

-----------------------------------------------------------------------------
(* The values that the variables take.                                     *)
THEOREM TypeCorrect == Spec => []FileManagerTypeOK
<1>1. IInv => FileManagerTypeOK
  <2> SUFFICES ASSUME IInv PROVE FileManagerTypeOK
    OBVIOUS
  <2> USE DEF IInv
  <2>1. clock \in Nat /\ 0..clock \subseteq Versions
    BY FileManagerAssumption DEF Disk, Versions
  <2>2. /\ disk \in [Names -> Versions] /\ clock \in Versions
        /\ watched \subseteq Names
        /\ notices \subseteq [name : Names, gone : BOOLEAN]
    BY <2>1 DEF Disk
  <2>3. docs \in [DOMAIN docs -> [name : Names \cup {Untitled}, version : Versions, edited : BOOLEAN]]
    <3>1. docs \in [DOMAIN docs -> [name : Paths, version : 0..clock, edited : BOOLEAN]]
      BY DEF Books
    <3> QED
      BY <2>1, <3>1 DEF Paths
  <2>4. /\ DOMAIN docs \subseteq Documents
        /\ DOMAIN managed \subseteq DOMAIN docs
        /\ AtRest => DOMAIN managed = DOMAIN docs
        /\ managed \in [DOMAIN managed -> [name : Names \cup {Untitled}, modified : Nat]]
        /\ \A d \in DOMAIN managed : managed[d].name = docs[d].name
        /\ untold \subseteq DOMAIN managed
    BY DEF Books, Paths, Adding, AtRest
  <2>5. /\ reload \in [blocked : BOOLEAN, todo : SUBSET DOMAIN managed,
                       asking : DOMAIN managed \cup {None}, behavior : Behaviors]
        /\ changed \cup saving \cup closing \subseteq DOMAIN managed
        /\ posted \in BOOLEAN /\ active \in BOOLEAN
    BY DEF Lists, Reloading
  <2> QED
    BY <2>2, <2>3, <2>4, <2>5 DEF FileManagerTypeOK, Handling
<1> QED
  BY <1>1, Invariant, PTL

(* Changes in m_changedFiles are looked at as soon as the main window is   *)
(* active and checkForReload() does not ask: no change is put aside by the *)
(* window being left, by dialogs or by a check that runs already.          *)
THEOREM NothingPutAside == Spec => []ChangesLookedAt
<1>1. IInv => ChangesLookedAt
  BY DEF IInv
<1> QED
  BY <1>1, Invariant, PTL

(* Who is asked whether to reload a document shows another version than    *)
(* the one on disk: never because of what the program saved itself.        *)
THEOREM AsksWithReason == Spec => AskedForReason
<1> DEFINE Asked == \A d \in DOMAIN docs :
               reload'.asking = d /\ reload.asking # d =>
                   disk[docs[d].name] # docs[d].version
<1>1. IInv /\ StampsRight /\ Next => Asked
  <2> SUFFICES ASSUME IInv, StampsRight, Next, NEW d \in DOMAIN docs,
                      reload'.asking = d, reload.asking # d
               PROVE  disk[docs[d].name] # docs[d].version
    OBVIOUS
  <2> USE DEF IInv
  <2>1. d # None
    BY FileManagerAssumption DEF Books
  <2>2. reload' # reload
    OBVIOUS
  <2>3. ~Begin(active)
    <3>1. [NoReload EXCEPT !.blocked = TRUE, !.todo = changed].asking = None
      BY DEF NoReload
    <3>2. NoReload.asking = None
      BY DEF NoReload
    <3> HIDE DEF NoReload
    <3> QED
      BY <2>1, <3>1, <3>2 DEF Begin
  <2>4. ~OtherPrograms /\ ~Handler /\ ~Editors
    <3>1. ~OtherPrograms /\ ~Handler
      BY <2>2 DEF OtherPrograms, Write, Replace, Delete, Unlink, Handler, UpdateFileInfo,
                  RemovePath, AddPathAgain, AddFile, WriteFile, CheckForNewFileName, calls
    <3>2. ~Editors
      BY <2>2 DEF Editors, NewFile, Edit, SaveNext, OpenEditor, SaveFile,
                  SaveModifiedFiles, CloseEditors, calls
    <3> QED
      BY <3>1, <3>2
  <2>5. PICK e \in reload.todo : NextFile(e)
    <3>1. ~(\E yes, forAll \in BOOLEAN : Answer(yes, forAll))
      BY <2>1 DEF Answer, Lists, Reloading
    <3> QED
      BY <2>2, <2>3, <2>4, <3>1 DEF Next, EventLoop, ChangedFile, MainWindowActivated,
                                    Deactivate, CheckForReload, EndReload
  <2>6. e = d /\ AtRest /\ ~SameFile(d)
    BY <2>1, <2>5 DEF NextFile, Lists, Reloading
  <2>7. docs[d].name \in Names /\ d \in DOMAIN managed /\ doing.left = {}
    BY <2>5, <2>6 DEF Lists, Reloading, Waiting, Handling, AtRest
  <2> QED
    BY <2>6, <2>7 DEF SameFile, StampsRight, StampRight, Stamped
<1>2. IInv /\ StampsRight /\ [Next]_vars => [Asked]_vars
  BY <1>1
<1> QED
  BY <1>2, Invariant, SpecStamps, PTL DEF Spec, AskedForReason

-----------------------------------------------------------------------------
(* What Noticed says of one document. *)

Noted(d) == managed[d].name = Untitled \/ Known(d) \/ WillBeKnown(d) \/ d \in untold

Listed(d) == d \in changed \cup reload.todo \cup {reload.asking} \cup doing.left

(* It stays so while the file, the time stamp and the lists do.            *)
LEMMA StaysNoted ==
    ASSUME NEW d, Noted(d), managed'[d] = managed[d],
           managed[d].name \in Names => disk'[managed[d].name] = disk[managed[d].name],
           notices \subseteq notices',
           Listed(d) => Listed(d)',
           doing.call = "changed" => doing' = doing,
           d \in untold => d \in untold'
    PROVE  Noted(d)'
  BY DEF Noted, Known, WillBeKnown, Listed

(* A version that is written by another program, or a file that is gone,   *)
(* is told by a signal if there is a watch.                                *)
LEMMA ToldOrUntold ==
    ASSUME NEW d \in DOMAIN managed, NEW name \in Names, managed'[d] = managed[d],
           managed[d].name = name, NEW gone \in BOOLEAN,
           Signals(name, gone) \subseteq notices', Untold(name) \subseteq untold'
    PROVE  Noted(d)'
<1>1. CASE name \in watched
  <2>1. [name |-> name, gone |-> gone] \in notices'
    BY <1>1 DEF Signals
  <2> QED
    BY <2>1 DEF Noted, WillBeKnown
<1>2. CASE name \notin watched
  BY <1>2, FileManagerAssumption DEF Untold, ManagedFiles, Noted
<1> QED
  BY <1>1, <1>2

(* What a step leaves as it is for every document.                         *)
LEMMA NoticedStays ==
    ASSUME IInv, Noticed, NEW ds, DOMAIN managed' \subseteq DOMAIN managed \cup ds,
           \A d \in DOMAIN managed' \ ds :
               /\ managed'[d] = managed[d]
               /\ managed[d].name \in Names => disk'[managed[d].name] = disk[managed[d].name]
               /\ Listed(d) => Listed(d)'
               /\ d \in untold => d \in untold'
           , notices \subseteq notices', doing.call = "changed" => doing' = doing,
           \A d \in ds : Noted(d)'
    PROVE  Noticed'
<1>1. ASSUME NEW d \in DOMAIN managed' PROVE Noted(d)'
  <2>1. CASE d \in ds
    BY <2>1
  <2>2. CASE d \notin ds
    <3>1. d \in DOMAIN managed /\ Noted(d)
      BY <1>1, <2>2 DEF Noticed, Noted
    <3> QED
      BY <1>1, <2>2, <3>1, StaysNoted
  <2> QED
    BY <2>1, <2>2
<1> QED
  BY <1>1 DEF Noticed, Noted

LEMMA OtherProgramsNoticed == IInv /\ Noticed /\ OtherPrograms => Noticed'
<1> SUFFICES ASSUME IInv, Noticed, NEW name \in Names,
                    Write(name) \/ Replace(name) \/ Delete(name)
             PROVE  Noticed'
  BY DEF OtherPrograms
<1> DEFINE ds == {d \in DOMAIN managed : managed[d].name = name}
<1>1. UNCHANGED <<managed, calls, doing>>
  BY DEF Write, Replace, Delete, Unlink, books
<1>2. /\ disk' = [disk EXCEPT ![name] = disk'[name]]
      /\ notices \subseteq notices' /\ untold' = untold \cup Untold(name)
      /\ \E gone \in BOOLEAN : Signals(name, gone) \subseteq notices'
  BY DEF Write, Replace, Delete, Unlink, Written, IInv, Disk
<1>3. \A d \in ds : Noted(d)'
  BY <1>1, <1>2, ToldOrUntold
<1>4. ASSUME NEW d \in DOMAIN managed' \ ds
      PROVE  /\ managed'[d] = managed[d]
             /\ managed[d].name \in Names => disk'[managed[d].name] = disk[managed[d].name]
             /\ Listed(d) => Listed(d)'
             /\ d \in untold => d \in untold'
  BY <1>1, <1>2, <1>4 DEF Listed, calls, IInv, Disk
<1> HIDE DEF ds
<1> QED
  BY <1>1, <1>2, <1>3, <1>4, NoticedStays

(* The lists of checkForReload(), when the files stay as they are.         *)
LEMMA ListsNoticed ==
    ASSUME IInv, Noticed, UNCHANGED <<disk, managed>>, notices \subseteq notices',
           untold \subseteq untold', doing.call = "changed" => doing' = doing,
           \A d \in DOMAIN managed : Listed(d) => Listed(d)' \/ Known(d)
    PROVE  Noticed'
<1> DEFINE ds == {d \in DOMAIN managed : Known(d)}
<1>1. \A d \in ds : Noted(d)'
  BY DEF Noted, Known
<1> QED
  BY <1>1, NoticedStays

LEMMA EventLoopNoticed == IInv /\ Noticed /\ EventLoop => Noticed'
<1> SUFFICES ASSUME IInv, Noticed, EventLoop PROVE Noticed'
  OBVIOUS
<1> USE DEF IInv
<1>1. ASSUME NEW notice \in notices, ChangedFile(notice) PROVE Noticed'
  <2> DEFINE ds == ManagedFiles(managed, notice.name)
  <2>1. /\ UNCHANGED <<disk, managed, reload, doing>> /\ changed \subseteq changed'
        /\ untold \subseteq untold' /\ notices' = notices \ {notice}
        /\ ds \subseteq changed' \/ ds \subseteq untold'
    BY <1>1 DEF ChangedFile, books
  <2>2. \A d \in ds : Noted(d)'
    BY <2>1 DEF Noted, WillBeKnown
  <2>3. ASSUME NEW d \in DOMAIN managed \ ds PROVE Noted(d)'
    <3>1. managed[d].name = Untitled \/ managed[d].name # notice.name
      BY <2>3 DEF ManagedFiles
    <3>2. Noted(d)
      BY DEF Noticed, Noted
    <3> QED
      BY <2>1, <3>1, <3>2 DEF Noted, Known, WillBeKnown
  <2> QED
    BY <2>1, <2>2, <2>3 DEF Noticed, Noted
<1>2. CASE MainWindowActivated \/ Deactivate
  BY <1>2, ListsNoticed DEF MainWindowActivated, Deactivate, files, books, Listed
<1>3. ASSUME Begin(active), reload.todo = {}, reload.asking = None,
             UNCHANGED <<files, managed, doing>>
      PROVE  Noticed'
  <2>1. None \notin DOMAIN managed
    BY FileManagerAssumption DEF Books
  <2>2. UNCHANGED changed \/ changed \subseteq reload'.todo
    BY <1>3 DEF Begin, NoReload
  <2> QED
    BY <1>3, <2>1, <2>2, ListsNoticed DEF Listed, files
<1>4. CASE CheckForReload
  <2>1. UNCHANGED <<files, managed, doing>>
    BY <1>4 DEF CheckForReload, books
  <2>2. CASE reload.blocked
    BY <1>4, <2>1, <2>2, ListsNoticed DEF CheckForReload, Listed, files
  <2>3. CASE ~reload.blocked
    BY <1>3, <1>4, <2>1, <2>3 DEF CheckForReload, Lists
  <2> QED
    BY <2>2, <2>3
<1>5. CASE EndReload
  BY <1>3, <1>5 DEF EndReload, books
<1>6. ASSUME NEW d \in reload.todo, NextFile(d) PROVE Noticed'
  <2>1. /\ UNCHANGED <<files, managed, changed>> /\ reload.asking = None
        /\ d \in DOMAIN managed /\ docs[d].name = managed[d].name /\ managed[d].name \in Names
        /\ doing.call = "none" /\ doing.left = {} /\ None \notin DOMAIN managed
    BY <1>6, FileManagerAssumption
       DEF NextFile, AtRest, Handling, Lists, Reloading, Books, Waiting
  <2> DEFINE todo == reload.todo \ {d}
  <2>2. reload'.todo = todo /\ (Known(d) \/ reload'.asking = d \/ d \in doing'.left)
    <3>1. CASE SameFile(d) /\ reload' = [reload EXCEPT !.todo = todo]
      BY <2>1, <3>1 DEF SameFile, Known, Lists, Reloading
    <3>2. CASE reload' = [reload EXCEPT !.todo = todo, !.asking = d]
      BY <3>2 DEF Lists, Reloading
    <3>3. CASE Checked(d) /\ reload' = [reload EXCEPT !.todo = todo]
      BY <3>3 DEF Lists, Reloading, Checked, NotDoing
    <3> QED
      BY <1>6, <3>1, <3>2, <3>3 DEF NextFile
  <2>3. reload.todo \subseteq reload'.todo \cup {d}
    BY <2>2
  <2> HIDE DEF todo
  <2> QED
    BY <2>1, <2>2, <2>3, ListsNoticed DEF Listed, files
<1>7. ASSUME NEW yes \in BOOLEAN, NEW forAll \in BOOLEAN, Answer(yes, forAll) PROVE Noticed'
  <2>1. /\ UNCHANGED <<files, managed, changed>> /\ doing.call = "none" /\ doing.left = {}
        /\ doing'.left = {reload.asking} /\ reload'.todo = reload.todo
    BY <1>7 DEF Answer, AtRest, Handling, Lists, Reloading, Checked, NotDoing
  <2> QED
    BY <2>1, ListsNoticed DEF Listed, files
<1> QED
  BY <1>1, <1>2, <1>4, <1>5, <1>6, <1>7 DEF EventLoop

LEMMA HandlerNoticed == IInv /\ Noticed /\ Handler => Noticed'
<1> SUFFICES ASSUME IInv, Noticed, Handler PROVE Noticed'
  OBVIOUS
<1> USE DEF IInv
<1>1. ASSUME NEW d \in doing.left, UpdateFileInfo(d) PROVE Noticed'
  <2>1. /\ UNCHANGED <<disk, docs, notices, reload, changed>> /\ doing.call = "info"
        /\ doing'.left = doing.left \ {d} /\ untold' = untold \ {d}
        /\ managed' = Enter(managed, d, FileInfo(docs[d].name)) /\ d \in DOMAIN docs
    BY <1>1 DEF UpdateFileInfo, calls, Infos, NotDoing, Handling, Doing
  <2>2. /\ DOMAIN managed' \subseteq DOMAIN managed \cup {d}
        /\ managed'[d] = FileInfo(docs[d].name)
        /\ \A e \in DOMAIN managed \ {d} : managed'[e] = managed[e]
    BY <2>1 DEF Enter
  <2>3. docs[d].name \in Paths
    BY <2>1 DEF Books
  <2>4. Noted(d)'
    BY <2>1, <2>2, <2>3, FileManagerAssumption DEF Noted, Known, FileInfo, Paths
  <2>5. \A e \in DOMAIN managed' \ {d} : Listed(e) => Listed(e)'
    BY <2>1 DEF Listed
  <2> QED
    BY <2>1, <2>2, <2>4, <2>5, NoticedStays
<1>2. CASE RemovePath \/ AddPathAgain
  <2>1. UNCHANGED <<files, managed, calls>> /\ doing.left = {}
        /\ doing.call \in {"watch", "unwatch"}
    BY <1>2 DEF RemovePath, AddPathAgain, Handling
  <2> QED
    BY <2>1, ListsNoticed DEF Listed, files, calls
<1>3. CASE AddFile
  <2>1. UNCHANGED <<files, managed, calls>> /\ doing.left = {} /\ doing.call = "add"
    BY <1>3 DEF AddFile, Handling
  <2> QED
    BY <2>1, ListsNoticed DEF Listed, files, calls
<1>4. CASE WriteFile
  <2>1. /\ UNCHANGED <<managed, calls>> /\ doing.left = {} /\ doing.call = "write"
        /\ doing.name \in Names /\ doing.doc \in DOMAIN docs
        /\ DOMAIN managed = DOMAIN docs /\ managed[doing.doc].name = docs[doing.doc].name
    BY <1>4 DEF WriteFile, Handling, books, Books, Adding, AtRest
  <2>2. CASE NotOpened
    BY <1>4, <2>1, <2>2, ListsNoticed DEF NotOpened, Listed, files, calls
  <2>3. CASE Writes
    <3>1. PICK name \in Names : name = doing.name
      BY <2>1
    <3> DEFINE ds == {d \in DOMAIN managed : managed[d].name = name}
    <3>2. /\ disk' = [disk EXCEPT ![name] = disk'[name]]
          /\ notices' = notices \cup Signals(name, FALSE) /\ untold \subseteq untold'
      BY <2>3, <3>1 DEF Writes, Written, Disk
    <3>6. ASSUME NEW d \in ds PROVE Noted(d)'
      <4>1. CASE name # docs[doing.doc].name
        <5>1. Untold(name) \subseteq untold'
          BY <2>3, <3>1, <4>1 DEF Writes
        <5> QED
          BY <2>1, <3>2, <3>6, <5>1, ToldOrUntold
      <4>2. CASE doing' = [doing EXCEPT !.call = "changed", !.version = clock']
        <5>1. doing'.call = "changed" /\ doing'.name = name
          BY <3>1, <4>2 DEF Handling, Doing
        <5> QED
          BY <2>1, <3>6, <5>1 DEF Noted, WillBeKnown
      <4>3. CASE /\ name = docs[doing.doc].name
                 /\ doing' = Unblocked(ManagedFiles(managed, docs[doing.doc].name))
        <5>1. ManagedFiles(managed, name) = ds
          BY <3>1, FileManagerAssumption DEF ManagedFiles
        <5>2. doing'.left = ds
          BY <3>6, <4>3, <5>1 DEF Unblocked, Infos, Handling, Doing
        <5> QED
          BY <3>6, <5>2 DEF Noted, WillBeKnown
      <4> QED
        BY <1>4, <2>3, <4>1, <4>2, <4>3 DEF WriteFile, NotOpened
    <3>7. ASSUME NEW d \in DOMAIN managed' \ ds
          PROVE  /\ managed'[d] = managed[d]
                 /\ managed[d].name \in Names => disk'[managed[d].name] = disk[managed[d].name]
                 /\ Listed(d) => Listed(d)'
                 /\ d \in untold => d \in untold'
      BY <2>1, <3>2, <3>7 DEF Listed, calls, Disk
    <3> HIDE DEF ds
    <3> QED
      BY <2>1, <3>2, <3>6, <3>7, NoticedStays
  <2> QED
    BY <1>4, <2>2, <2>3 DEF WriteFile
<1>5. CASE CheckForNewFileName
  <2>0. PICK d : d = doing.doc
    OBVIOUS
  <2>1. /\ UNCHANGED <<files, calls>> /\ doing.left = {} /\ doing.name \in Names
        /\ d \in DOMAIN managed /\ managed' = [managed EXCEPT ![d].name = doing.name]
        /\ doing' = Unblocked(ManagedFiles(managed', doing.name))
    BY <1>5, <2>0 DEF CheckForNewFileName, Handling, Books, Adding, AtRest
  <2>2. /\ DOMAIN managed' = DOMAIN managed /\ managed'[d].name = doing.name
        /\ \A e \in DOMAIN managed \ {d} : managed'[e] = managed[e]
    BY <2>1 DEF Books
  <2> DEFINE ds == ManagedFiles(managed', doing.name)
  <2>3. d \in ds /\ ds = {e \in DOMAIN managed : managed'[e].name = doing.name}
    BY <2>1, <2>2, FileManagerAssumption DEF ManagedFiles
  <2>4. doing'.left = ds
    BY <2>1, <2>3 DEF Unblocked, Infos, Handling, Doing
  <2>5. ASSUME NEW e \in DOMAIN managed' PROVE Noted(e)'
    <3>1. CASE e \in ds
      BY <2>4, <3>1 DEF Noted, WillBeKnown
    <3>2. CASE e \notin ds
      <4>1. /\ e \in DOMAIN managed \ {d} /\ managed[e].name # doing.name
            /\ managed'[e] = managed[e]
        BY <2>2, <2>3, <3>2
      <4>2. Noted(e)
        BY <4>1 DEF Noticed, Noted
      <4> QED
        BY <2>1, <4>1, <4>2 DEF Noted, Known, WillBeKnown, files, calls
    <3> QED
      BY <3>1, <3>2
  <2> QED
    BY <2>5 DEF Noticed, Noted
<1> QED
  BY <1>1, <1>2, <1>3, <1>4, <1>5 DEF Handler

LEMMA EditorsNoticed == IInv /\ Noticed /\ Editors => Noticed'
<1> SUFFICES ASSUME IInv, Noticed, Editors PROVE Noticed'
  OBVIOUS
<1> USE DEF IInv
<1>1. AtRest => doing.left = {} /\ doing.call = "none"
  BY DEF Handling, AtRest
<1>2. ASSUME NEW gone, Close(gone), AtRest, ~reload.blocked, UNCHANGED <<disk, notices, reload>>
      PROVE  Noticed'
  <2>1. /\ DOMAIN managed' \subseteq DOMAIN managed \ gone
        /\ \A e \in DOMAIN managed' : managed'[e] = managed[e]
        /\ changed' = changed \ gone /\ untold' = untold \ gone
    BY <1>2 DEF Close, Without, Restrict
  <2>2. \A e \in DOMAIN managed' : Listed(e) => Listed(e)'
    BY <1>1, <1>2, <2>1 DEF Listed
  <2>3. \A e \in {} : Noted(e)'
    OBVIOUS
  <2> QED
    BY <1>1, <1>2, <2>1, <2>2, <2>3, NoticedStays
<1>3. ASSUME UNCHANGED <<files, managed, reload, changed>>, AtRest PROVE Noticed'
  BY <1>1, <1>3, ListsNoticed DEF Listed, files
<1>4. ASSUME NEW d \in Documents, NewFile(d) PROVE Noticed'
  <2>1. /\ UNCHANGED <<files, calls, doing>> /\ d \notin DOMAIN managed /\ AtRest
        /\ managed' = Enter(managed, d, FileInfo(Untitled))
    BY <1>4 DEF NewFile, User, Idle, Books, AtRest
  <2>2. /\ DOMAIN managed' \subseteq DOMAIN managed \cup {d}
        /\ managed'[d].name = Untitled
        /\ \A e \in DOMAIN managed \ {d} : managed'[e] = managed[e]
    BY <2>1 DEF Enter, FileInfo
  <2>3. \A e \in {d} : Noted(e)'
    BY <2>2 DEF Noted
  <2>4. \A e : Listed(e) => Listed(e)'
    BY <2>1 DEF Listed, calls
  <2> QED
    BY <2>1, <2>2, <2>3, <2>4, NoticedStays DEF files
<1>5. ASSUME NEW d \in Documents, NEW name \in Names, OpenEditor(d, name) PROVE Noticed'
  BY <1>3, <1>5 DEF OpenEditor, User, Idle, calls
<1>6. ASSUME NEW d \in Documents, NEW name \in Names, SaveFile(d, name) PROVE Noticed'
  BY <1>2, <1>6 DEF SaveFile, User, Idle
<1>7. ASSUME NEW d \in Documents, SaveNext(d) \/ Edit(d) PROVE Noticed'
  BY <1>3, <1>7 DEF SaveNext, Edit, User, Idle, calls
<1>8. CASE CloseEditors
  BY <1>2, <1>8 DEF CloseEditors, Lists
<1>9. ASSUME NEW chosen, NEW editors, SaveModifiedFiles(chosen, editors) PROVE Noticed'
  BY <1>3, <1>9 DEF SaveModifiedFiles, books, User, Idle
<1> QED
  BY <1>4, <1>5, <1>6, <1>7, <1>8, <1>9 DEF Editors

(* What a file manager does not know of a file it is about to learn, or    *)
(* another program did it while the file was not watched, for any          *)
(* documents, paths, time stamps and number of writings.                   *)
THEOREM NothingMissed == Spec => []Noticed
<1>1. Init => Noticed
  BY DEF Init, Noticed
<1>2. IInv /\ Noticed /\ UNCHANGED vars => Noticed'
  <2> SUFFICES ASSUME IInv, Noticed, UNCHANGED vars PROVE Noticed'
    OBVIOUS
  <2> QED
    BY ListsNoticed DEF vars, files, books, calls, Listed
<1>3. IInv /\ Noticed /\ [Next]_vars => Noticed'
  BY <1>2, OtherProgramsNoticed, EventLoopNoticed, HandlerNoticed, EditorsNoticed DEF Next
<1> QED
  BY <1>1, <1>3, Invariant, PTL DEF Spec

=============================================================================
