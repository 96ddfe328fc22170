------------------------ MODULE CppModelManagerProofs ------------------------
(***************************************************************************)
(* Proofs about CppModelManager for every set of files and projects,       *)
(* whatever the texts include and however many tasks, editors and events   *)
(* there are: the filter keeps up with the manager, what an editor's tasks *)
(* make of its text never goes back to an older version, and a collection  *)
(* takes no document that a project or another document still uses.        *)
(***************************************************************************)
EXTENDS CppModelManager, InductionLemmas, FiniteSetTheorems

(* The constants' sizes, in the form in which the proofs use them. *)
LEMMA CppConstants ==
    ASSUME CppModelAssumption
    PROVE  /\ Cardinality(Files) \in Nat
           /\ \A f \in Files :
                 /\ Includes[f] \in Seq(Files) /\ Len(Includes[f]) \in Nat
                 /\ \A i \in 1..Len(Includes[f]) : Includes[f][i] \in Files
<1>1. Cardinality(Files) \in Nat
  BY FS_CardinalityType DEF CppModelAssumption
<1>2. ASSUME NEW f \in Files
      PROVE  /\ Includes[f] \in Seq(Files) /\ Len(Includes[f]) \in Nat
             /\ \A i \in 1..Len(Includes[f]) : Includes[f][i] \in Files
  <2>1. Includes[f] \in Seq(Files)
    BY DEF CppModelAssumption
  <2> QED
    BY <2>1, ElementOfSeq, LenProperties
<1> QED
  BY <1>1, <1>2

-----------------------------------------------------------------------------
(* What a task reads. *)

Reads == [Reading -> [Files -> Reading]]

(* The texts that a text includes are read one after the other. *)
LEMMA IncludedByType ==
    ASSUME CppModelAssumption,
           NEW f \in Files, NEW read \in Reads, NEW reading \in Reading
    PROVE  IncludedBy(f, read, reading) \in Reading
<1> DEFINE N == Len(Includes[f])
           F == [i \in Nat |-> [x \in Reading |->
                    IF i \in 1..N THEN read[x][Includes[f][i]] ELSE x]]
           IsAfter(g) ==
               g = [i \in 0..N |-> IF i = 0 THEN reading ELSE read[g[i - 1]][Includes[f][i]]]
           after[i \in 0..N] == IF i = 0 THEN reading ELSE read[after[i - 1]][Includes[f][i]]
<1>1. /\ N \in Nat
      /\ \A x \in Reading, i \in 1..N : read[x][Includes[f][i]] \in Reading
  BY CppConstants DEF Reads
<1>2. IncludedBy(f, read, reading) = after[N]
  BY Zenon DEF IncludedBy
<1> HIDE DEF N
<1>3. \E g : IsAfter(g)
  <2>1. F \in [Nat -> [Reading -> Reading]]
    BY <1>1
  <2> HIDE DEF F
  <2>2. PICK h \in [0..N -> Reading] : Iterates(h, reading, F, N)
    BY <1>1, <2>1, Iteration
  <2>3. ASSUME NEW i \in 0..N
        PROVE  h[i] = IF i = 0 THEN reading ELSE read[h[i - 1]][Includes[f][i]]
    <3>1. CASE i = 0
      BY <2>2, <3>1 DEF Iterates
    <3>2. CASE i # 0
      <4>1. i \in 1..N /\ i \in Nat /\ i - 1 \in 0..N
        BY <1>1, <3>2
      <4>2. h[i] = F[i][h[i - 1]] /\ h[i - 1] \in Reading
        BY <2>2, <4>1 DEF Iterates
      <4>3. F[i][h[i - 1]] = read[h[i - 1]][Includes[f][i]]
        BY <4>1, <4>2 DEF F
      <4> QED
        BY <3>2, <4>2, <4>3
    <3> QED
      BY <3>1, <3>2
  <2>4. h = [i \in 0..N |-> h[i]]
    BY <2>2
  <2>5. IsAfter(h)
    BY <2>3, <2>4
  <2> QED
    BY <2>5
<1>4. IsAfter(after)
  BY <1>3, Zenon
<1> HIDE DEF after
<1>5. ASSUME NEW i \in 0..N
      PROVE  after[i] = IF i = 0 THEN reading ELSE read[after[i - 1]][Includes[f][i]]
  BY <1>4
<1> HIDE <1>4
<1> DEFINE P == {i \in Nat : i \in 0..N => after[i] \in Reading}
<1>6. 0 \in P
  BY <1>1, <1>5
<1>7. ASSUME NEW i \in Nat, i < N, i \in P PROVE i + 1 \in P
  <2>1. i \in 0..N /\ i + 1 \in 1..N /\ i + 1 \in 0..N /\ (i + 1) - 1 = i /\ i + 1 # 0
    BY <1>1, <1>7
  <2>2. after[i] \in Reading
    BY <1>7, <2>1
  <2>3. after[i + 1] = read[after[i]][Includes[f][i + 1]]
    BY <1>5, <2>1
  <2> QED
    BY <1>1, <2>1, <2>2, <2>3
<1> HIDE DEF P
<1>8. 0..N \subseteq P
  BY <1>1, <1>6, <1>7, UpTo
<1>9. after[N] \in Reading
  BY <1>1, <1>8 DEF P
<1> QED
  BY <1>2, <1>9

(* Reading a file, and what it includes, keeps the type of what was read.  *)
LEMMA SourceNeededType ==
    ASSUME CppModelAssumption,
           NEW f \in Files, NEW text, NEW cached, NEW included \in SUBSET Files
    PROVE  SourceNeeded(f, text, cached, included) \in Reading
<1> DEFINE N == Cardinality(Files)
           Begun(r, g) == [included |-> r.included \cup {g}, parsed |-> r.parsed]
           Ended(below, r, g) == IncludedBy(g, below, Begun(r, g))
           Text(below, r, g) ==
               IF text[g] \in empty \/ (g # f /\ g \in cached) THEN Begun(r, g)
               ELSE [included |-> Ended(below, r, g).included,
                     parsed |-> Append(Ended(below, r, g).parsed, g)]
           Read(depth, below) == [r \in Reading |-> [g \in Files |->
               IF depth = 0 \/ g \in r.included \/ text[g] = Missing THEN r
               ELSE Text(below, r, g)]]
           IsRead(h) == h = [depth \in 0..N |-> Read(depth, h[depth - 1])]
           read[depth \in 0..N] == Read(depth, read[depth - 1])
           start == [included |-> included, parsed |-> <<>>]
<1>1. N \in Nat
  BY CppConstants
<1>2. start \in Reading
  BY EmptySeq DEF Reading
<1>3. SourceNeeded(f, text, cached, included) = read[N][start][f]
  BY Zenon DEF SourceNeeded
<1>4. ASSUME NEW below \in Reads, NEW r \in Reading, NEW g \in Files
      PROVE  Text(below, r, g) \in Reading
  <2>1. Begun(r, g) \in Reading
    BY DEF Reading
  <2> DEFINE e == Ended(below, r, g)
  <2>2. e \in Reading
    BY <2>1, IncludedByType
  <2> HIDE DEF e
  <2>3. [included |-> e.included, parsed |-> Append(e.parsed, g)] \in Reading
    BY <2>2, AppendProperties DEF Reading
  <2> QED
    BY <2>1, <2>3 DEF e
<1> HIDE DEF Text, N, start
<1>5. ASSUME NEW depth \in Nat, NEW below \in Reads
      PROVE  Read(depth, below) \in Reads
  BY <1>4, <1>5 DEF Reads
<1>6. \A below, other : Read(0, below) = Read(0, other)
  OBVIOUS
<1>7. \A below : Read(0, below) \in Reads
  BY DEF Reads
<1> HIDE DEF Read
<1>8. \E h : IsRead(h)
  <2> DEFINE F == [i \in Nat |-> [below \in Reads |-> Read(i, below)]]
             a == Read(0, <<>>)
  <2>1. F \in [Nat -> [Reads -> Reads]] /\ a \in Reads
    BY <1>5, <1>7
  <2> HIDE DEF F, a
  <2>2. PICK h \in [0..N -> Reads] : Iterates(h, a, F, N)
    BY <1>1, <2>1, Iteration
  <2>3. ASSUME NEW i \in 0..N PROVE h[i] = Read(i, h[i - 1])
    <3>1. CASE i = 0
      BY <1>6, <2>2, <3>1 DEF Iterates, a
    <3>2. CASE i # 0
      <4>1. i \in 1..N /\ i \in Nat /\ i - 1 \in 0..N
        BY <1>1, <3>2
      <4>2. h[i] = F[i][h[i - 1]] /\ h[i - 1] \in Reads
        BY <2>2, <4>1 DEF Iterates
      <4> QED
        BY <4>1, <4>2 DEF F
    <3> QED
      BY <3>1, <3>2
  <2>4. h = [i \in 0..N |-> h[i]]
    BY <2>2
  <2>5. IsRead(h)
    BY <2>3, <2>4
  <2> QED
    BY <2>5
<1>9. IsRead(read)
  BY <1>8, Zenon
<1> HIDE DEF read
<1>10. ASSUME NEW i \in 0..N PROVE read[i] = Read(i, read[i - 1])
  BY <1>9
<1> HIDE <1>9
<1> DEFINE P == {i \in Nat : i \in 0..N => read[i] \in Reads}
<1>11. 0 \in P
  BY <1>1, <1>7, <1>10
<1>12. ASSUME NEW i \in Nat, i < N, i \in P PROVE i + 1 \in P
  <2>1. i \in 0..N /\ i + 1 \in 0..N /\ (i + 1) - 1 = i /\ i + 1 \in Nat
    BY <1>1, <1>12
  <2>2. read[i + 1] = Read(i + 1, read[i])
    BY <1>10, <2>1
  <2> QED
    BY <1>5, <1>12, <2>1, <2>2
<1> HIDE DEF P
<1>13. 0..N \subseteq P
  BY <1>1, <1>11, <1>12, UpTo
<1>14. read[N] \in Reads
  BY <1>1, <1>13 DEF P
<1> QED
  BY <1>2, <1>3, <1>14 DEF Reads

-----------------------------------------------------------------------------
(* The type of the state. *)

Texts == UNION {[fs -> Nat] : fs \in SUBSET Files}

Task == [todo : Seq(Files), indexing : BOOLEAN, canceled : BOOLEAN,
         support : Nat, copy : Texts, cached : SUBSET Files,
         included : SUBSET Files, found : Seq(Document)]

Posted == [to : {"manager", "filter"}, doc : Document]

TextsInv == disk \in [Files -> 0..clock] /\ clock \in 1..MaxVersion /\ empty \subseteq 1..clock

EditorsInv ==
    /\ supports \in 0..MaxSupports
    /\ \A f \in DOMAIN editors : f \in Files /\
          editors[f] \in [support : 1..supports, version : 1..clock, timer : BOOLEAN]

ProjectsInv ==
    /\ DOMAIN projects \subseteq Projects
    /\ \A p \in DOMAIN projects : projects[p] \in FileLists
    /\ dirty \in BOOLEAN /\ projectFiles \subseteq Files

Documents(list) == \A f \in DOMAIN list : list[f] \in Document /\ list[f].file = f

ListsInv == Documents(snapshot) /\ Documents(searchList)

TasksInv == \A n \in DOMAIN tasks : tasks[n] \in Task

QueueInv == queue \in Seq(Posted)

TypeInv == TextsInv /\ EditorsInv /\ ProjectsInv /\ ListsInv /\ TasksInv /\ QueueInv

LEMMA DocumentsFile == \A list : Documents(list) => DOMAIN list \subseteq Files
BY DEF Documents, Document

LEMMA EnterDocuments ==
    ASSUME NEW list, Documents(list), NEW doc \in Document
    PROVE  Documents(Enter(list, doc.file, doc))
BY DEF Documents, Enter

LEMMA WithoutDocuments ==
    ASSUME NEW list, Documents(list), NEW gone
    PROVE  Documents(Without(list, gone))
BY DEF Documents, Without, Restrict

LEMMA TextsOfEditors == EditorsInv /\ TextsInv => WorkingCopy \in Texts
<1> SUFFICES ASSUME EditorsInv, TextsInv PROVE WorkingCopy \in Texts
  OBVIOUS
<1>1. DOMAIN editors \in SUBSET Files
  BY DEF EditorsInv
<1>2. \A f \in DOMAIN editors : editors[f].version \in Nat
  BY DEF EditorsInv, TextsInv
<1>3. WorkingCopy \in [DOMAIN editors -> Nat]
  BY <1>2 DEF WorkingCopy
<1> QED
  BY <1>1, <1>3 DEF Texts

(* The task that refreshSourceFiles() starts. *)
Started(files, support) ==
    [todo |-> files, indexing |-> Len(files) > 1, canceled |-> FALSE,
     support |-> support, copy |-> WorkingCopy, cached |-> DOMAIN snapshot,
     included |-> {}, found |-> <<>>]

LEMMA RefreshStarts ==
    ASSUME NEW files, NEW support, NEW ps, NEW isDirty,
           RefreshSourceFiles(files, support, ps, isDirty)
    PROVE  /\ \E id : tasks' = Enter(tasks, id, Started(files, support))
           /\ EnsureUpdated(ps, isDirty)
BY DEF RefreshSourceFiles, Started

LEMMA StartedType ==
    ASSUME TypeInv, NEW files \in Seq(Files), NEW support \in Nat
    PROVE  Started(files, support) \in Task
<1>1. WorkingCopy \in Texts
  BY TextsOfEditors DEF TypeInv
<1>2. DOMAIN snapshot \subseteq Files
  BY DocumentsFile DEF TypeInv, ListsInv
<1> DEFINE indexing == Len(files) > 1
<1>3. indexing \in BOOLEAN
  BY LenProperties, SMT
<1> HIDE DEF indexing
<1>4. <<>> \in Seq(Document)
  BY EmptySeq
<1> DEFINE copy == WorkingCopy
           cached == DOMAIN snapshot
<1>5. copy \in Texts /\ cached \in SUBSET Files
  BY <1>1, <1>2
<1>6. Started(files, support) =
        [todo |-> files, indexing |-> indexing, canceled |-> FALSE, support |-> support,
         copy |-> copy, cached |-> cached, included |-> {}, found |-> <<>>]
  BY Zenon DEF Started, indexing
<1> HIDE DEF copy, cached
<1>7. {} \in SUBSET Files /\ FALSE \in BOOLEAN
  OBVIOUS
<1> QED
  BY <1>3, <1>4, <1>5, <1>6, <1>7 DEF Task

LEMMA RefreshType ==
    ASSUME TypeInv, NEW files \in Seq(Files), NEW support \in Nat, NEW ps, NEW isDirty,
           RefreshSourceFiles(files, support, ps, isDirty)
    PROVE  TasksInv'
<1>1. PICK id : tasks' = Enter(tasks, id, Started(files, support))
  BY RefreshStarts
<1>2. Started(files, support) \in Task
  BY StartedType
<1> QED
  BY <1>1, <1>2 DEF TypeInv, TasksInv, Enter

LEMMA ListedFiles ==
    ASSUME CppModelAssumption, NEW ps, \A p \in DOMAIN ps : ps[p] \in FileLists
    PROVE  InternalProjectFiles(ps) \subseteq Files
<1> SUFFICES ASSUME NEW p \in DOMAIN ps PROVE ToSet(ps[p]) \subseteq Files
  BY DEF InternalProjectFiles
<1>1. ps[p] \in Seq(Files)
  BY DEF CppModelAssumption
<1> QED
  BY <1>1, ElementOfSeq, LenProperties DEF ToSet

LEMMA EnsureUpdatedType ==
    ASSUME CppModelAssumption, projectFiles \subseteq Files,
           NEW ps, \A p \in DOMAIN ps : ps[p] \in FileLists,
           NEW isDirty, EnsureUpdated(ps, isDirty)
    PROVE  dirty' \in BOOLEAN /\ projectFiles' \subseteq Files
BY ListedFiles DEF EnsureUpdated

LEMMA GCType ==
    ASSUME CppModelAssumption, TypeInv,
           NEW ps, \A p \in DOMAIN ps : ps[p] \in FileLists, GC(ps)
    PROVE  ListsInv' /\ dirty' \in BOOLEAN /\ projectFiles' \subseteq Files
<1>1. dirty' \in BOOLEAN /\ projectFiles' \subseteq Files
  BY EnsureUpdatedType DEF GC, TypeInv, ProjectsInv
<1> DEFINE removed == DOMAIN snapshot \ Reached(projectFiles', snapshot)
<1>2. searchList' = Without(searchList, removed) /\ snapshot' = Without(snapshot, removed)
  BY DEF GC
<1> HIDE DEF removed
<1>3. Documents(snapshot') /\ Documents(searchList')
  BY <1>2, WithoutDocuments DEF TypeInv, ListsInv
<1> QED
  BY <1>1, <1>3 DEF ListsInv, Documents

(* A task after it has read one file more. *)
LEMMA ParsedType ==
    ASSUME CppModelAssumption, TextsInv, NEW t \in Task, t.todo # <<>>
    PROVE  Parsed(t) \in Task
<1> DEFINE Text(g) == IF g \in DOMAIN t.copy THEN t.copy[g] ELSE disk[g]
           reading == SourceNeeded(Head(t.todo), [g \in Files |-> Text(g)],
                                   t.cached, t.included)
           Doc(g) == [file |-> g, version |-> Text(g), support |-> t.support]
           found == [i \in 1..Len(reading.parsed) |-> Doc(reading.parsed[i])]
           last == Tail(t.todo) = <<>>
<1>1. /\ t.todo \in Seq(Files) /\ t.copy \in Texts /\ t.included \in SUBSET Files
      /\ t.cached \in SUBSET Files /\ t.support \in Nat
  BY DEF Task
<1>2. Head(t.todo) \in Files /\ Tail(t.todo) \in Seq(Files)
  BY <1>1, HeadTailProperties
<1>3. reading \in Reading
  BY <1>1, <1>2, SourceNeededType
<1>4. ASSUME NEW g \in Files PROVE Text(g) \in Nat
  <2>1. disk[g] \in Nat
    BY DEF TextsInv
  <2>2. g \in DOMAIN t.copy => t.copy[g] \in Nat
    BY <1>1 DEF Texts
  <2> QED
    BY <2>1, <2>2
<1>5. ASSUME NEW g \in Files PROVE Doc(g) \in Document
  BY <1>1, <1>4, Zenon DEF Document
<1>6. Parsed(t) = [t EXCEPT !.todo = Tail(@),
                            !.copy = IF last THEN <<>> ELSE @,
                            !.cached = IF last THEN {} ELSE @,
                            !.included = IF last THEN {} ELSE reading.included,
                            !.found = found]
  BY Zenon DEF Parsed
<1> HIDE DEF reading, Doc
<1>7. found \in Seq(Document)
  <2>1. reading.parsed \in Seq(Files)
    BY <1>3 DEF Reading
  <2>2. /\ Len(reading.parsed) \in Nat
        /\ \A i \in 1..Len(reading.parsed) : Doc(reading.parsed[i]) \in Document
    BY <2>1, <1>5, ElementOfSeq, LenProperties
  <2> QED
    BY <2>2, SeqDef
<1>8. <<>> \in Texts
  <2>1. <<>> \in [{} -> Nat]
    BY EmptySeq, SMT
  <2> QED
    BY <2>1 DEF Texts
<1>9. reading.included \in SUBSET Files
  BY <1>3 DEF Reading
<1> HIDE DEF found, last
<1> DEFINE copy == IF last THEN <<>> ELSE t.copy
           cached == IF last THEN {} ELSE t.cached
           included == IF last THEN {} ELSE reading.included
<1>10. copy \in Texts /\ cached \in SUBSET Files /\ included \in SUBSET Files
  BY <1>1, <1>8, <1>9
<1> HIDE DEF copy, cached, included
<1>11. Parsed(t) = [t EXCEPT !.todo = Tail(t.todo), !.copy = copy, !.cached = cached,
                             !.included = included, !.found = found]
  BY <1>6, Zenon DEF copy, cached, included
<1> QED
  BY <1>2, <1>7, <1>10, <1>11 DEF Task

LEMMA TypeInit == Init => TypeInv
<1> SUFFICES ASSUME Init PROVE TypeInv
  OBVIOUS
<1>1. MaxVersion \in Nat \ {0} /\ MaxSupports \in Nat
  BY CppModelAssumption DEF CppModelAssumption
<1>2. DOMAIN <<>> = {} /\ <<>> \in Seq(Posted)
  BY EmptySeq
<1>3. TextsInv
  BY <1>1 DEF Init, TextsInv, Missing
<1>4. EditorsInv
  BY <1>1, <1>2 DEF Init, EditorsInv, None
<1>5. ProjectsInv /\ ListsInv /\ TasksInv /\ QueueInv
  BY <1>2 DEF Init, ProjectsInv, ListsInv, Documents, TasksInv, QueueInv
<1> QED
  BY <1>3, <1>4, <1>5 DEF TypeInv

(* The documents that a task has found, and the first of them. *)
LEMMA FoundType ==
    ASSUME NEW t \in Task, t.found # <<>>
    PROVE  Head(t.found) \in Document /\ Tail(t.found) \in Seq(Document)
BY HeadTailProperties DEF Task

(* The two events that tell of a document. *)
Told(doc) == <<[to |-> "manager", doc |-> doc], [to |-> "filter", doc |-> doc]>>

LEMMA ToldType ==
    ASSUME NEW doc \in Document
    PROVE  /\ Told(doc) \in Seq(Posted) /\ Len(Told(doc)) = 2
           /\ Told(doc)[1] = [to |-> "manager", doc |-> doc]
           /\ Told(doc)[2] = [to |-> "filter", doc |-> doc]
<1>1. [to |-> "manager", doc |-> doc] \in Posted /\ [to |-> "filter", doc |-> doc] \in Posted
  BY DEF Posted
<1> QED
  BY <1>1 DEF Told

LEMMA TypePool ==
    ASSUME TypeInv, NEW n \in DOMAIN tasks, ParseFile(n) \/ Tell(n) \/ Finish(n)
    PROVE  TypeInv'
<1>1. tasks[n] \in Task
  BY DEF TypeInv, TasksInv
<1>2. CASE ParseFile(n)
  <2>1. Parsed(tasks[n]) \in Task
    BY <1>1, <1>2, CppModelAssumption, ParsedType DEF ParseFile, TypeInv
  <2>2. tasks' = [tasks EXCEPT ![n] = Parsed(tasks[n])]
    BY <1>2 DEF ParseFile
  <2>3. TasksInv'
    BY <2>1, <2>2 DEF TypeInv, TasksInv
  <2> QED
    BY <1>2, <2>3 DEF ParseFile, texts, model, TypeInv, TextsInv, EditorsInv, ProjectsInv,
       ListsInv, Documents, QueueInv
<1>3. CASE Tell(n)
  <2> DEFINE doc == Head(tasks[n].found)
  <2>1. doc \in Document /\ Tail(tasks[n].found) \in Seq(Document)
    BY <1>1, <1>3, FoundType DEF Tell
  <2>2. /\ tasks' = [tasks EXCEPT ![n].found = Tail(@)]
        /\ queue' = queue \o Told(doc)
    BY <1>3 DEF Tell, Told
  <2> HIDE DEF doc
  <2>3. [tasks[n] EXCEPT !.found = Tail(@)] \in Task
    BY <1>1, <2>1 DEF Task
  <2>4. TasksInv'
    BY <2>2, <2>3 DEF TypeInv, TasksInv
  <2>5. QueueInv'
    BY <2>1, <2>2, ToldType, ConcatProperties DEF TypeInv, QueueInv
  <2> QED
    BY <1>3, <2>4, <2>5 DEF Tell, texts, model, TypeInv, TextsInv, EditorsInv,
       ProjectsInv, ListsInv, Documents
<1>4. CASE Finish(n)
  <2>1. TasksInv'
    BY <1>4 DEF Finish, Without, Restrict, TypeInv, TasksInv
  <2> QED
    BY <1>4, <2>1 DEF Finish, texts, model, TypeInv, TextsInv, EditorsInv, ProjectsInv,
       ListsInv, Documents, QueueInv
<1> QED
  BY <1>2, <1>3, <1>4

LEMMA HeadPosted ==
    ASSUME QueueInv, queue # <<>>
    PROVE  /\ Head(queue) \in Posted /\ Tail(queue) \in Seq(Posted)
           /\ Head(queue).to \in {"manager", "filter"} /\ Head(queue).doc \in Document
           /\ Len(queue) \in Nat \ {0} /\ Head(queue) = queue[1]
           /\ Len(Tail(queue)) = Len(queue) - 1
           /\ \A i \in 1..Len(Tail(queue)) :
                 i + 1 \in 1..Len(queue) /\ Tail(queue)[i] = queue[i + 1]
<1>1. queue \in Seq(Posted)
  BY DEF QueueInv
<1>2. /\ Head(queue) \in Posted /\ Tail(queue) \in Seq(Posted)
      /\ Len(queue) \in Nat \ {0} /\ Head(queue) = queue[1]
      /\ Len(Tail(queue)) = Len(queue) - 1
      /\ \A i \in 1..Len(Tail(queue)) : Tail(queue)[i] = queue[i + 1]
  BY <1>1, HeadTailProperties, LenProperties, EmptySeq
<1> QED
  BY <1>2 DEF Posted

(* What an event does to the lists. *)
LEMMA Arrives ==
    ASSUME QueueInv, OnDocumentUpdated
    PROVE  LET doc == Head(queue).doc
           IN  /\ queue # <<>> /\ queue' = Tail(queue)
               /\ \/ /\ Head(queue).to = "manager"
                     /\ snapshot' = Enter(snapshot, doc.file, doc)
                     /\ searchList' = searchList
                  \/ /\ Head(queue).to = "filter"
                     /\ searchList' = Enter(searchList, doc.file, doc)
                     /\ snapshot' = snapshot
BY HeadPosted DEF OnDocumentUpdated

LEMMA TypeArrives ==
    ASSUME TypeInv, OnDocumentUpdated
    PROVE  TypeInv'
<1>1. QueueInv /\ ListsInv
  BY DEF TypeInv
<1> DEFINE doc == Head(queue).doc
<1>2. /\ doc \in Document /\ Tail(queue) \in Seq(Posted) /\ queue' = Tail(queue)
      /\ \/ snapshot' = Enter(snapshot, doc.file, doc) /\ searchList' = searchList
         \/ searchList' = Enter(searchList, doc.file, doc) /\ snapshot' = snapshot
  BY <1>1, Arrives, HeadPosted
<1> HIDE DEF doc
<1>3. Documents(snapshot') /\ Documents(searchList')
  BY <1>1, <1>2, EnterDocuments DEF ListsInv
<1>4. ListsInv' /\ QueueInv'
  BY <1>2, <1>3 DEF ListsInv, Documents, QueueInv
<1> QED
  BY <1>4 DEF OnDocumentUpdated, texts, TypeInv, TextsInv, EditorsInv, ProjectsInv, TasksInv

LEMMA TypeProjects ==
    ASSUME TypeInv, ProjectManager
    PROVE  TypeInv'
<1> USE CppModelAssumption
<1>1. /\ ProjectsInv /\ TextsInv /\ EditorsInv /\ TasksInv /\ QueueInv
      /\ \A p \in DOMAIN projects : projects[p] \in FileLists
  BY DEF TypeInv, ProjectsInv
<1>2. ASSUME NEW p \in Projects, NEW files \in FileLists, UpdateCodeModel(p, files)
      PROVE  TypeInv'
  <2> DEFINE ps == Enter(projects, p, files)
  <2>1. projects' = ps /\ DOMAIN ps \subseteq Projects /\ \A q \in DOMAIN ps : ps[q] \in FileLists
    BY <1>1, <1>2 DEF UpdateCodeModel, Enter, ProjectsInv
  <2>2. files \in Seq(Files) /\ None \in Nat
    BY DEF CppModelAssumption, None
  <2>3. \/ dirty' = TRUE /\ UNCHANGED <<projectFiles, tasks>>
        \/ RefreshSourceFiles(files, None, ps, TRUE)
    BY <1>2 DEF UpdateCodeModel
  <2> HIDE DEF ps
  <2>4. ProjectsInv' /\ TasksInv'
    <3>1. CASE dirty' = TRUE /\ UNCHANGED <<projectFiles, tasks>>
      BY <1>1, <2>1, <3>1 DEF ProjectsInv, TasksInv
    <3>2. CASE RefreshSourceFiles(files, None, ps, TRUE)
      <4>1. EnsureUpdated(ps, TRUE)
        BY <3>2, RefreshStarts
      <4>2. dirty' \in BOOLEAN /\ projectFiles' \subseteq Files
        BY <1>1, <2>1, <4>1, EnsureUpdatedType DEF ProjectsInv
      <4>3. TasksInv'
        BY <2>2, <3>2, RefreshType
      <4> QED
        BY <2>1, <4>2, <4>3 DEF ProjectsInv
    <3> QED
      BY <2>3, <3>1, <3>2
  <2> QED
    BY <1>2, <2>4 DEF UpdateCodeModel, texts, TypeInv, TextsInv, EditorsInv, ListsInv,
       Documents, QueueInv
<1>3. ASSUME NEW p \in Projects, OnAboutToRemoveProject(p) PROVE TypeInv'
  <2>1. /\ DOMAIN projects' \subseteq Projects
        /\ \A q \in DOMAIN projects' : projects'[q] \in FileLists
    BY <1>1, <1>3 DEF OnAboutToRemoveProject, Without, Restrict, ProjectsInv
  <2>2. ListsInv' /\ dirty' \in BOOLEAN /\ projectFiles' \subseteq Files
    BY <1>3, <2>1, GCType DEF OnAboutToRemoveProject
  <2>3. ProjectsInv'
    BY <2>1, <2>2 DEF ProjectsInv
  <2> QED
    BY <1>1, <1>3, <2>2, <2>3 DEF OnAboutToRemoveProject, texts, TypeInv, TextsInv, EditorsInv,
       TasksInv, QueueInv
<1>4. ASSUME NEW f \in Generated, FileChanged(f) PROVE TypeInv'
  <2>1. f \in Files /\ <<f>> \in Seq(Files) /\ None \in Nat /\ MaxVersion \in Nat
    BY DEF CppModelAssumption, None
  <2>2. RefreshSourceFiles(<<f>>, None, projects, dirty)
    BY <1>4 DEF FileChanged
  <2>3. EnsureUpdated(projects, dirty)
    BY <2>2, RefreshStarts
  <2>4. dirty' \in BOOLEAN /\ projectFiles' \subseteq Files
    BY <1>1, <2>3, EnsureUpdatedType DEF ProjectsInv
  <2>5. TasksInv'
    BY <2>1, <2>2, RefreshType
  <2>6. /\ clock' = clock + 1 /\ clock < MaxVersion /\ disk' = [disk EXCEPT ![f] = clock']
        /\ empty' \in {empty, empty \cup {clock'}}
        /\ UNCHANGED <<editors, supports, projects, snapshot, searchList, queue>>
    BY <1>4 DEF FileChanged, Written
  <2>7. TextsInv' /\ EditorsInv'
    BY <1>1, <2>1, <2>6 DEF TextsInv, EditorsInv
  <2>8. ProjectsInv'
    BY <1>1, <2>4, <2>6 DEF ProjectsInv
  <2> QED
    BY <2>5, <2>6, <2>7, <2>8 DEF TypeInv, ListsInv, Documents, QueueInv
<1>5. CASE OnProjectAdded
  BY <1>5 DEF OnProjectAdded, texts, TypeInv, TextsInv, EditorsInv, ProjectsInv, ListsInv,
     Documents, TasksInv, QueueInv
<1>6. CASE OnSessionUnloaded
  <2>1. ListsInv' /\ dirty' \in BOOLEAN /\ projectFiles' \subseteq Files
    BY <1>1, <1>6, GCType DEF OnSessionUnloaded
  <2>2. ASSUME NEW n \in DOMAIN tasks PROVE [tasks[n] EXCEPT !.canceled = TRUE] \in Task
    BY <1>1 DEF TasksInv, Task
  <2>3. TasksInv'
    BY <1>1, <1>6, <2>2 DEF OnSessionUnloaded, TasksInv
  <2> QED
    BY <1>1, <1>6, <2>1, <2>3 DEF OnSessionUnloaded, texts, TypeInv, TextsInv, EditorsInv,
       ProjectsInv, QueueInv
<1> QED
  BY <1>2, <1>3, <1>4, <1>5, <1>6 DEF ProjectManager

LEMMA TypeEditing ==
    ASSUME TypeInv, Editing
    PROVE  TypeInv'
<1>1. /\ ProjectsInv /\ TextsInv /\ EditorsInv /\ TasksInv /\ QueueInv
      /\ \A p \in DOMAIN projects : projects[p] \in FileLists
      /\ MaxSupports \in Nat /\ MaxVersion \in Nat /\ supports \in 0..MaxSupports
      /\ \A f \in DOMAIN editors : f \in Files
  BY CppModelAssumption DEF TypeInv, ProjectsInv, CppModelAssumption, EditorsInv
<1>2. ASSUME NEW f \in Files, EditorOpened(f) PROVE TypeInv'
  <2>1. disk[f] \in 1..clock /\ supports' = supports + 1 /\ supports < MaxSupports
    BY <1>1, <1>2 DEF EditorOpened, TextsInv, Missing
  <2> DEFINE editor == [support |-> supports', version |-> disk[f], timer |-> TRUE]
  <2>2. editor \in [support : 1..supports', version : 1..clock, timer : BOOLEAN]
    BY <1>1, <2>1
  <2>3. editors' = Enter(editors, f, editor) /\ clock' = clock
    BY <1>2 DEF EditorOpened, texts
  <2> HIDE DEF editor
  <2>4. EditorsInv'
    <3>1. 1..supports \subseteq 1..supports'
      BY <1>1, <2>1
    <3> QED
      BY <1>1, <2>1, <2>2, <2>3, <3>1 DEF Enter, EditorsInv
  <2> QED
    BY <1>2, <2>4 DEF EditorOpened, texts, model, TypeInv, TextsInv, ProjectsInv, ListsInv,
       Documents, TasksInv, QueueInv
<1>3. ASSUME NEW f \in DOMAIN editors, EditorAboutToClose(f) PROVE TypeInv'
  <2>1. EditorsInv'
    BY <1>1, <1>3 DEF EditorAboutToClose, texts, Without, Restrict, EditorsInv
  <2> QED
    BY <1>3, <2>1 DEF EditorAboutToClose, texts, model, TypeInv, TextsInv, ProjectsInv,
       ListsInv, Documents, TasksInv, QueueInv
<1>4. ASSUME NEW f \in DOMAIN editors, UpdateDocument(f) PROVE TypeInv'
  <2>1. /\ clock' = clock + 1 /\ clock < MaxVersion /\ disk' = disk
        /\ empty' \in {empty, empty \cup {clock'}}
        /\ editors' = [editors EXCEPT ![f].version = clock', ![f].timer = TRUE]
    BY <1>4 DEF UpdateDocument, Written
  <2>2. TextsInv'
    BY <1>1, <2>1 DEF TextsInv
  <2>3. 1..clock \subseteq 1..clock' /\ clock' \in 1..clock'
    BY <1>1, <2>1 DEF TextsInv
  <2>4. EditorsInv'
    BY <1>1, <1>4, <2>1, <2>3 DEF UpdateDocument, EditorsInv
  <2> QED
    BY <1>4, <2>2, <2>4 DEF UpdateDocument, model, TypeInv, ProjectsInv, ListsInv, Documents,
       TasksInv, QueueInv
<1>5. ASSUME NEW f \in DOMAIN editors, Save(f) PROVE TypeInv'
  <2>1. editors[f].version \in 1..clock
    BY <1>1 DEF EditorsInv
  <2>2. TextsInv'
    BY <1>1, <1>5, <2>1 DEF Save, TextsInv
  <2> QED
    BY <1>5, <2>2 DEF Save, model, TypeInv, EditorsInv, ProjectsInv, ListsInv, Documents,
       TasksInv, QueueInv
<1>6. ASSUME NEW f \in DOMAIN editors, UpdateDocumentNow(f) PROVE TypeInv'
  <2>1. RefreshSourceFiles(<<f>>, editors[f].support, projects, dirty)
    BY <1>6 DEF UpdateDocumentNow
  <2>2. EnsureUpdated(projects, dirty)
    BY <2>1, RefreshStarts
  <2>3. dirty' \in BOOLEAN /\ projectFiles' \subseteq Files
    BY <1>1, <2>2, CppModelAssumption, EnsureUpdatedType DEF ProjectsInv
  <2>4. <<f>> \in Seq(Files) /\ editors[f].support \in Nat
    BY <1>1 DEF EditorsInv
  <2>5. TasksInv'
    BY <2>1, <2>4, RefreshType
  <2>6. EditorsInv'
    BY <1>1, <1>6 DEF UpdateDocumentNow, texts, EditorsInv
  <2>7. ProjectsInv'
    BY <1>1, <1>6, <2>3 DEF UpdateDocumentNow, ProjectsInv
  <2> QED
    BY <1>6, <2>5, <2>6, <2>7 DEF UpdateDocumentNow, texts, TypeInv, TextsInv, ListsInv,
       Documents, QueueInv
<1> QED
  BY <1>2, <1>3, <1>4, <1>5, <1>6 DEF Editing

LEMMA TypeNext == TypeInv /\ [Next]_vars => TypeInv'
<1> SUFFICES ASSUME TypeInv, [Next]_vars PROVE TypeInv'
  OBVIOUS
<1>1. CASE UNCHANGED vars
  BY <1>1 DEF vars, texts, model, TypeInv, TextsInv, EditorsInv, ProjectsInv, ListsInv,
     Documents, TasksInv, QueueInv
<1>2. CASE Next
  BY <1>2, TypePool, TypeArrives, TypeProjects, TypeEditing DEF Next, Pool
<1> QED
  BY <1>1, <1>2

THEOREM CppModelTypeCorrect == Spec => []CppModelTypeOK
<1>1. TypeInv => CppModelTypeOK
  <2> SUFFICES ASSUME TypeInv PROVE CppModelTypeOK
    OBVIOUS
  <2>1. /\ disk \in [Files -> 0..MaxVersion] /\ clock \in 1..MaxVersion
        /\ empty \subseteq 1..clock
    BY CppModelAssumption DEF TypeInv, TextsInv, CppModelAssumption
  <2>2. \A n \in DOMAIN tasks : tasks[n].found \in Seq(Document)
    BY DEF TypeInv, TasksInv, Task
  <2>3. \A i \in 1..Len(queue) :
           queue[i].doc \in Document /\ queue[i].to \in {"manager", "filter"}
    <3> SUFFICES ASSUME NEW i \in 1..Len(queue)
                 PROVE  queue[i].doc \in Document /\ queue[i].to \in {"manager", "filter"}
      OBVIOUS
    <3>1. queue[i] \in Posted
      BY ElementOfSeq DEF TypeInv, QueueInv
    <3> QED
      BY <3>1 DEF Posted
  <2>4. \A f \in DOMAIN editors :
          /\ f \in Files /\ editors[f].version \in 1..clock
          /\ editors[f].support \in 1..supports /\ editors[f].timer \in BOOLEAN
    BY DEF TypeInv, EditorsInv
  <2>5. \A list \in {snapshot, searchList} : \A f \in DOMAIN list :
          list[f] \in Document /\ list[f].file = f
    BY DEF TypeInv, ListsInv, Documents
  <2> QED
    BY <2>1, <2>2, <2>3, <2>4, <2>5, Zenon DEF TypeInv, EditorsInv, ProjectsInv, CppModelTypeOK
<1> QED
  BY <1>1, TypeInit, TypeNext, PTL DEF Spec

-----------------------------------------------------------------------------
(* The filter and the manager. *)

(* Every document is told to the manager and then, next, to the filter.    *)
PairsInv ==
    /\ \A i \in 1..Len(queue) : queue[i].to = "manager" =>
          i < Len(queue) /\ queue[i + 1] = [to |-> "filter", doc |-> queue[i].doc]
    /\ \A i \in 2..Len(queue) : queue[i].to = "filter" =>
          queue[i - 1] = [to |-> "manager", doc |-> queue[i].doc]

(* The filter has what the manager has, but for the document that only the *)
(* manager was told of; and of that one a collection takes all or nothing. *)
FollowInv ==
    /\ \A f \in DOMAIN snapshot :
          \/ f \in DOMAIN searchList /\ searchList[f] = snapshot[f]
          \/ queue # <<>> /\ Head(queue) = [to |-> "filter", doc |-> snapshot[f]]
    /\ queue # <<>> /\ Head(queue).to = "filter" /\ Head(queue).doc.file \in DOMAIN snapshot
       => snapshot[Head(queue).doc.file] = Head(queue).doc

FilterInv == PairsInv /\ FollowInv

(* The events of a document, put after the others.                         *)
LEMMA ToldAfter ==
    ASSUME QueueInv, NEW doc \in Document, queue' = queue \o Told(doc)
    PROVE  /\ Len(queue) \in Nat /\ Len(queue') = Len(queue) + 2
           /\ \A i \in 1..Len(queue) : queue'[i] = queue[i]
           /\ queue'[Len(queue) + 1] = [to |-> "manager", doc |-> doc]
           /\ queue'[Len(queue) + 2] = [to |-> "filter", doc |-> doc]
           /\ queue' # <<>>
           /\ Head(queue') = IF queue = <<>> THEN [to |-> "manager", doc |-> doc] ELSE Head(queue)
<1> DEFINE told == Told(doc)
           q == queue \o told
<1>1. /\ queue \in Seq(Posted) /\ told \in Seq(Posted) /\ Len(told) = 2
      /\ told[1] = [to |-> "manager", doc |-> doc]
      /\ told[2] = [to |-> "filter", doc |-> doc]
  BY ToldType DEF QueueInv
<1> HIDE DEF told
<1>2. /\ Len(queue) \in Nat /\ q \in Seq(Posted) /\ Len(q) = Len(queue) + 2
      /\ \A i \in 1..Len(queue) + 2 :
            q[i] = IF i <= Len(queue) THEN queue[i] ELSE told[i - Len(queue)]
  BY <1>1, ConcatProperties, LenProperties
<1>3. queue' = q
  BY DEF told
<1> HIDE DEF q
<1>4. /\ \A i \in 1..Len(queue) : q[i] = queue[i]
      /\ q[Len(queue) + 1] = told[1] /\ q[Len(queue) + 2] = told[2]
  BY <1>2
<1>5. q # <<>> /\ Head(q) = q[1]
  BY <1>2, EmptySeq, HeadTailProperties
<1>6. queue # <<>> => Head(queue) = queue[1] /\ 1 \in 1..Len(queue)
  BY <1>1, <1>2, EmptySeq, HeadTailProperties
<1>7. queue = <<>> => Len(queue) = 0
  BY EmptySeq
<1> QED
  BY <1>1, <1>2, <1>3, <1>4, <1>5, <1>6, <1>7

LEMMA PairsNext ==
    ASSUME TypeInv, PairsInv, [Next]_vars
    PROVE  PairsInv'
<1>1. QueueInv /\ TasksInv
  BY DEF TypeInv
<1>2. ASSUME NEW n \in DOMAIN tasks, Tell(n) PROVE PairsInv'
  <2> DEFINE doc == Head(tasks[n].found)
             N == Len(queue)
  <2>1. doc \in Document /\ queue' = queue \o Told(doc)
    BY <1>1, <1>2, FoundType DEF Tell, TasksInv, Told
  <2> HIDE DEF doc
  <2>2. /\ N \in Nat /\ Len(queue') = N + 2
        /\ \A i \in 1..N : queue'[i] = queue[i]
        /\ queue'[N + 1] = [to |-> "manager", doc |-> doc]
        /\ queue'[N + 2] = [to |-> "filter", doc |-> doc]
    BY <1>1, <2>1, ToldAfter
  <2>3. /\ \A i \in 1..N : queue[i].to = "manager" =>
              i < N /\ queue[i + 1] = [to |-> "filter", doc |-> queue[i].doc]
        /\ \A i \in 2..N : queue[i].to = "filter" =>
              queue[i - 1] = [to |-> "manager", doc |-> queue[i].doc]
    BY DEF PairsInv
  <2> HIDE DEF N
  <2>4. ASSUME NEW i \in 1..N + 2, queue'[i].to = "manager"
        PROVE  i < N + 2 /\ queue'[i + 1] = [to |-> "filter", doc |-> queue'[i].doc]
    <3>1. CASE i \in 1..N
      <4>1. i < N /\ queue[i + 1] = [to |-> "filter", doc |-> queue[i].doc]
        BY <2>2, <2>3, <2>4, <3>1
      <4>2. i + 1 \in 1..N
        BY <2>2, <3>1, <4>1
      <4> QED
        BY <2>2, <3>1, <4>1, <4>2
    <3>2. CASE i = N + 1
      <4>1. i + 1 = N + 2 /\ i < N + 2
        BY <2>2, <3>2
      <4> QED
        BY <2>2, <3>2, <4>1
    <3>3. CASE i = N + 2
      BY <2>2, <2>4, <3>3
    <3> QED
      BY <2>2, <3>1, <3>2, <3>3
  <2>5. ASSUME NEW i \in 2..N + 2, queue'[i].to = "filter"
        PROVE  queue'[i - 1] = [to |-> "manager", doc |-> queue'[i].doc]
    <3>1. CASE i \in 2..N
      <4>1. i \in 1..N /\ i - 1 \in 1..N
        BY <2>2, <3>1
      <4> QED
        BY <2>2, <2>3, <2>5, <3>1, <4>1
    <3>2. CASE i = N + 1
      BY <2>2, <2>5, <3>2
    <3>3. CASE i = N + 2
      <4>1. i - 1 = N + 1
        BY <2>2, <3>3
      <4> QED
        BY <2>2, <3>3, <4>1
    <3> QED
      BY <2>2, <3>1, <3>2, <3>3
  <2> QED
    BY <2>2, <2>4, <2>5 DEF PairsInv
<1>3. CASE OnDocumentUpdated
  <2>1. queue # <<>> /\ queue' = Tail(queue)
    BY <1>1, <1>3, Arrives
  <2>2. /\ Len(queue) \in Nat \ {0} /\ Len(queue') = Len(queue) - 1
        /\ \A i \in 1..Len(queue') : i + 1 \in 1..Len(queue) /\ queue'[i] = queue[i + 1]
    BY <1>1, <2>1, HeadPosted
  <2>3. ASSUME NEW i \in 1..Len(queue'), queue'[i].to = "manager"
        PROVE  i < Len(queue') /\ queue'[i + 1] = [to |-> "filter", doc |-> queue'[i].doc]
    <3>1. i + 1 \in 1..Len(queue) /\ queue'[i] = queue[i + 1]
      BY <2>2
    <3>2. /\ i + 1 < Len(queue)
          /\ queue[(i + 1) + 1] = [to |-> "filter", doc |-> queue[i + 1].doc]
      BY <2>3, <3>1 DEF PairsInv
    <3>3. i + 1 \in 1..Len(queue')
      BY <2>2, <3>2
    <3>4. queue'[i + 1] = queue[(i + 1) + 1]
      BY <2>2, <3>3
    <3> QED
      BY <3>1, <3>2, <3>3, <3>4
  <2>4. ASSUME NEW i \in 2..Len(queue'), queue'[i].to = "filter"
        PROVE  queue'[i - 1] = [to |-> "manager", doc |-> queue'[i].doc]
    <3>1. /\ i \in 1..Len(queue') /\ i - 1 \in 1..Len(queue')
          /\ (i - 1) + 1 = i /\ (i + 1) - 1 = i /\ i + 1 \in 2..Len(queue)
      BY <2>2
    <3>2. queue'[i] = queue[i + 1] /\ queue'[i - 1] = queue[i]
      BY <2>2, <3>1
    <3>3. queue[(i + 1) - 1] = [to |-> "manager", doc |-> queue[i + 1].doc]
      BY <2>4, <3>1, <3>2 DEF PairsInv
    <3> QED
      BY <3>1, <3>2, <3>3
  <2> QED
    BY <2>3, <2>4 DEF PairsInv
<1>4. ASSUME UNCHANGED queue PROVE PairsInv'
  BY <1>4 DEF PairsInv
<1>5. CASE UNCHANGED vars
  BY <1>4, <1>5 DEF vars
<1>6. CASE Pool
  BY <1>2, <1>4, <1>6 DEF Pool, ParseFile, Finish
<1>7. CASE ProjectManager
  BY <1>4, <1>7 DEF ProjectManager, UpdateCodeModel, OnAboutToRemoveProject, FileChanged,
     OnProjectAdded, OnSessionUnloaded
<1>8. CASE Editing
  BY <1>4, <1>8 DEF Editing, EditorOpened, EditorAboutToClose, UpdateDocument, Save,
     UpdateDocumentNow
<1> QED
  BY <1>3, <1>5, <1>6, <1>7, <1>8 DEF Next

LEMMA FollowNext ==
    ASSUME TypeInv, FilterInv, [Next]_vars
    PROVE  FollowInv'
<1>1. QueueInv /\ TasksInv /\ ListsInv /\ PairsInv /\ FollowInv
  BY DEF TypeInv, FilterInv
<1>2. ASSUME NEW n \in DOMAIN tasks, Tell(n) PROVE FollowInv'
  <2> DEFINE doc == Head(tasks[n].found)
  <2>1. doc \in Document /\ queue' = queue \o Told(doc)
    BY <1>1, <1>2, FoundType DEF Tell, TasksInv, Told
  <2>2. snapshot' = snapshot /\ searchList' = searchList
    BY <1>2 DEF Tell, model
  <2> HIDE DEF doc
  <2>3. /\ queue' # <<>>
        /\ Head(queue') = IF queue = <<>> THEN [to |-> "manager", doc |-> doc] ELSE Head(queue)
    BY <1>1, <2>1, ToldAfter
  <2> QED
    BY <1>1, <2>2, <2>3 DEF FollowInv
<1>3. CASE OnDocumentUpdated
  <2> DEFINE doc == Head(queue).doc
             next == Head(queue')
  <2>1. /\ queue # <<>> /\ queue' = Tail(queue)
        /\ \/ /\ Head(queue).to = "manager"
              /\ snapshot' = Enter(snapshot, doc.file, doc) /\ searchList' = searchList
           \/ /\ Head(queue).to = "filter"
              /\ searchList' = Enter(searchList, doc.file, doc) /\ snapshot' = snapshot
    BY <1>1, <1>3, Arrives
  <2>2. /\ Tail(queue) \in Seq(Posted) /\ Len(queue) \in Nat \ {0} /\ Head(queue) = queue[1]
        /\ Len(queue') = Len(queue) - 1
        /\ \A i \in 1..Len(queue') : i + 1 \in 1..Len(queue) /\ queue'[i] = queue[i + 1]
    BY <1>1, <2>1, HeadPosted
  <2>3. \A f \in DOMAIN snapshot : snapshot[f].file = f
    BY <1>1 DEF ListsInv, Documents
  <2>4. Len(queue') > 0 => queue' # <<>> /\ next = queue[2]
    <3> DEFINE rest == queue'
    <3>1. rest \in Seq(Posted) /\ Len(rest) \in Nat
      BY <2>1, <2>2
    <3>2. Len(rest) > 0 => rest # <<>>
      BY <3>1, EmptySeq
    <3>3. rest # <<>> => Head(rest) = rest[1]
      BY <3>1, HeadTailProperties
    <3>4. Len(rest) > 0 => rest[1] = queue[1 + 1]
      BY <2>2, <3>1
    <3> QED
      BY <3>2, <3>3, <3>4
  <2>5. queue' # <<>> => Len(queue') > 0
    BY <2>1, <2>2, EmptySeq
  <2>6. CASE Head(queue).to = "manager"
    <3>1. queue[1].to = "manager" /\ 1 \in 1..Len(queue)
      BY <2>2, <2>6
    <3>2. 1 < Len(queue) /\ queue[1 + 1] = [to |-> "filter", doc |-> queue[1].doc]
      BY <1>1, <3>1 DEF PairsInv
    <3>3. queue' # <<>> /\ next = [to |-> "filter", doc |-> doc]
      BY <2>2, <2>4, <3>2
    <3>4. snapshot' = Enter(snapshot, doc.file, doc) /\ searchList' = searchList
      BY <2>1, <2>6
    <3> HIDE DEF doc, next
    <3>5. ASSUME NEW f \in DOMAIN snapshot'
          PROVE  \/ f \in DOMAIN searchList' /\ searchList'[f] = snapshot'[f]
                 \/ next = [to |-> "filter", doc |-> snapshot'[f]]
      <4>1. CASE f = doc.file
        BY <3>3, <3>4, <4>1 DEF Enter
      <4>2. CASE f # doc.file
        <5>1. f \in DOMAIN snapshot /\ snapshot'[f] = snapshot[f]
          BY <3>4, <4>2 DEF Enter
        <5>2. f \in DOMAIN searchList /\ searchList[f] = snapshot[f]
          BY <1>1, <2>6, <5>1 DEF FollowInv
        <5> QED
          BY <3>4, <5>1, <5>2
      <4> QED
        BY <4>1, <4>2
    <3>6. next.doc.file \in DOMAIN snapshot' => snapshot'[next.doc.file] = next.doc
      BY <3>3, <3>4 DEF Enter
    <3> QED
      BY <3>3, <3>5, <3>6 DEF FollowInv, next
  <2>7. CASE Head(queue).to = "filter"
    <3>1. searchList' = Enter(searchList, doc.file, doc) /\ snapshot' = snapshot
      BY <2>1, <2>7
    <3>2. queue' # <<>> => next.to # "filter"
      <4> SUFFICES ASSUME queue' # <<>>, next.to = "filter" PROVE FALSE
        OBVIOUS
      <4>1. next = queue[2] /\ 2 \in 2..Len(queue)
        BY <2>2, <2>4, <2>5
      <4>2. queue[2 - 1] = [to |-> "manager", doc |-> queue[2].doc]
        BY <1>1, <4>1 DEF PairsInv
      <4> QED
        BY <2>2, <2>7, <4>2
    <3>3. ASSUME NEW f \in DOMAIN snapshot
          PROVE  f \in DOMAIN searchList' /\ searchList'[f] = snapshot[f]
      <4>1. f = doc.file => snapshot[f] = doc
        BY <1>1, <2>1, <2>7 DEF FollowInv
      <4>2. \/ f \in DOMAIN searchList /\ searchList[f] = snapshot[f]
            \/ doc = snapshot[f]
        BY <1>1 DEF FollowInv
      <4> HIDE DEF doc
      <4>3. CASE f = doc.file
        BY <3>1, <4>1, <4>3 DEF Enter
      <4>4. CASE f # doc.file
        <5>1. doc # snapshot[f]
          BY <2>3, <4>4
        <5> QED
          BY <3>1, <4>2, <4>4, <5>1 DEF Enter
      <4> QED
        BY <4>3, <4>4
    <3> HIDE DEF doc
    <3>4. \A f \in DOMAIN snapshot' : f \in DOMAIN searchList' /\ searchList'[f] = snapshot'[f]
      BY <3>1, <3>3
    <3> QED
      BY <3>2, <3>4 DEF FollowInv, next
  <2> QED
    BY <2>1, <2>6, <2>7
<1>4. ASSUME NEW ps, GC(ps), UNCHANGED queue PROVE FollowInv'
  <2> DEFINE removed == DOMAIN snapshot \ Reached(projectFiles', snapshot)
  <2>1. searchList' = Without(searchList, removed) /\ snapshot' = Without(snapshot, removed)
    BY <1>4 DEF GC
  <2> HIDE DEF removed
  <2>2. /\ \A f \in DOMAIN snapshot' : f \in DOMAIN snapshot /\ f \notin removed
                                       /\ snapshot'[f] = snapshot[f]
        /\ \A f \in DOMAIN searchList : f \notin removed =>
              f \in DOMAIN searchList' /\ searchList'[f] = searchList[f]
    BY <2>1 DEF Without, Restrict
  <2> QED
    BY <1>1, <1>4, <2>2 DEF FollowInv
<1>5. ASSUME UNCHANGED <<snapshot, searchList, queue>> PROVE FollowInv'
  BY <1>1, <1>5 DEF FollowInv
<1>6. CASE UNCHANGED vars
  BY <1>5, <1>6 DEF vars, model
<1>7. CASE Pool
  BY <1>2, <1>5, <1>7 DEF Pool, ParseFile, Finish, model
<1>8. CASE ProjectManager
  BY <1>4, <1>5, <1>8 DEF ProjectManager, UpdateCodeModel, OnAboutToRemoveProject, FileChanged,
     OnProjectAdded, OnSessionUnloaded
<1>9. CASE Editing
  BY <1>5, <1>9 DEF Editing, EditorOpened, EditorAboutToClose, UpdateDocument, Save,
     UpdateDocumentNow, model
<1> QED
  BY <1>3, <1>6, <1>7, <1>8, <1>9 DEF Next

LEMMA FilterInit == Init => FilterInv
<1>1. Len(<<>>) = 0 /\ DOMAIN <<>> = {}
  BY EmptySeq
<1>2. 1..0 = {} /\ 2..0 = {}
  OBVIOUS
<1> QED
  BY <1>1, <1>2 DEF Init, FilterInv, PairsInv, FollowInv

(* The quick open filter has the document that the manager has, or the     *)
(* event that brings it waits, whatever the tasks find and whenever        *)
(* projects go between the two events.                                     *)
THEOREM FilterKeepsUp == Spec => []FilterFollows
<1>1. TypeInv /\ FilterInv /\ [Next]_vars => FilterInv'
  <2> SUFFICES ASSUME TypeInv, FilterInv, [Next]_vars PROVE FilterInv'
    OBVIOUS
  <2>1. PairsInv'
    BY PairsNext DEF FilterInv
  <2>2. FollowInv'
    BY FollowNext
  <2> QED
    BY <2>1, <2>2 DEF FilterInv
<1>2. TypeInv /\ FilterInv => FilterFollows
  <2> SUFFICES ASSUME TypeInv, FilterInv, NEW f \in DOMAIN snapshot,
                      ~(f \in DOMAIN searchList /\ searchList[f] = snapshot[f])
               PROVE  \E i \in 1..Len(queue) : queue[i] = [to |-> "filter", doc |-> snapshot[f]]
    BY DEF FilterFollows
  <2>1. queue # <<>> /\ Head(queue) = [to |-> "filter", doc |-> snapshot[f]]
    BY DEF FilterInv, FollowInv
  <2>2. Head(queue) = queue[1] /\ 1 \in 1..Len(queue)
    BY <2>1, HeadPosted DEF TypeInv
  <2> QED
    BY <2>1, <2>2
<1> QED
  BY <1>1, <1>2, TypeInit, TypeNext, FilterInit, PTL DEF Spec

-----------------------------------------------------------------------------
(* The documents of an editor. *)

(* Every document, and every task, is of a support that was made.          *)
MadeInv ==
    /\ \A f \in DOMAIN snapshot : snapshot[f].support <= supports
    /\ \A i \in 1..Len(queue) : queue[i].doc.support <= supports
    /\ \A n \in DOMAIN tasks :
          /\ tasks[n].support <= supports
          /\ \A i \in 1..Len(tasks[n].found) : tasks[n].found[i].support = tasks[n].support

(* A document that an editor's task made of the text that the editor shows. *)
Own(doc, f, e) == doc.file = f /\ doc.support = e.support

(* What a task still makes of the text is no older than a version.         *)
MakesNoOlder(t, f, e, version) ==
    /\ t.todo # <<>> => f \in DOMAIN t.copy /\ version <= t.copy[f]
    /\ \A i \in 1..Len(t.found) : Own(t.found[i], f, e) => version <= t.found[i].version

(* Nothing that is to come is older than a version.                        *)
NoOlder(ts, f, e, version) ==
    /\ version <= e.version
    /\ \A n \in DOMAIN ts : ts[n].support = e.support => MakesNoOlder(ts[n], f, e, version)

(* A task makes nothing newer than the editor has, and that in order.      *)
TaskInOrder(t, f, e) ==
    /\ t.todo # <<>> => f \in DOMAIN t.copy /\ t.copy[f] <= e.version
    /\ \A i \in 1..Len(t.found) : Own(t.found[i], f, e) =>
          /\ t.found[i].version <= e.version
          /\ t.todo # <<>> => t.found[i].version <= t.copy[f]
          /\ \A j \in 1..Len(t.found) : i <= j /\ Own(t.found[j], f, e) =>
                t.found[i].version <= t.found[j].version

(* The editor has one task at a time.                                      *)
TasksInOrder(ts, f, e) ==
    \A n \in DOMAIN ts : ts[n].support = e.support =>
        /\ \A m \in DOMAIN ts : ts[m].support = e.support => m = n
        /\ TaskInOrder(ts[n], f, e)

(* The events, and after them the task, bring versions that do not go back. *)
EventsInOrder(q, ts, f, e) ==
    \A i \in 1..Len(q) : Own(q[i].doc, f, e) =>
        /\ NoOlder(ts, f, e, q[i].doc.version)
        /\ \A j \in 1..Len(q) : i <= j /\ Own(q[j].doc, f, e) =>
              q[i].doc.version <= q[j].doc.version

SnapshotInOrder(s, q, ts, f, e) ==
    f \in DOMAIN s /\ Own(s[f], f, e) =>
        /\ NoOlder(ts, f, e, s[f].version)
        /\ \A i \in 1..Len(q) : Own(q[i].doc, f, e) => s[f].version <= q[i].doc.version

InOrder(f) ==
    /\ TasksInOrder(tasks, f, editors[f])
    /\ EventsInOrder(queue, tasks, f, editors[f])
    /\ SnapshotInOrder(snapshot, queue, tasks, f, editors[f])

OrderInv == MadeInv /\ \A f \in DOMAIN editors : InOrder(f)

-----------------------------------------------------------------------------
(* Steps that make no document and start no task of an editor.             *)

SameTask(t, u) == u.support = t.support /\ u.todo = t.todo /\ u.copy = t.copy /\ u.found = t.found

KeepsTasks ==
    \A n \in DOMAIN tasks' :
        \/ n \in DOMAIN tasks /\ SameTask(tasks[n], tasks'[n])
        \/ tasks'[n].support = None /\ tasks'[n].found = <<>>

KeepsEditors ==
    \A f \in DOMAIN editors' :
        /\ f \in DOMAIN editors /\ editors'[f].support = editors[f].support
        /\ editors[f].version <= editors'[f].version

KeepsSnapshot == \A f \in DOMAIN snapshot' : f \in DOMAIN snapshot /\ snapshot'[f] = snapshot[f]

LEMMA VersionsType ==
    ASSUME TypeInv
    PROVE  /\ supports \in Nat /\ clock \in Nat
           /\ \A f \in DOMAIN editors :
                 /\ editors[f].support \in 1..supports /\ editors[f].version \in Nat
                 /\ editors[f].version <= clock
           /\ \A f \in DOMAIN snapshot :
                 snapshot[f].version \in Nat /\ snapshot[f].support \in Nat
           /\ \A i \in 1..Len(queue) :
                 queue[i].doc.version \in Nat /\ queue[i].doc.support \in Nat
           /\ \A n \in DOMAIN tasks :
                 /\ tasks[n].support \in Nat
                 /\ \A f \in DOMAIN tasks[n].copy : tasks[n].copy[f] \in Nat
                 /\ \A i \in 1..Len(tasks[n].found) : tasks[n].found[i].version \in Nat
<1>1. /\ supports \in Nat /\ clock \in Nat
      /\ \A f \in DOMAIN editors :
            /\ editors[f].support \in 1..supports /\ editors[f].version \in Nat
            /\ editors[f].version <= clock
  BY DEF TypeInv, EditorsInv, TextsInv
<1>2. \A f \in DOMAIN snapshot : snapshot[f].version \in Nat /\ snapshot[f].support \in Nat
  BY DEF TypeInv, ListsInv, Documents, Document
<1>3. ASSUME NEW i \in 1..Len(queue)
      PROVE  queue[i].doc.version \in Nat /\ queue[i].doc.support \in Nat
  <2>1. queue[i] \in Posted
    BY ElementOfSeq DEF TypeInv, QueueInv
  <2> QED
    BY <2>1 DEF Posted, Document
<1>4. ASSUME NEW n \in DOMAIN tasks
      PROVE  /\ tasks[n].support \in Nat
             /\ \A f \in DOMAIN tasks[n].copy : tasks[n].copy[f] \in Nat
             /\ \A i \in 1..Len(tasks[n].found) : tasks[n].found[i].version \in Nat
  <2>1. tasks[n] \in Task
    BY DEF TypeInv, TasksInv
  <2>2. tasks[n].found \in Seq(Document) /\ tasks[n].copy \in Texts /\ tasks[n].support \in Nat
    BY <2>1 DEF Task
  <2>3. \A i \in 1..Len(tasks[n].found) : tasks[n].found[i] \in Document
    BY <2>2, ElementOfSeq
  <2> QED
    BY <2>2, <2>3 DEF Document, Texts
<1> QED
  BY <1>1, <1>2, <1>3, <1>4

LEMMA OrderKept ==
    ASSUME TypeInv, TypeInv', OrderInv, KeepsTasks, KeepsEditors, KeepsSnapshot,
           queue' = queue, supports' = supports
    PROVE  OrderInv'
<1>1. /\ supports \in Nat
      /\ \A f \in DOMAIN editors : editors[f].support \in 1..supports /\ editors[f].version \in Nat
      /\ \A f \in DOMAIN editors' : editors'[f].version \in Nat
  BY DEF TypeInv, EditorsInv, TextsInv
<1>2. MadeInv'
  <2>1. Len(<<>>) = 0 /\ 1..0 = {}
    BY EmptySeq
  <2> QED
    BY <1>1, <2>1 DEF OrderInv, MadeInv, KeepsTasks, KeepsSnapshot, SameTask, None
<1>3. ASSUME NEW f \in DOMAIN editors' PROVE InOrder(f)'
  <2> DEFINE e == editors[f]
             d == editors'[f]
  <2>1. /\ f \in DOMAIN editors /\ d.support = e.support /\ e.version <= d.version
        /\ e.support \in Nat \ {0} /\ e.version \in Nat /\ d.version \in Nat
    BY <1>1 DEF KeepsEditors
  <2>2. /\ TasksInOrder(tasks, f, e) /\ EventsInOrder(queue, tasks, f, e)
        /\ SnapshotInOrder(snapshot, queue, tasks, f, e)
    BY <2>1 DEF OrderInv, InOrder
  <2>3. \A doc : Own(doc, f, d) <=> Own(doc, f, e)
    BY <2>1 DEF Own
  <2> HIDE DEF e, d
  <2>4. \A n \in DOMAIN tasks' : tasks'[n].support = d.support =>
           n \in DOMAIN tasks /\ tasks[n].support = e.support /\ SameTask(tasks[n], tasks'[n])
    BY <2>1 DEF KeepsTasks, None, SameTask
  <2>5. ASSUME NEW n \in DOMAIN tasks, tasks[n].support = e.support
        PROVE  /\ tasks[n].todo # <<>> /\ f \in DOMAIN tasks[n].copy => tasks[n].copy[f] \in Nat
               /\ \A i \in 1..Len(tasks[n].found) : tasks[n].found[i].version \in Nat
    BY <2>5, VersionsType
  <2>6. TasksInOrder(tasks', f, d)
    <3> SUFFICES ASSUME NEW n \in DOMAIN tasks', tasks'[n].support = d.support
                 PROVE  /\ \A m \in DOMAIN tasks' : tasks'[m].support = d.support => m = n
                        /\ TaskInOrder(tasks'[n], f, d)
      BY DEF TasksInOrder
    <3> DEFINE t == tasks[n]
               u == tasks'[n]
    <3>1. n \in DOMAIN tasks /\ t.support = e.support /\ SameTask(t, u)
      BY <2>4
    <3>2. \A m \in DOMAIN tasks' : tasks'[m].support = d.support => m = n
      BY <2>2, <2>4, <3>1 DEF TasksInOrder
    <3>3. TaskInOrder(t, f, e)
      BY <2>2, <3>1 DEF TasksInOrder
    <3>4. /\ t.todo # <<>> /\ f \in DOMAIN t.copy => t.copy[f] \in Nat
          /\ \A i \in 1..Len(t.found) : t.found[i].version \in Nat
      BY <2>5, <3>1
    <3> HIDE DEF t, u
    <3>5. TaskInOrder(u, f, d)
      BY <2>1, <2>3, <3>1, <3>3, <3>4 DEF TaskInOrder, SameTask
    <3> QED
      BY <3>2, <3>5 DEF u
  <2>7. ASSUME NEW v \in Nat, NoOlder(tasks, f, e, v) PROVE NoOlder(tasks', f, d, v)
    <3>1. v <= d.version
      BY <2>1, <2>7 DEF NoOlder
    <3>2. ASSUME NEW n \in DOMAIN tasks', tasks'[n].support = d.support
          PROVE  MakesNoOlder(tasks'[n], f, d, v)
      <4>1. n \in DOMAIN tasks /\ tasks[n].support = e.support /\ SameTask(tasks[n], tasks'[n])
        BY <2>4, <3>2
      <4>2. MakesNoOlder(tasks[n], f, e, v)
        BY <2>7, <4>1 DEF NoOlder
      <4> QED
        BY <2>3, <4>1, <4>2 DEF MakesNoOlder, SameTask
    <3> QED
      BY <3>1, <3>2 DEF NoOlder
  <2>8. EventsInOrder(queue', tasks', f, d)
    <3>1. \A i \in 1..Len(queue) : queue[i].doc.version \in Nat
      BY VersionsType
    <3> QED
      BY <2>2, <2>3, <2>7, <3>1 DEF EventsInOrder
  <2>9. SnapshotInOrder(snapshot', queue', tasks', f, d)
    <3>1. f \in DOMAIN snapshot => snapshot[f].version \in Nat
      BY VersionsType
    <3> QED
      BY <2>2, <2>3, <2>7, <3>1 DEF SnapshotInOrder, KeepsSnapshot
  <2> QED
    BY <2>6, <2>8, <2>9 DEF InOrder, d
<1> QED
  BY <1>2, <1>3 DEF OrderInv

(* What a task has found after it has read one file more. *)
LEMMA ParsedDocuments ==
    ASSUME CppModelAssumption, NEW t \in Task, t.todo # <<>>, NEW u, u = Parsed(t)
    PROVE  /\ u.support = t.support /\ u.todo = Tail(t.todo)
           /\ u.todo # <<>> => u.copy = t.copy
           /\ \A i \in 1..Len(u.found) :
                 /\ u.found[i].support = t.support
                 /\ u.found[i].file \in DOMAIN t.copy =>
                       u.found[i].version = t.copy[u.found[i].file]
<1> DEFINE Text(g) == IF g \in DOMAIN t.copy THEN t.copy[g] ELSE disk[g]
           reading == SourceNeeded(Head(t.todo), [g \in Files |-> Text(g)],
                                   t.cached, t.included)
           Doc(g) == [file |-> g, version |-> Text(g), support |-> t.support]
           found == [i \in 1..Len(reading.parsed) |-> Doc(reading.parsed[i])]
           last == Tail(t.todo) = <<>>
           copy == IF last THEN <<>> ELSE t.copy
           cached == IF last THEN {} ELSE t.cached
           included == IF last THEN {} ELSE reading.included
<1>1. /\ t.todo \in Seq(Files) /\ t.included \in SUBSET Files
  BY DEF Task
<1>2. Head(t.todo) \in Files /\ Tail(t.todo) \in Seq(Files)
  BY <1>1, HeadTailProperties
<1>3. reading \in Reading
  BY <1>1, <1>2, SourceNeededType
<1>4. u = [t EXCEPT !.todo = Tail(@),
                    !.copy = IF last THEN <<>> ELSE @,
                    !.cached = IF last THEN {} ELSE @,
                    !.included = IF last THEN {} ELSE reading.included,
                    !.found = found]
  BY Zenon DEF Parsed
<1>5. \A g : Doc(g).file = g /\ Doc(g).support = t.support
             /\ (g \in DOMAIN t.copy => Doc(g).version = t.copy[g])
  OBVIOUS
<1> HIDE DEF reading, Doc
<1>6. Len(reading.parsed) \in Nat /\ Len(found) = Len(reading.parsed)
  <2>1. reading.parsed \in Seq(Files)
    BY <1>3 DEF Reading
  <2>2. Len(reading.parsed) \in Nat
    BY <2>1, LenProperties
  <2> QED
    BY <2>2
<1>7. \A i \in 1..Len(found) : found[i] = Doc(reading.parsed[i])
  BY <1>6
<1> HIDE DEF found
<1>8. u = [t EXCEPT !.todo = Tail(t.todo), !.copy = copy, !.cached = cached,
                    !.included = included, !.found = found]
  BY <1>4, Zenon
<1> HIDE DEF cached, included
<1>9. u.support = t.support /\ u.todo = Tail(t.todo) /\ u.copy = copy /\ u.found = found
  BY <1>8 DEF Task
<1>10. \A i \in 1..Len(found) :
          /\ found[i].support = t.support
          /\ found[i].file \in DOMAIN t.copy => found[i].version = t.copy[found[i].file]
  BY <1>5, <1>7
<1> QED
  BY <1>9, <1>10

(* A task that reads makes no older document of the text that the editor   *)
(* shows than the copy that it was given.                                  *)
LEMMA OrderParse ==
    ASSUME TypeInv, OrderInv, NEW n \in DOMAIN tasks, ParseFile(n)
    PROVE  OrderInv'
<1> DEFINE t == tasks[n]
           u == tasks'[n]
<1>1. /\ t \in Task /\ t.todo # <<>> /\ t.found = <<>>
      /\ tasks' = [tasks EXCEPT ![n] = Parsed(t)]
      /\ UNCHANGED <<editors, supports, snapshot, queue>>
  BY DEF ParseFile, model, TypeInv, TasksInv
<1>2. /\ u = Parsed(t) /\ DOMAIN tasks' = DOMAIN tasks
      /\ \A m \in DOMAIN tasks : m # n => tasks'[m] = tasks[m]
  BY <1>1
<1>3. /\ u.support = t.support
      /\ u.todo # <<>> => u.copy = t.copy
      /\ \A i \in 1..Len(u.found) :
            /\ u.found[i].support = t.support
            /\ u.found[i].file \in DOMAIN t.copy => u.found[i].version = t.copy[u.found[i].file]
  BY <1>1, <1>2, CppModelAssumption, ParsedDocuments
<1>4. MadeInv'
  BY <1>1, <1>2, <1>3 DEF OrderInv, MadeInv
<1>5. ASSUME NEW f \in DOMAIN editors PROVE InOrder(f)'
  <2> DEFINE e == editors[f]
  <2>1. /\ TasksInOrder(tasks, f, e) /\ EventsInOrder(queue, tasks, f, e)
        /\ SnapshotInOrder(snapshot, queue, tasks, f, e)
    BY DEF OrderInv, InOrder
  <2>2. \A m \in DOMAIN tasks : \A g \in DOMAIN tasks[m].copy : tasks[m].copy[g] \in Nat
    BY VersionsType
  <2>3. e' = e
    BY <1>1
  <2>4. e.support = t.support =>
           /\ f \in DOMAIN t.copy /\ t.copy[f] <= e.version /\ t.copy[f] \in Nat
           /\ \A i \in 1..Len(u.found) : Own(u.found[i], f, e) => u.found[i].version = t.copy[f]
    <3>1. e.support = t.support => TaskInOrder(t, f, e)
      BY <2>1 DEF TasksInOrder
    <3> QED
      BY <1>1, <1>3, <2>2, <3>1 DEF TaskInOrder, Own
  <2> HIDE DEF e
  <2>5. TasksInOrder(tasks', f, e)
    <3>1. e.support = t.support => TaskInOrder(u, f, e)
      <4> HIDE DEF t, u
      <4> QED
        BY <1>3, <2>4 DEF TaskInOrder
    <3> QED
      BY <1>2, <1>3, <2>1, <3>1 DEF TasksInOrder
  <2>6. ASSUME NEW v, NoOlder(tasks, f, e, v) PROVE NoOlder(tasks', f, e, v)
    <3>1. e.support = t.support => v <= t.copy[f]
      BY <1>1, <2>6 DEF NoOlder, MakesNoOlder
    <3>2. e.support = t.support => MakesNoOlder(u, f, e, v)
      <4> HIDE DEF t, u
      <4> QED
        BY <1>3, <2>4, <3>1 DEF MakesNoOlder
    <3> QED
      BY <1>2, <1>3, <2>6, <3>2 DEF NoOlder
  <2>7. EventsInOrder(queue', tasks', f, e) /\ SnapshotInOrder(snapshot', queue', tasks', f, e)
    BY <1>1, <2>1, <2>6 DEF EventsInOrder, SnapshotInOrder
  <2> QED
    BY <2>3, <2>5, <2>7 DEF InOrder, e
<1> QED
  BY <1>1, <1>4, <1>5 DEF OrderInv

(* A document that a task tells of comes after the events that are posted  *)
(* already, and before what the task still makes.                          *)
LEMMA OrderTell ==
    ASSUME TypeInv, OrderInv, NEW n \in DOMAIN tasks, Tell(n)
    PROVE  OrderInv'
<1> DEFINE t == tasks[n]
           u == tasks'[n]
           doc == Head(t.found)
           N == Len(queue)
<1>1. /\ t \in Task /\ t.found # <<>> /\ queue' = queue \o Told(doc)
      /\ tasks' = [tasks EXCEPT ![n].found = Tail(t.found)]
      /\ UNCHANGED <<editors, supports, snapshot>>
  BY DEF Tell, Told, model, TypeInv, TasksInv
<1>2. /\ u = [t EXCEPT !.found = Tail(t.found)] /\ DOMAIN tasks' = DOMAIN tasks
      /\ \A m \in DOMAIN tasks : m # n => tasks'[m] = tasks[m]
  BY <1>1
<1>3. /\ u.support = t.support /\ u.todo = t.todo /\ u.copy = t.copy /\ u.found = Tail(t.found)
  BY <1>1, <1>2 DEF Task
<1>4. doc \in Document
  BY <1>1, FoundType
<1>5. /\ Len(t.found) \in Nat /\ Len(t.found) >= 1 /\ doc = t.found[1]
      /\ Len(u.found) = Len(t.found) - 1
      /\ \A i \in 1..Len(u.found) : i + 1 \in 1..Len(t.found) /\ u.found[i] = t.found[i + 1]
  <2>1. t.found \in Seq(Document)
    BY <1>1 DEF Task
  <2>2. /\ Len(t.found) \in Nat /\ Len(t.found) # 0 /\ doc = t.found[1]
        /\ Len(Tail(t.found)) = Len(t.found) - 1
        /\ \A i \in 1..Len(Tail(t.found)) : Tail(t.found)[i] = t.found[i + 1]
    BY <1>1, <2>1, HeadTailProperties, LenProperties, EmptySeq
  <2> QED
    BY <1>3, <2>2
<1>6. /\ N \in Nat /\ Len(queue') = N + 2
      /\ \A i \in 1..N : queue'[i] = queue[i]
      /\ queue'[N + 1].doc = doc /\ queue'[N + 2].doc = doc
  <2>1. QueueInv /\ queue' = queue \o Told(doc)
    BY <1>1 DEF TypeInv
  <2> HIDE DEF doc
  <2>2. /\ N \in Nat /\ Len(queue') = N + 2
        /\ \A i \in 1..N : queue'[i] = queue[i]
        /\ queue'[N + 1] = [to |-> "manager", doc |-> doc]
        /\ queue'[N + 2] = [to |-> "filter", doc |-> doc]
    BY <1>4, <2>1, ToldAfter
  <2> QED
    BY <2>2
<1>7. 1 \in 1..Len(t.found)
  BY <1>5
<1>8. \A i \in 1..Len(queue') : queue'[i].doc = doc \/ i \in 1..N
  <2>1. \A i \in 1..Len(queue') : i \in 1..N \/ i = N + 1 \/ i = N + 2
    BY <1>6
  <2> QED
    BY <1>6, <2>1
<1>9. \A i, j \in 1..Len(queue') : i <= j /\ j \in 1..N => i \in 1..N
  BY <1>6
<1> HIDE DEF t, u, doc, N
<1>10. MadeInv'
  <2>1. /\ \A f \in DOMAIN snapshot : snapshot[f].support <= supports
        /\ \A i \in 1..N : queue[i].doc.support <= supports
        /\ \A m \in DOMAIN tasks :
              /\ tasks[m].support <= supports
              /\ \A i \in 1..Len(tasks[m].found) : tasks[m].found[i].support = tasks[m].support
    BY DEF OrderInv, MadeInv, N
  <2>2. /\ t.support <= supports
        /\ \A i \in 1..Len(t.found) : t.found[i].support = t.support
    BY <2>1 DEF t
  <2>3. doc.support <= supports
    BY <1>5, <1>7, <2>2
  <2>4. \A i \in 1..Len(queue') : queue'[i].doc.support <= supports
    BY <1>6, <1>8, <2>1, <2>3
  <2>5. \A i \in 1..Len(u.found) : u.found[i].support = u.support
    BY <1>3, <1>5, <2>2
  <2>6. \A m \in DOMAIN tasks' :
           /\ tasks'[m].support <= supports
           /\ \A i \in 1..Len(tasks'[m].found) : tasks'[m].found[i].support = tasks'[m].support
    <3> SUFFICES ASSUME NEW m \in DOMAIN tasks'
                 PROVE  /\ tasks'[m].support <= supports
                        /\ \A i \in 1..Len(tasks'[m].found) :
                              tasks'[m].found[i].support = tasks'[m].support
      OBVIOUS
    <3>1. CASE m = n
      <4>1. tasks'[m] = u
        BY <3>1 DEF u
      <4>2. u.support <= supports
        BY <1>3, <2>2
      <4> QED
        BY <2>5, <4>1, <4>2
    <3>2. CASE m # n
      BY <1>2, <2>1, <3>2
    <3> QED
      BY <3>1, <3>2
  <2> QED
    BY <1>1, <2>1, <2>4, <2>6 DEF MadeInv
<1>11. ASSUME NEW f \in DOMAIN editors PROVE InOrder(f)'
  <2> DEFINE e == editors[f]
  <2>1. /\ TasksInOrder(tasks, f, e) /\ EventsInOrder(queue, tasks, f, e)
        /\ SnapshotInOrder(snapshot, queue, tasks, f, e)
    BY DEF OrderInv, InOrder
  <2>2. e' = e
    BY <1>1
  <2>3. t.support = doc.support
    BY <1>5, <1>7 DEF OrderInv, MadeInv, t
  <2> HIDE DEF e
  <2>4. e.support = t.support =>
           TaskInOrder(t, f, e) /\ \A m \in DOMAIN tasks : tasks[m].support = e.support => m = n
    BY <2>1 DEF TasksInOrder, t
  <2>5. TasksInOrder(tasks', f, e)
    <3>1. TaskInOrder(t, f, e) => TaskInOrder(u, f, e)
      <4> SUFFICES ASSUME TaskInOrder(t, f, e), NEW i \in 1..Len(u.found),
                          Own(u.found[i], f, e)
                   PROVE  /\ u.found[i].version <= e.version
                          /\ u.todo # <<>> => u.found[i].version <= u.copy[f]
                          /\ \A j \in 1..Len(u.found) : i <= j /\ Own(u.found[j], f, e) =>
                                u.found[i].version <= u.found[j].version
        BY <1>3 DEF TaskInOrder
      <4>1. i + 1 \in 1..Len(t.found) /\ u.found[i] = t.found[i + 1]
        BY <1>5
      <4>2. \A j \in 1..Len(u.found) :
               /\ j + 1 \in 1..Len(t.found) /\ u.found[j] = t.found[j + 1]
               /\ i <= j => i + 1 <= j + 1
        BY <1>5
      <4> QED
        BY <1>3, <4>1, <4>2 DEF TaskInOrder
    <3> QED
      BY <1>2, <1>3, <2>1, <2>4, <3>1 DEF TasksInOrder, t, u
  <2>6. ASSUME NEW v, NoOlder(tasks, f, e, v) PROVE NoOlder(tasks', f, e, v)
    <3>1. MakesNoOlder(t, f, e, v) => MakesNoOlder(u, f, e, v)
      BY <1>3, <1>5 DEF MakesNoOlder
    <3> QED
      BY <1>2, <1>3, <2>6, <3>1 DEF NoOlder, t, u
  <2>7. Own(doc, f, e) =>
           /\ e.support = t.support /\ NoOlder(tasks', f, e, doc.version)
           /\ doc.version \in Nat
           /\ \A v : NoOlder(tasks, f, e, v) => v <= doc.version
    <3> SUFFICES ASSUME Own(doc, f, e)
                 PROVE  /\ e.support = t.support /\ NoOlder(tasks', f, e, doc.version)
                        /\ doc.version \in Nat
                        /\ \A v : NoOlder(tasks, f, e, v) => v <= doc.version
      OBVIOUS
    <3>1. e.support = t.support
      BY <2>3 DEF Own
    <3>2. /\ doc.version <= e.version
          /\ t.todo # <<>> => f \in DOMAIN t.copy /\ doc.version <= t.copy[f]
          /\ \A j \in 1..Len(t.found) : 1 <= j /\ Own(t.found[j], f, e) =>
                doc.version <= t.found[j].version
      BY <1>5, <1>7, <2>4, <3>1 DEF TaskInOrder
    <3>3. MakesNoOlder(u, f, e, doc.version)
      BY <1>3, <1>5, <3>2 DEF MakesNoOlder
    <3>4. \A m \in DOMAIN tasks' : tasks'[m].support = e.support => m = n
      BY <1>2, <2>4, <3>1
    <3>5. NoOlder(tasks', f, e, doc.version)
      BY <3>2, <3>3, <3>4 DEF NoOlder, u
    <3>6. ASSUME NEW v, NoOlder(tasks, f, e, v) PROVE v <= doc.version
      BY <1>5, <1>7, <3>1, <3>6 DEF NoOlder, MakesNoOlder, t
    <3>7. doc.version \in Nat
      BY <1>4 DEF Document
    <3> QED
      BY <3>1, <3>5, <3>6, <3>7
  <2>8. EventsInOrder(queue', tasks', f, e)
    <3> SUFFICES ASSUME NEW i \in 1..Len(queue'), Own(queue'[i].doc, f, e)
                 PROVE  /\ NoOlder(tasks', f, e, queue'[i].doc.version)
                        /\ \A j \in 1..Len(queue') : i <= j /\ Own(queue'[j].doc, f, e) =>
                              queue'[i].doc.version <= queue'[j].doc.version
      BY DEF EventsInOrder
    <3>1. CASE i \in 1..N
      <4>1. queue'[i] = queue[i] /\ Own(queue[i].doc, f, e)
        BY <1>6, <3>1
      <4>2. /\ NoOlder(tasks, f, e, queue[i].doc.version)
            /\ \A j \in 1..N : i <= j /\ Own(queue[j].doc, f, e) =>
                  queue[i].doc.version <= queue[j].doc.version
        BY <2>1, <3>1, <4>1 DEF EventsInOrder, N
      <4>3. ASSUME NEW j \in 1..Len(queue'), i <= j, Own(queue'[j].doc, f, e)
            PROVE  queue'[i].doc.version <= queue'[j].doc.version
        <5>1. CASE j \in 1..N
          BY <1>6, <4>1, <4>2, <4>3, <5>1
        <5>2. CASE queue'[j].doc = doc
          BY <2>7, <4>1, <4>2, <4>3, <5>2
        <5> QED
          BY <1>8, <5>1, <5>2
      <4> QED
        BY <2>6, <4>1, <4>2, <4>3
    <3>2. CASE queue'[i].doc = doc /\ i \notin 1..N
      <4>1. \A j \in 1..Len(queue') : i <= j => queue'[j].doc = doc
        BY <1>8, <1>9, <3>2
      <4>2. doc.version \in Nat /\ NoOlder(tasks', f, e, doc.version)
        BY <2>7, <3>2
      <4> QED
        BY <3>2, <4>1, <4>2
    <3> QED
      BY <1>8, <3>1, <3>2
  <2>9. SnapshotInOrder(snapshot', queue', tasks', f, e)
    <3> SUFFICES ASSUME f \in DOMAIN snapshot, Own(snapshot[f], f, e)
                 PROVE  /\ NoOlder(tasks', f, e, snapshot[f].version)
                        /\ \A i \in 1..Len(queue') : Own(queue'[i].doc, f, e) =>
                              snapshot[f].version <= queue'[i].doc.version
      BY <1>1 DEF SnapshotInOrder
    <3>1. /\ NoOlder(tasks, f, e, snapshot[f].version)
          /\ \A i \in 1..N : Own(queue[i].doc, f, e) => snapshot[f].version <= queue[i].doc.version
      BY <2>1 DEF SnapshotInOrder, N
    <3> QED
      BY <1>6, <1>8, <2>6, <2>7, <3>1
  <2> QED
    BY <2>2, <2>5, <2>8, <2>9 DEF InOrder, e
<1> QED
  BY <1>1, <1>10, <1>11 DEF OrderInv

(* The manager takes the next event.                                       *)
LEMMA OrderArrives ==
    ASSUME TypeInv, OrderInv, OnDocumentUpdated
    PROVE  OrderInv'
<1> DEFINE doc == Head(queue).doc
<1>1. /\ queue # <<>> /\ queue' = Tail(queue)
      /\ snapshot' = Enter(snapshot, doc.file, doc) \/ snapshot' = snapshot
  BY Arrives DEF TypeInv
<1>2. UNCHANGED <<editors, supports, tasks>>
  BY DEF OnDocumentUpdated
<1>3. /\ Len(queue) \in Nat \ {0} /\ doc = queue[1].doc /\ Len(queue') = Len(queue) - 1
      /\ \A i \in 1..Len(queue') : i + 1 \in 1..Len(queue) /\ queue'[i] = queue[i + 1]
  BY <1>1, HeadPosted DEF TypeInv
<1>4. 1 \in 1..Len(queue)
  BY <1>3
<1> HIDE DEF doc
<1>5. \A f \in DOMAIN snapshot' :
         \/ f = doc.file /\ snapshot'[f] = doc
         \/ f \in DOMAIN snapshot /\ snapshot'[f] = snapshot[f]
  BY <1>1 DEF Enter
<1>6. MadeInv'
  <2>1. doc.support <= supports
    BY <1>3, <1>4 DEF OrderInv, MadeInv
  <2> QED
    BY <1>2, <1>3, <1>5, <2>1 DEF OrderInv, MadeInv
<1>7. ASSUME NEW f \in DOMAIN editors PROVE InOrder(f)'
  <2> DEFINE e == editors[f]
  <2>1. /\ TasksInOrder(tasks, f, e) /\ EventsInOrder(queue, tasks, f, e)
        /\ SnapshotInOrder(snapshot, queue, tasks, f, e)
    BY DEF OrderInv, InOrder
  <2>2. e' = e
    BY <1>2
  <2> HIDE DEF e
  <2>3. \A i, j \in 1..Len(queue') : i <= j => i + 1 <= j + 1
    BY <1>3
  <2>4. EventsInOrder(queue', tasks, f, e)
    BY <1>3, <2>1, <2>3 DEF EventsInOrder
  <2>5. Own(doc, f, e) =>
           /\ NoOlder(tasks, f, e, doc.version)
           /\ \A i \in 1..Len(queue') : Own(queue'[i].doc, f, e) =>
                 doc.version <= queue'[i].doc.version
    <3>1. \A i \in 1..Len(queue') : 1 <= i + 1
      BY <1>3
    <3> QED
      BY <1>3, <1>4, <2>1, <3>1 DEF EventsInOrder
  <2>6. SnapshotInOrder(snapshot', queue', tasks, f, e)
    BY <1>3, <1>5, <2>1, <2>5 DEF SnapshotInOrder
  <2> QED
    BY <1>2, <2>1, <2>2, <2>4, <2>6 DEF InOrder, e
<1> QED
  BY <1>2, <1>6, <1>7 DEF OrderInv

(* An editor that is opened has a support of which nothing was made yet.   *)
LEMMA OrderOpened ==
    ASSUME TypeInv, OrderInv, NEW g \in Files, EditorOpened(g)
    PROVE  OrderInv'
<1> DEFINE new == [support |-> supports', version |-> disk[g], timer |-> TRUE]
<1>1. /\ g \notin DOMAIN editors /\ supports' = supports + 1 /\ editors' = Enter(editors, g, new)
      /\ new.support = supports + 1
      /\ UNCHANGED <<tasks, snapshot, queue>>
  BY DEF EditorOpened, model
<1> HIDE DEF new
<1>2. supports \in Nat
  BY VersionsType
<1>3. MadeInv
  BY DEF OrderInv
<1>4. MadeInv'
  <2>1. /\ \A f \in DOMAIN snapshot : snapshot[f].support \in Nat
        /\ \A i \in 1..Len(queue) : queue[i].doc.support \in Nat
        /\ \A n \in DOMAIN tasks : tasks[n].support \in Nat
    BY VersionsType
  <2> QED
    BY <1>1, <1>2, <1>3, <2>1 DEF MadeInv
<1>5. ASSUME NEW f \in DOMAIN editors' PROVE InOrder(f)'
  <2>1. CASE f = g
    <3> DEFINE e == editors'[f]
    <3>1. e.support = supports + 1
      BY <1>1, <2>1 DEF Enter
    <3> HIDE DEF e
    <3>2. /\ f \in DOMAIN snapshot => snapshot[f].support # e.support
          /\ \A i \in 1..Len(queue) : queue[i].doc.support # e.support
          /\ \A n \in DOMAIN tasks : tasks[n].support # e.support
      <4>1. \A s \in Nat : s <= supports => s # e.support
        BY <1>2, <3>1
      <4> QED
        BY <1>3, <4>1, VersionsType DEF MadeInv
    <3>3. TasksInOrder(tasks, f, e)
      BY <3>2 DEF TasksInOrder
    <3>4. EventsInOrder(queue, tasks, f, e) /\ SnapshotInOrder(snapshot, queue, tasks, f, e)
      BY <3>2 DEF EventsInOrder, SnapshotInOrder, Own
    <3> QED
      BY <1>1, <3>3, <3>4 DEF InOrder, e
  <2>2. CASE f # g
    <3>1. f \in DOMAIN editors /\ editors'[f] = editors[f]
      BY <1>1, <2>2 DEF Enter
    <3> QED
      BY <1>1, <3>1 DEF OrderInv, InOrder
  <2> QED
    BY <2>1, <2>2
<1> QED
  BY <1>4, <1>5 DEF OrderInv

(* The editor's next task is given the text that the editor shows, and the *)
(* task before has ended.                                                  *)
LEMMA OrderNow ==
    ASSUME TypeInv, OrderInv, NEW g \in DOMAIN editors, UpdateDocumentNow(g)
    PROVE  OrderInv'
<1> DEFINE support == editors[g].support
           new == Started(<<g>>, support)
<1>1. /\ ~IsRunning(g) /\ RefreshSourceFiles(<<g>>, support, projects, dirty)
      /\ editors' = [editors EXCEPT ![g].timer = FALSE]
      /\ UNCHANGED <<supports, snapshot, queue>>
  BY DEF UpdateDocumentNow
<1>2. PICK id : tasks' = Enter(tasks, id, new)
  BY <1>1, RefreshStarts
<1>3. /\ \A n \in DOMAIN tasks : tasks[n].support # support
      /\ \A n \in DOMAIN tasks' : \/ tasks'[n] = new /\ n = id
                                  \/ n \in DOMAIN tasks /\ tasks'[n] = tasks[n]
  BY <1>1, <1>2 DEF IsRunning, Enter
<1>4. /\ new.support = support /\ new.todo # <<>> /\ new.copy = WorkingCopy
      /\ Len(new.found) = 0
  BY EmptySeq DEF Started
<1>5. /\ 1..0 = {}
      /\ \A f \in DOMAIN editors :
            f \in DOMAIN WorkingCopy /\ WorkingCopy[f] = editors[f].version
  BY DEF WorkingCopy
<1>6. /\ support \in 1..supports /\ supports \in Nat
      /\ \A f \in DOMAIN editors : editors[f].version \in Nat
  BY VersionsType
<1>7. ASSUME NEW f \in DOMAIN editors
      PROVE  editors'[f].support = editors[f].support /\ editors'[f].version = editors[f].version
  <2>1. editors[f] \in [support : 1..supports, version : 1..clock, timer : BOOLEAN]
    BY DEF TypeInv, EditorsInv
  <2> QED
    BY <1>1, <2>1
<1> HIDE DEF support, new
<1>8. MadeInv'
  <2>1. \A n \in DOMAIN tasks' :
           /\ tasks'[n].support <= supports
           /\ \A i \in 1..Len(tasks'[n].found) : tasks'[n].found[i].support = tasks'[n].support
    BY <1>3, <1>4, <1>5, <1>6 DEF OrderInv, MadeInv
  <2> QED
    BY <1>1, <2>1 DEF OrderInv, MadeInv
<1>9. ASSUME NEW f \in DOMAIN editors PROVE InOrder(f)'
  <2> DEFINE e == editors[f]
             d == editors'[f]
  <2>1. /\ TasksInOrder(tasks, f, e) /\ EventsInOrder(queue, tasks, f, e)
        /\ SnapshotInOrder(snapshot, queue, tasks, f, e)
    BY DEF OrderInv, InOrder
  <2>2. /\ d.support = e.support /\ d.version = e.version /\ e.version \in Nat
        /\ f \in DOMAIN WorkingCopy /\ WorkingCopy[f] = e.version
    BY <1>5, <1>6, <1>7
  <2> HIDE DEF e, d
  <2>3. \A doc : Own(doc, f, d) <=> Own(doc, f, e)
    BY <2>2 DEF Own
  <2>4. TaskInOrder(new, f, d)
    BY <1>4, <1>5, <2>2 DEF TaskInOrder
  <2>5. \A t : TaskInOrder(t, f, e) => TaskInOrder(t, f, d)
    BY <2>2, <2>3 DEF TaskInOrder
  <2>6. TasksInOrder(tasks', f, d)
    <3> SUFFICES ASSUME NEW n \in DOMAIN tasks', tasks'[n].support = d.support
                 PROVE  /\ \A m \in DOMAIN tasks' : tasks'[m].support = d.support => m = n
                        /\ TaskInOrder(tasks'[n], f, d)
      BY DEF TasksInOrder
    <3>1. CASE d.support = support
      BY <1>3, <2>4, <3>1
    <3>2. CASE d.support # support
      <4>1. \A m \in DOMAIN tasks' : tasks'[m].support = d.support =>
               m \in DOMAIN tasks /\ tasks'[m] = tasks[m] /\ tasks[m].support = e.support
        BY <1>3, <1>4, <2>2, <3>2
      <4> QED
        BY <2>1, <2>5, <4>1 DEF TasksInOrder
    <3> QED
      BY <3>1, <3>2
  <2>7. ASSUME NEW v, NoOlder(tasks, f, e, v) PROVE NoOlder(tasks', f, d, v)
    <3>1. v <= d.version
      BY <2>2, <2>7 DEF NoOlder
    <3>2. MakesNoOlder(new, f, d, v)
      BY <1>4, <1>5, <2>2, <3>1 DEF MakesNoOlder
    <3>3. \A t : MakesNoOlder(t, f, e, v) => MakesNoOlder(t, f, d, v)
      BY <2>3 DEF MakesNoOlder
    <3> QED
      BY <1>3, <2>2, <2>7, <3>1, <3>2, <3>3 DEF NoOlder
  <2>8. EventsInOrder(queue, tasks', f, d) /\ SnapshotInOrder(snapshot, queue, tasks', f, d)
    BY <2>1, <2>3, <2>7 DEF EventsInOrder, SnapshotInOrder
  <2> QED
    BY <1>1, <2>6, <2>8 DEF InOrder, d
<1>10. DOMAIN editors' = DOMAIN editors
  BY <1>1
<1> QED
  BY <1>8, <1>9, <1>10 DEF OrderInv

LEMMA OrderNext == TypeInv /\ OrderInv /\ [Next]_vars => OrderInv'
<1> SUFFICES ASSUME TypeInv, OrderInv, [Next]_vars PROVE OrderInv'
  OBVIOUS
<1>1. TypeInv'
  BY TypeNext
<1>2. \A f \in DOMAIN editors : editors[f].version \in Nat /\ editors[f].version <= clock
  BY VersionsType
<1>3. editors' = editors => KeepsEditors
  BY <1>2 DEF KeepsEditors
<1>4. tasks' = tasks => KeepsTasks
  BY DEF KeepsTasks, SameTask
<1>5. snapshot' = snapshot => KeepsSnapshot
  BY DEF KeepsSnapshot
<1>6. ASSUME NEW files, NEW ps, NEW isDirty, RefreshSourceFiles(files, None, ps, isDirty)
      PROVE  KeepsTasks
  <2>1. PICK id : tasks' = Enter(tasks, id, Started(files, None))
    BY <1>6, RefreshStarts
  <2> QED
    BY <2>1 DEF Enter, Started, KeepsTasks, SameTask
<1>7. ASSUME NEW ps, GC(ps) PROVE KeepsSnapshot
  BY <1>7 DEF GC, Without, Restrict, KeepsSnapshot
<1>8. CASE UNCHANGED vars
  BY <1>1, <1>3, <1>4, <1>5, <1>8, OrderKept DEF vars, model
<1>9. ASSUME NEW n \in DOMAIN tasks, Finish(n) PROVE OrderInv'
  <2>1. KeepsTasks
    BY <1>9 DEF Finish, Without, Restrict, KeepsTasks, SameTask
  <2> QED
    BY <1>1, <1>3, <1>5, <1>9, <2>1, OrderKept DEF Finish, model
<1>10. CASE ProjectManager
  <2>1. ASSUME NEW p \in Projects, NEW files \in FileLists, UpdateCodeModel(p, files)
        PROVE  OrderInv'
    <3>1. KeepsTasks
      BY <1>4, <1>6, <2>1 DEF UpdateCodeModel
    <3> QED
      BY <1>1, <1>3, <1>5, <2>1, <3>1, OrderKept DEF UpdateCodeModel
  <2>2. ASSUME NEW p \in Projects, OnAboutToRemoveProject(p) PROVE OrderInv'
    <3>1. KeepsSnapshot
      BY <1>7, <2>2 DEF OnAboutToRemoveProject
    <3> QED
      BY <1>1, <1>3, <1>4, <2>2, <3>1, OrderKept DEF OnAboutToRemoveProject
  <2>3. ASSUME NEW f \in Generated, FileChanged(f) PROVE OrderInv'
    <3>1. KeepsTasks
      BY <1>6, <2>3 DEF FileChanged
    <3> QED
      BY <1>1, <1>3, <1>5, <2>3, <3>1, OrderKept DEF FileChanged
  <2>4. CASE OnProjectAdded
    BY <1>1, <1>3, <1>4, <1>5, <2>4, OrderKept DEF OnProjectAdded
  <2>5. CASE OnSessionUnloaded
    <3>1. KeepsSnapshot
      BY <1>7, <2>5 DEF OnSessionUnloaded
    <3>2. KeepsTasks
      BY <2>5 DEF OnSessionUnloaded, KeepsTasks, SameTask
    <3> QED
      BY <1>1, <1>3, <2>5, <3>1, <3>2, OrderKept DEF OnSessionUnloaded
  <2> QED
    BY <1>10, <2>1, <2>2, <2>3, <2>4, <2>5 DEF ProjectManager
<1>11. ASSUME NEW f \in DOMAIN editors, EditorAboutToClose(f) PROVE OrderInv'
  <2>1. KeepsEditors
    BY <1>2, <1>11 DEF EditorAboutToClose, Without, Restrict, KeepsEditors
  <2> QED
    BY <1>1, <1>4, <1>5, <1>11, <2>1, OrderKept DEF EditorAboutToClose, model
<1>12. ASSUME NEW f \in DOMAIN editors, UpdateDocument(f) PROVE OrderInv'
  <2>1. /\ clock' = clock + 1 /\ clock \in Nat
        /\ editors' = [editors EXCEPT ![f].version = clock', ![f].timer = TRUE]
    BY <1>12, VersionsType DEF UpdateDocument, Written
  <2>2. \A g \in DOMAIN editors :
           editors[g] \in [support : 1..supports, version : 1..clock, timer : BOOLEAN]
    BY DEF TypeInv, EditorsInv
  <2>3. KeepsEditors
    BY <1>2, <2>1, <2>2 DEF KeepsEditors
  <2> QED
    BY <1>1, <1>4, <1>5, <1>12, <2>3, OrderKept DEF UpdateDocument, model
<1>13. ASSUME NEW f \in DOMAIN editors, Save(f) PROVE OrderInv'
  BY <1>1, <1>3, <1>4, <1>5, <1>13, OrderKept DEF Save, model
<1>14. CASE Pool
  BY <1>9, <1>14, OrderParse, OrderTell DEF Pool
<1>15. CASE OnDocumentUpdated
  BY <1>15, OrderArrives
<1>16. CASE Editing
  BY <1>11, <1>12, <1>13, <1>16, OrderOpened, OrderNow DEF Editing
<1> QED
  BY <1>8, <1>10, <1>14, <1>15, <1>16 DEF Next

LEMMA OrderInit == Init => OrderInv
<1>1. Len(<<>>) = 0 /\ DOMAIN <<>> = {} /\ 1..0 = {}
  BY EmptySeq
<1> QED
  BY <1>1 DEF Init, OrderInv, MadeInv

(* What an editor's own tasks make of its text never goes back to an older *)
(* version, however many editors, tasks and events there are.              *)
THEOREM OwnNeverOlder == Spec => OwnInOrder
<1> DEFINE Kept ==
      \A f \in DOMAIN editors \cap DOMAIN snapshot \cap DOMAIN snapshot' :
          snapshot[f].support = editors[f].support
             /\ snapshot'[f].support = editors[f].support
          => snapshot'[f].version >= snapshot[f].version
<1>1. TypeInv /\ OrderInv /\ [Next]_vars => [Kept]_vars
  <2> SUFFICES ASSUME TypeInv, OrderInv, [Next]_vars,
                      NEW f \in DOMAIN editors \cap DOMAIN snapshot \cap DOMAIN snapshot',
                      snapshot[f].support = editors[f].support,
                      snapshot'[f].support = editors[f].support
               PROVE  snapshot'[f].version >= snapshot[f].version
    OBVIOUS
  <2>1. snapshot[f].version \in Nat /\ snapshot[f].file = f
    BY VersionsType DEF TypeInv, ListsInv, Documents
  <2>2. snapshot'[f] = snapshot[f] => snapshot'[f].version >= snapshot[f].version
    BY <2>1
  <2>3. KeepsSnapshot => snapshot'[f].version >= snapshot[f].version
    BY <2>2 DEF KeepsSnapshot
  <2>4. CASE OnDocumentUpdated
    <3> DEFINE doc == Head(queue).doc
    <3>1. /\ queue # <<>>
          /\ snapshot' = Enter(snapshot, doc.file, doc) \/ snapshot' = snapshot
      BY <2>4, Arrives DEF TypeInv
    <3>2. doc = queue[1].doc /\ 1 \in 1..Len(queue) /\ doc \in Document
      BY <3>1, HeadPosted DEF TypeInv
    <3> HIDE DEF doc
    <3>3. \/ f = doc.file /\ snapshot'[f] = doc
          \/ snapshot'[f] = snapshot[f]
      BY <3>1 DEF Enter
    <3>4. f = doc.file /\ snapshot'[f] = doc => snapshot[f].version <= doc.version
      BY <2>1, <3>2 DEF OrderInv, InOrder, SnapshotInOrder, Own
    <3> QED
      BY <2>1, <2>2, <3>2, <3>3, <3>4 DEF Document
  <2>5. ASSUME NEW ps, GC(ps) PROVE KeepsSnapshot
    BY <2>5 DEF GC, Without, Restrict, KeepsSnapshot
  <2>6. CASE UNCHANGED vars
    BY <2>2, <2>6 DEF vars, model
  <2>7. CASE Pool
    BY <2>2, <2>7 DEF Pool, ParseFile, Tell, Finish, model
  <2>8. CASE ProjectManager
    BY <2>2, <2>3, <2>5, <2>8 DEF ProjectManager, UpdateCodeModel, OnAboutToRemoveProject,
       FileChanged, OnProjectAdded, OnSessionUnloaded
  <2>9. CASE Editing
    BY <2>2, <2>9 DEF Editing, EditorOpened, EditorAboutToClose, UpdateDocument, Save,
       UpdateDocumentNow, model
  <2> QED
    BY <2>4, <2>6, <2>7, <2>8, <2>9 DEF Next
<1>2. OwnInOrder <=> [][Kept]_vars
  BY PTL DEF OwnInOrder
<1>3. Spec => [][Kept]_vars
  BY <1>1, TypeInit, TypeNext, OrderInit, OrderNext, PTL DEF Spec
<1> QED
  BY <1>2, <1>3, PTL

-----------------------------------------------------------------------------
(* The collection. *)

(* What GC() finds is the least set that has the files that it starts from *)
(* and, with each file that has a document, all that this one includes.    *)
LEMMA ReachedIsLeast ==
    ASSUME CppModelAssumption, NEW from \in SUBSET Files, NEW documents
    PROVE  LET reached == Reached(from, documents)
           IN  /\ reached \in SUBSET Files /\ from \subseteq reached
               /\ \A f \in reached \cap DOMAIN documents : ToSet(Includes[f]) \subseteq reached
               /\ \A s \in SUBSET Files :
                     /\ from \subseteq s
                     /\ \A f \in s \cap DOMAIN documents : ToSet(Includes[f]) \subseteq s
                     => reached \subseteq s
<1> DEFINE N == Cardinality(Files)
           Step(s) == s \cup UNION {ToSet(Includes[f]) : f \in s \cap DOMAIN documents}
           R == [s \in SUBSET Files |-> Step(s)]
           F == [i \in Nat |-> R]
           IsAfter(g) == g = [n \in 0..N |-> IF n = 0 THEN from ELSE Step(g[n - 1])]
           after[n \in 0..N] == IF n = 0 THEN from ELSE Step(after[n - 1])
<1>1. N \in Nat /\ IsFiniteSet(Files)
  BY CppConstants DEF CppModelAssumption
<1>2. \A f \in Files : ToSet(Includes[f]) \subseteq Files
  BY CppConstants DEF ToSet
<1>3. \A s \in SUBSET Files : Step(s) \in SUBSET Files /\ s \subseteq Step(s)
  BY <1>2
<1>4. \A s, u : s \subseteq u => Step(s) \subseteq Step(u)
  OBVIOUS
<1>5. \A s : Step(s) \subseteq s
             <=> \A f \in s \cap DOMAIN documents : ToSet(Includes[f]) \subseteq s
  OBVIOUS
<1>6. Reached(from, documents) = after[N]
  BY Zenon DEF Reached
<1> HIDE DEF N, Step
<1>7. R \in [SUBSET Files -> SUBSET Files] /\ F \in [Nat -> [SUBSET Files -> SUBSET Files]]
  BY <1>3
<1>8. \E g : IsAfter(g)
  <2> HIDE DEF F, R
  <2>1. PICK g \in [0..N -> SUBSET Files] : Iterates(g, from, F, N)
    BY <1>1, <1>7, Iteration
  <2>2. ASSUME NEW n \in 0..N PROVE g[n] = IF n = 0 THEN from ELSE Step(g[n - 1])
    <3>1. CASE n = 0
      BY <2>1, <3>1 DEF Iterates
    <3>2. CASE n # 0
      <4>1. n \in 1..N /\ n \in Nat /\ n - 1 \in 0..N
        BY <1>1, <3>2
      <4>2. g[n] = F[n][g[n - 1]] /\ g[n - 1] \in SUBSET Files
        BY <2>1, <4>1 DEF Iterates
      <4> QED
        BY <3>2, <4>1, <4>2 DEF F, R
    <3> QED
      BY <3>1, <3>2
  <2>3. g = [n \in 0..N |-> g[n]]
    BY <2>1
  <2>4. IsAfter(g)
    BY <2>2, <2>3
  <2> QED
    BY <2>4
<1>9. IsAfter(after)
  BY <1>8, Zenon
<1> HIDE DEF after, F
<1>10. ASSUME NEW n \in 0..N PROVE after[n] = IF n = 0 THEN from ELSE Step(after[n - 1])
  BY <1>9
<1> HIDE <1>9
<1> DEFINE P == {n \in Nat : n \in 0..N => after[n] \in SUBSET Files}
<1>11. 0 \in 0..N /\ after[0] = from
  BY <1>1, <1>10
<1>12. ASSUME NEW n \in Nat, n < N, n \in P PROVE n + 1 \in P
  <2>1. n \in 0..N /\ n + 1 \in 0..N /\ (n + 1) - 1 = n /\ n + 1 # 0 /\ n + 1 \in Nat
    BY <1>1, <1>12
  <2>2. after[n] \in SUBSET Files /\ after[n + 1] = Step(after[n])
    BY <1>10, <1>12, <2>1
  <2> QED
    BY <1>3, <2>1, <2>2
<1>13. 0..N \subseteq P
  <2>1. 0 \in P
    BY <1>11
  <2> HIDE DEF P
  <2> QED
    BY <1>1, <1>12, <2>1, UpTo
<1>14. \A n \in 1..N : after[n] = R[after[n - 1]]
  <2> SUFFICES ASSUME NEW n \in 1..N PROVE after[n] = R[after[n - 1]]
    OBVIOUS
  <2>1. n \in 0..N /\ n # 0 /\ n - 1 \in 0..N
    BY <1>1
  <2>2. after[n] = Step(after[n - 1]) /\ after[n - 1] \in SUBSET Files
    BY <1>10, <1>13, <2>1
  <2> QED
    BY <2>2
<1>15. from \subseteq R[from] /\ \A x, y \in SUBSET Files : x \subseteq y => R[x] \subseteq R[y]
  BY <1>3, <1>4
<1> DEFINE least == after[N]
<1> HIDE DEF P
<1>16. /\ least \in SUBSET Files /\ from \subseteq least /\ R[least] = least
       /\ \A x \in SUBSET Files : from \subseteq x /\ R[x] \subseteq x => least \subseteq x
  <2> HIDE DEF R
  <2>1. Repeated(after, from, R, Cardinality(Files))
    BY <1>11, <1>14 DEF N, Repeated
  <2>2. Grows(from, R, Files)
    BY <1>7, <1>15 DEF Grows
  <2>3. IsLeast(after[Cardinality(Files)], from, R, Files)
    BY <1>1, <2>1, <2>2, LeastFixedPoint
  <2> QED
    BY <2>3 DEF N, IsLeast
<1>17. Step(least) = least /\ \A x \in SUBSET Files : R[x] = Step(x)
  BY <1>16
<1> HIDE DEF R
<1>18. least = Reached(from, documents)
  BY <1>6
<1> HIDE DEF least
<1>19. \A f \in least \cap DOMAIN documents : ToSet(Includes[f]) \subseteq least
  BY <1>5, <1>17
<1>20. ASSUME NEW s \in SUBSET Files, from \subseteq s,
              \A f \in s \cap DOMAIN documents : ToSet(Includes[f]) \subseteq s
       PROVE  least \subseteq s
  <2>1. R[s] \subseteq s
    BY <1>5, <1>17, <1>20
  <2> QED
    BY <1>16, <1>20, <2>1
<1> QED
  BY <1>16, <1>18, <1>19, <1>20

(* What is collected is listed by no project, and no document that stays   *)
(* includes it.                                                            *)
LEMMA GCTakesUnused ==
    ASSUME TypeInv, TypeInv', GC(projects')
    PROVE  \A f \in DOMAIN snapshot \ DOMAIN snapshot' :
               /\ f \notin InternalProjectFiles(projects')
               /\ \A g \in DOMAIN snapshot' : f \notin ToSet(Includes[g])
<1> DEFINE reached == Reached(projectFiles', snapshot)
<1>1. projectFiles' \in SUBSET Files /\ projectFiles' = InternalProjectFiles(projects')
  BY DEF TypeInv, ProjectsInv, GC, EnsureUpdated
<1>2. /\ projectFiles' \subseteq reached
      /\ \A g \in reached \cap DOMAIN snapshot : ToSet(Includes[g]) \subseteq reached
  BY <1>1, CppModelAssumption, ReachedIsLeast
<1>3. snapshot' = Without(snapshot, DOMAIN snapshot \ reached)
  BY DEF GC
<1> HIDE DEF reached
<1>4. DOMAIN snapshot' = DOMAIN snapshot \cap reached
  BY <1>3 DEF Without, Restrict
<1> QED
  BY <1>1, <1>2, <1>4

(* No step, whatever projects go or come meanwhile, takes a document whose *)
(* file a project lists or that a document includes which stays.           *)
THEOREM CollectsOnlyUnused == Spec => CollectsUnused
<1> DEFINE Unused ==
      \A f \in DOMAIN snapshot \ DOMAIN snapshot' :
          /\ f \notin InternalProjectFiles(projects')
          /\ \A g \in DOMAIN snapshot' : f \notin ToSet(Includes[g])
<1>1. TypeInv /\ TypeInv' /\ [Next]_vars => [Unused]_vars
  <2> SUFFICES ASSUME TypeInv, TypeInv', [Next]_vars PROVE Unused
    OBVIOUS
  <2>1. CASE DOMAIN snapshot \subseteq DOMAIN snapshot'
    BY <2>1
  <2>2. CASE OnDocumentUpdated
    <3>1. DOMAIN snapshot \subseteq DOMAIN snapshot'
      BY <2>2, Arrives DEF TypeInv, Enter
    <3> QED
      BY <2>1, <3>1
  <2>3. CASE UNCHANGED snapshot
    BY <2>1, <2>3
  <2>4. ASSUME GC(projects') PROVE Unused
    BY <2>4, GCTakesUnused
  <2>5. CASE ProjectManager
    <3>1. CASE OnSessionUnloaded
      <4>1. GC(projects')
        BY <3>1 DEF OnSessionUnloaded, GC, EnsureUpdated
      <4> QED
        BY <2>4, <4>1
    <3> QED
      BY <2>3, <2>4, <2>5, <3>1 DEF ProjectManager, UpdateCodeModel, OnAboutToRemoveProject,
         FileChanged, OnProjectAdded
  <2>6. UNCHANGED vars \/ Pool \/ Editing => UNCHANGED snapshot
    BY DEF vars, model, Pool, ParseFile, Tell, Finish, Editing, EditorOpened,
       EditorAboutToClose, UpdateDocument, Save, UpdateDocumentNow
  <2> QED
    BY <2>2, <2>3, <2>5, <2>6 DEF Next
<1>2. CollectsUnused <=> [][Unused]_vars
  BY PTL DEF CollectsUnused
<1>3. Spec => [][Unused]_vars
  BY <1>1, TypeInit, TypeNext, PTL DEF Spec
<1> QED
  BY <1>2, <1>3, PTL

=============================================================================
