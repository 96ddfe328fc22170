------------------------ MODULE ProjectExplorerProofs ------------------------
(***************************************************************************)
(* Proofs about BuildManager, and about ProjectExplorer on top of it.      *)
(*                                                                         *)
(* BuildManager, for every set of projects, steps, configurations and      *)
(* requests and every bound: its types and safety invariants, its          *)
(* accounts, the order of its messages, and that it implements             *)
(* BuildService.                                                           *)
(*                                                                         *)
(* ProjectExplorer, for every set of projects and run controls, whatever   *)
(* steps the projects have and whatever the user unloads: the menu is true *)
(* whenever it can be looked at, a run waits only for its own build, and   *)
(* debugging stays known while it goes on.  The build manager's inductive  *)
(* invariants are used as they are: what the plugin does, the build        *)
(* manager takes one of its own steps or none.                             *)
(***************************************************************************)
EXTENDS ProjectExplorer, InductionLemmas

-----------------------------------------------------------------------------
(* Lemmas on the queue of posted events. *)

(* Posting an event adds just that one. *)
LEMMA AppendEvent ==
    ASSUME NEW evs \in Seq(Event), NEW e \in Event
    PROVE  /\ Append(evs, e) \in Seq(Event)
           /\ Len(Append(evs, e)) = Len(evs) + 1
           /\ \A x \in Event : Posted(Append(evs, e), x) => Posted(evs, x) \/ x = e
           /\ \A x \in Event : x # e /\ AtMostOne(evs, x) => AtMostOne(Append(evs, e), x)
           /\ ~Posted(evs, e) => AtMostOne(Append(evs, e), e)
BY DEF Posted, AtMostOne

(* Delivering the first event leaves the others as they are. *)
LEMMA TailEvents ==
    ASSUME NEW evs \in Seq(Event), evs # <<>>
    PROVE  /\ Tail(evs) \in Seq(Event)
           /\ \A x \in Event : Posted(Tail(evs), x) => Posted(evs, x)
           /\ \A x \in Event : AtMostOne(evs, x) => AtMostOne(Tail(evs), x)
           /\ AtMostOne(evs, Head(evs)) => ~Posted(Tail(evs), Head(evs))
           /\ Posted(evs, Head(evs))
<1> DEFINE t == Tail(evs)
<1>1. /\ t \in Seq(Event)
      /\ Len(t) = Len(evs) - 1
      /\ \A i \in 1..Len(t) : t[i] = evs[i + 1]
  BY HeadTailProperties
<1>2. /\ DOMAIN t = 1..Len(t) /\ Len(t) \in Nat
      /\ DOMAIN evs = 1..Len(evs) /\ Len(evs) \in Nat /\ Len(evs) >= 1
  BY <1>1
<1>3. Head(evs) = evs[1]
  OBVIOUS
<1> HIDE DEF t
<1>4. \A x \in Event : Posted(t, x) => Posted(evs, x)
  BY <1>1, <1>2 DEF Posted
<1>5. ASSUME NEW x \in Event, AtMostOne(evs, x)
      PROVE  AtMostOne(t, x)
  <2> SUFFICES ASSUME NEW i \in DOMAIN t, NEW j \in DOMAIN t,
                      t[i] = x, t[j] = x
               PROVE  i = j
    BY DEF AtMostOne
  <2>1. i \in Nat /\ j \in Nat /\ i + 1 \in DOMAIN evs /\ j + 1 \in DOMAIN evs
    BY <1>1, <1>2
  <2>2. evs[i + 1] = x /\ evs[j + 1] = x
    BY <1>1, <1>2
  <2>3. i + 1 = j + 1
    BY <1>5, <2>1, <2>2, Zenon DEF AtMostOne
  <2> QED
    BY <2>1, <2>3
<1>6. AtMostOne(evs, Head(evs)) => ~Posted(t, Head(evs))
  BY <1>1, <1>2, <1>3 DEF Posted, AtMostOne
<1>7. Posted(evs, Head(evs))
  BY <1>2, <1>3 DEF Posted
<1> QED
  BY <1>1, <1>4, <1>5, <1>6, <1>7 DEF t

(* setFuture removes the events of one kind and keeps the others. *)
LEMMA WithoutEvents ==
    ASSUME NEW evs \in Seq(Event), NEW kind \in Event \ {"removed"}
    PROVE  /\ Without(evs, kind) \in Seq(Event)
           /\ ~Posted(Without(evs, kind), kind)
           /\ \A x \in Event \ {"removed"} :
                  Posted(Without(evs, kind), x) => Posted(evs, x)
           /\ \A x \in Event \ {"removed"} :
                  AtMostOne(evs, x) => AtMostOne(Without(evs, kind), x)
<1> DEFINE w == Without(evs, kind)
<1>1. DOMAIN w = 1..Len(evs) /\ Len(evs) \in Nat /\ DOMAIN evs = 1..Len(evs)
  BY DEF Without
<1>2. \A i \in 1..Len(evs) : w[i] = IF evs[i] = kind THEN "removed" ELSE evs[i]
  BY <1>1 DEF Without
<1>3. \A i \in 1..Len(evs) : evs[i] \in Event
  BY ElementOfSeq
<1>4. w \in [1..Len(evs) -> Event]
  BY <1>1, <1>3 DEF Without, Event
<1>5. w \in Seq(Event)
  BY <1>1, <1>4, SeqDef
<1> HIDE DEF w
<1>6. ~Posted(w, kind)
  BY <1>1, <1>2 DEF Posted
<1>7. \A x \in Event \ {"removed"} : Posted(w, x) => Posted(evs, x)
  BY <1>1, <1>2 DEF Posted
<1>8. \A x \in Event \ {"removed"} : AtMostOne(evs, x) => AtMostOne(w, x)
  BY <1>1, <1>2 DEF AtMostOne
<1> QED
  BY <1>5, <1>6, <1>7, <1>8 DEF w

(* reportCanceled posts at most one cancellation. *)
LEMMA ReportCanceledEvents ==
    ASSUME NEW evs \in Seq(Event)
    PROVE  /\ ReportCanceled(evs) \in Seq(Event)
           /\ \A x \in Event : Posted(ReportCanceled(evs), x)
                                 => Posted(evs, x) \/ x = "progressCanceled"
           /\ AtMostOne(evs, "finished")
                 => AtMostOne(ReportCanceled(evs), "finished")
BY AppendEvent DEF ReportCanceled, Event

(* The steps and the configurations of a request. *)
LEMMA RequestLists ==
    ASSUME NEW r \in Seq(Entry)
    PROVE  /\ StepsIn(r) \in Seq(Steps)
           /\ ConfigsIn(r) \in Seq(Configs)
           /\ Len(StepsIn(r)) = Len(r)
           /\ Len(ConfigsIn(r)) = Len(r)
           /\ r # <<>> => StepsIn(r) # <<>>
<1>1. r \in Seq(Entry)
  OBVIOUS
<1>2. \A i \in 1..Len(r) : r[i].step \in Steps /\ r[i].config \in Configs
  <2>1. \A i \in 1..Len(r) : r[i] \in Entry
    BY <1>1, ElementOfSeq
  <2> QED
    BY <2>1 DEF Entry
<1>3. DOMAIN r = 1..Len(r) /\ Len(r) \in Nat
  BY <1>1
<1>4. StepsIn(r) \in [1..Len(r) -> Steps] /\ ConfigsIn(r) \in [1..Len(r) -> Configs]
  BY <1>2, <1>3 DEF StepsIn, ConfigsIn
<1>5. StepsIn(r) \in Seq(Steps) /\ ConfigsIn(r) \in Seq(Configs)
  BY <1>3, <1>4, SeqDef
<1>6. Len(StepsIn(r)) = Len(r) /\ Len(ConfigsIn(r)) = Len(r)
  BY <1>3, <1>4, <1>5
<1>7. r # <<>> => Len(r) # 0
  BY <1>1
<1> QED
  BY <1>1, <1>5, <1>6, <1>7

-----------------------------------------------------------------------------
(* The inductive invariant.  A finished() that waits belongs to a run()    *)
(* that is over: so the next one is started when no worker is left.        *)

FinishedWaits ==
    /\ AtMostOne(events, "finished")
    /\ watched.phase = "running" => ~Posted(events, "finished")

IInv ==
    /\ TypeOK
    /\ QueueInStep
    /\ OneWorker
    /\ ProgressAlive
    /\ CancelIsCurrent
    /\ FinishedWaits

(* What init() of the first queued step, then run(), do to the queues.     *)
LEMMA PopFront ==
    ASSUME NEW q \in Seq(Steps), NEW cs \in Seq(Configs),
           q # <<>>, Len(q) = Len(cs)
    PROVE  /\ [step |-> Head(q), config |-> Head(cs)] \in Entry
           /\ Tail(q) \in Seq(Steps)
           /\ Tail(cs) \in Seq(Configs)
           /\ Len(Tail(q)) = Len(Tail(cs))
<1>1. cs # <<>>
  BY EmptySeq
<1>2. /\ Head(q) \in Steps /\ Tail(q) \in Seq(Steps) /\ Len(Tail(q)) = Len(q) - 1
      /\ Head(cs) \in Configs /\ Tail(cs) \in Seq(Configs)
      /\ Len(Tail(cs)) = Len(cs) - 1
  BY <1>1, HeadTailProperties
<1> QED
  BY <1>2 DEF Entry

LEMMA NoEntryIsNoEntry == \A e \in Entry : e # NoEntry
BY ConstantsAssumption

(* The number of a project's steps in a list is a natural number. *)
LEMMA CountType ==
    ASSUME NEW q \in Seq(Steps), NEW p \in Projects
    PROVE  Count(q, p) \in Nat
<1>1. DOMAIN q = 1..Len(q) /\ Len(q) \in Nat
  OBVIOUS
<1>2. IsFiniteSet(1..Len(q))
  BY <1>1, FS_Interval
<1>3. {i \in DOMAIN q : ProjectOf[q[i]] = p} \subseteq 1..Len(q)
  BY <1>1
<1>4. IsFiniteSet({i \in DOMAIN q : ProjectOf[q[i]] = p})
  BY <1>2, <1>3, FS_Subset
<1> QED
  BY <1>4, FS_CardinalityType DEF Count

(* What a signal makes its receivers know is well typed. *)
LEMMA SignalType ==
    ASSUME NEW building \in BOOLEAN, NEW act, Signal(building, act)
    PROVE  seen' \in [building : BOOLEAN, projects : SUBSET Projects]
<1>1. {p \in Projects : act[p] > 0} \in SUBSET Projects
  OBVIOUS
<1> QED
  BY <1>1, Zenon DEF Signal

LEMMA ReportType ==
    ASSUME NEW ok \in BOOLEAN, TypeOK, BuildQueueFinished(ok)
    PROVE  report' \in [turn : {0, 1}, ok : BOOLEAN]
<1>1. report.turn \in {0, 1}
  BY DEF TypeOK
<1>2. 1 - report.turn \in {0, 1}
  BY <1>1
<1> QED
  BY <1>2, Zenon DEF BuildQueueFinished

(* Clearing the queue types and empties it. *)
LEMMA ClearBuildQueueType ==
    ASSUME NEW act \in [Projects -> Int], TypeOK, ClearBuildQueue(act)
    PROVE  /\ queue' = <<>> /\ configurations' = <<>>
           /\ running' = FALSE
           /\ progressFuture' = "none"
           /\ maxProgress' = 0
           /\ active' \in [Projects -> Int]
           /\ report' \in [turn : {0, 1}, ok : BOOLEAN]
           /\ seen' \in [building : BOOLEAN, projects : SUBSET Projects]
<1>1. \A p \in Projects : Count(queue, p) \in Nat
  BY CountType DEF TypeOK
<1>2. active' \in [Projects -> Int]
  BY <1>1 DEF ClearBuildQueue
<1> QED
  BY <1>2, ReportType, SignalType DEF ClearBuildQueue

(* So does the end of a queue that ran empty. *)
LEMMA EndOfQueueType ==
    ASSUME NEW act, TypeOK, EndOfQueue(act)
    PROVE  /\ running' = FALSE
           /\ progressFuture' = "none"
           /\ maxProgress' = 0
           /\ report' \in [turn : {0, 1}, ok : BOOLEAN]
           /\ seen' \in [building : BOOLEAN, projects : SUBSET Projects]
BY ReportType, SignalType DEF EndOfQueue

LEMMA DecrementedType == TypeOK => Decremented \in [Projects -> Int]
<1> SUFFICES ASSUME TypeOK PROVE Decremented \in [Projects -> Int]
  OBVIOUS
<1>1. active \in [Projects -> Int]
  BY DEF TypeOK
<1>2. CASE CurrentProject \in Projects
  <2>1. active[CurrentProject] - 1 \in Int
    BY <1>1, <1>2
  <2> QED
    BY <1>1, <2>1 DEF Decremented
<1>3. CASE CurrentProject \notin Projects
  BY <1>1, <1>3, Zenon DEF Decremented
<1> QED
  BY <1>2, <1>3

(* Taking up the first step of a queue, whether or not it can be started:  *)
(* with no worker left, no worker is left behind.                          *)
LEMMA TakeUpStep ==
    ASSUME TypeOK, OneWorker,
           NEW q \in Seq(Steps), NEW cs \in Seq(Configs),
           NEW evs \in Seq(Event),
           q # <<>>, Len(q) = Len(cs),
           watched.phase # "running",
           AtMostOne(evs, "finished"),
           \/ BeginStep(q, cs, evs)
           \/ RefuseStep(q, cs, evs)
    PROVE  /\ current' \in Entry /\ current' # NoEntry
           /\ queue' \in Seq(Steps) /\ configurations' \in Seq(Configs)
           /\ Len(queue') = Len(configurations')
           /\ watched' \in [phase : {"none", "running", "finished"}, result : BOOLEAN]
           /\ orphans' = 0
           /\ events' \in Seq(Event)
           /\ gui' \in {"loop", "cancel", "cancelInit", "crashed"}
           /\ FinishedWaits'
           /\ \A x \in Event \ {"removed"} : Posted(events', x) => Posted(evs, x)
<1>1. /\ [step |-> Head(q), config |-> Head(cs)] \in Entry
      /\ Tail(q) \in Seq(Steps)
      /\ Tail(cs) \in Seq(Configs)
      /\ Len(Tail(q)) = Len(Tail(cs))
  BY PopFront
<1>2. CASE BeginStep(q, cs, evs)
  <2>1. /\ events' = Without(evs, "finished")
        /\ watched' = [phase |-> "running", result |-> FALSE]
        /\ orphans' = 0
        /\ gui' = gui
        /\ current' = [step |-> Head(q), config |-> Head(cs)]
        /\ queue' = Tail(q) /\ configurations' = Tail(cs)
    BY <1>2 DEF BeginStep, OneWorker
  <2>2. "finished" \in Event \ {"removed"}
    BY DEF Event
  <2> QED
    BY <1>1, <2>1, <2>2, WithoutEvents, NoEntryIsNoEntry DEF FinishedWaits, TypeOK
<1>3. CASE RefuseStep(q, cs, evs)
  <2>1. /\ events' = evs
        /\ watched' = watched /\ orphans' = orphans
        /\ gui' = "cancelInit"
        /\ current' = [step |-> Head(q), config |-> Head(cs)]
        /\ queue' = Tail(q) /\ configurations' = Tail(cs)
    BY <1>3 DEF RefuseStep
  <2> QED
    BY <1>1, <2>1, NoEntryIsNoEntry DEF FinishedWaits, TypeOK, OneWorker
<1> QED
  BY <1>2, <1>3

-----------------------------------------------------------------------------
(* Every action keeps the inductive invariant. *)

LEMMA RequestWhileRunningInv ==
    ASSUME IInv, NEW r \in Seq(Entry), RequestWhileRunning(r)
    PROVE  IInv'
<1> USE DEF IInv
<1>1. /\ StepsIn(r) \in Seq(Steps) /\ ConfigsIn(r) \in Seq(Configs)
      /\ Len(StepsIn(r)) = Len(r) /\ Len(ConfigsIn(r)) = Len(r)
      /\ Len(r) \in Nat
  BY RequestLists
<1>2. \A p \in Projects : Count(StepsIn(r), p) \in Nat
  BY <1>1, CountType
<1>3. active' \in [Projects -> Int]
  BY <1>2 DEF RequestWhileRunning, Appended, TypeOK
<1>4. seen' \in [building : BOOLEAN, projects : SUBSET Projects]
  BY SignalType DEF RequestWhileRunning, SignalAppended, TypeOK
<1>5. queue' \in Seq(Steps) /\ configurations' \in Seq(Configs)
      /\ Len(queue') = Len(configurations')
  <2> DEFINE ss == StepsIn(r)
             ts == ConfigsIn(r)
  <2>1. /\ queue \in Seq(Steps) /\ configurations \in Seq(Configs)
        /\ Len(queue) = Len(configurations)
        /\ queue' = queue \o ss
        /\ configurations' = configurations \o ts
    BY DEF RequestWhileRunning, TypeOK, QueueInStep
  <2>2. /\ ss \in Seq(Steps) /\ ts \in Seq(Configs)
        /\ Len(ss) = Len(ts)
    BY <1>1
  <2> HIDE DEF ss, ts
  <2>3. queue' \in Seq(Steps) /\ Len(queue') = Len(queue) + Len(ss)
    BY <2>1, <2>2, ConcatProperties
  <2>4. configurations' \in Seq(Configs)
        /\ Len(configurations') = Len(configurations) + Len(ts)
    BY <2>1, <2>2, ConcatProperties
  <2> QED
    BY <2>1, <2>2, <2>3, <2>4
<1>6. TypeOK'
  BY <1>1, <1>3, <1>4, <1>5 DEF RequestWhileRunning, TypeOK
<1> QED
  BY <1>5, <1>6 DEF RequestWhileRunning, QueueInStep, OneWorker, ProgressAlive,
     CancelIsCurrent, FinishedWaits

LEMMA RequestWhenIdleInv ==
    ASSUME IInv, NEW r \in Seq(Entry), RequestWhenIdle(r)
    PROVE  IInv'
<1> USE DEF IInv
<1> DEFINE q == queue \o StepsIn(r)
           cs == configurations \o ConfigsIn(r)
           evs == WatchProgress(events)
<1>1. /\ StepsIn(r) \in Seq(Steps) /\ ConfigsIn(r) \in Seq(Configs)
      /\ Len(StepsIn(r)) = Len(r) /\ Len(ConfigsIn(r)) = Len(r)
      /\ Len(r) \in Nat
  BY RequestLists
<1>2. \A p \in Projects : Count(StepsIn(r), p) \in Nat
  BY <1>1, CountType
<1>3. active' \in [Projects -> Int]
  BY <1>2 DEF RequestWhenIdle, Appended, TypeOK
<1>4. seen' \in [building : BOOLEAN, projects : SUBSET Projects]
  BY SignalType DEF RequestWhenIdle, SignalAppended, TypeOK
<1>5. q \in Seq(Steps) /\ cs \in Seq(Configs) /\ Len(q) = Len(cs) /\ q # <<>>
  BY <1>1, ConcatProperties DEF RequestWhenIdle, TypeOK, QueueInStep
<1>6. /\ evs \in Seq(Event)
      /\ ~Posted(evs, "progressCanceled")
      /\ AtMostOne(evs, "finished")
  BY WithoutEvents DEF TypeOK, FinishedWaits, Event, WatchProgress
<1>7. watched.phase # "running"
  BY DEF RequestWhenIdle, OneWorker
<1>8. BeginStep(q, cs, evs) \/ RefuseStep(q, cs, evs)
  BY DEF RequestWhenIdle
<1>9. /\ current' \in Entry /\ current' # NoEntry
      /\ queue' \in Seq(Steps) /\ configurations' \in Seq(Configs)
      /\ Len(queue') = Len(configurations')
      /\ watched' \in [phase : {"none", "running", "finished"}, result : BOOLEAN]
      /\ orphans' = 0
      /\ events' \in Seq(Event)
      /\ gui' \in {"loop", "cancel", "cancelInit", "crashed"}
      /\ FinishedWaits'
      /\ ~Posted(events', "progressCanceled")
  <2> HIDE DEF q, cs, evs
  <2> QED
    BY <1>5, <1>6, <1>7, <1>8, TakeUpStep DEF Event
<1>10. canceling' \in BOOLEAN
  BY DEF RequestWhenIdle, RefuseStep, ResetCanceling
<1>11. /\ running' = TRUE
       /\ progress' = 0
       /\ maxProgress' = maxProgress + Len(r)
       /\ progressFuture' = "started"
       /\ report' = report
  BY DEF RequestWhenIdle
<1>12. TypeOK'
  BY <1>1, <1>3, <1>4, <1>9, <1>10, <1>11 DEF TypeOK
<1> QED
  BY <1>9, <1>11, <1>12 DEF QueueInStep, OneWorker, ProgressAlive, CancelIsCurrent

LEMMA RequestNothingInv ==
    ASSUME IInv, NEW r \in Seq(Entry), RequestNothing(r)
    PROVE  IInv'
<1> USE DEF IInv
<1>1. /\ running' = FALSE
      /\ progressFuture' = "none"
      /\ maxProgress' = 0
      /\ report' \in [turn : {0, 1}, ok : BOOLEAN]
      /\ seen' \in [building : BOOLEAN, projects : SUBSET Projects]
  BY EndOfQueueType DEF RequestNothing
<1>2. \A p \in Projects : Count(StepsIn(r), p) \in Nat
  BY RequestLists, CountType
<1>3. active' \in [Projects -> Int]
  BY <1>2 DEF RequestNothing, Appended, TypeOK
<1>4. events' = Without(events, "progressCanceled")
  BY DEF RequestNothing, WatchProgress
<1>5. events' \in Seq(Event) /\ FinishedWaits'
  BY <1>4, WithoutEvents DEF TypeOK, FinishedWaits, Event, RequestNothing
<1>6. TypeOK'
  BY <1>1, <1>3, <1>5 DEF RequestNothing, ResetCanceling, TypeOK
<1> QED
  BY <1>1, <1>5, <1>6 DEF RequestNothing, QueueInStep, OneWorker, ProgressAlive,
     CancelIsCurrent

LEMMA CancelBuildInv ==
    ASSUME IInv, CancelBuild
    PROVE  IInv'
BY DEF IInv, CancelBuild, Cancel, TypeOK, QueueInStep, OneWorker,
   ProgressAlive, CancelIsCurrent, FinishedWaits

LEMMA CancelInProgressWidgetInv ==
    ASSUME IInv, CancelInProgressWidget
    PROVE  IInv'
<1> USE DEF IInv
<1>1. events' = Append(events, "progressCanceled") /\ "progressCanceled" \in Event
  BY DEF CancelInProgressWidget, Event
<1>2. events' \in Seq(Event) /\ FinishedWaits'
  BY <1>1, AppendEvent DEF TypeOK, FinishedWaits, CancelInProgressWidget, Event
<1> QED
  BY <1>2 DEF CancelInProgressWidget, TypeOK, QueueInStep, OneWorker,
     ProgressAlive, CancelIsCurrent

LEMMA CancelFinishedInv ==
    ASSUME IInv, CancelFinished
    PROVE  IInv'
<1> USE DEF IInv
<1>1. /\ queue' = <<>> /\ configurations' = <<>>
      /\ running' = FALSE
      /\ progressFuture' = "none"
      /\ maxProgress' = 0
      /\ active' \in [Projects -> Int]
      /\ report' \in [turn : {0, 1}, ok : BOOLEAN]
      /\ seen' \in [building : BOOLEAN, projects : SUBSET Projects]
  BY ClearBuildQueueType, DecrementedType DEF CancelFinished
<1>2. events' = ReportCanceled(Append(events, "cancelMessage"))
  BY DEF CancelFinished, SingleShotCancelMessage
<1>3. /\ Append(events, "cancelMessage") \in Seq(Event)
      /\ AtMostOne(Append(events, "cancelMessage"), "finished")
  BY AppendEvent DEF TypeOK, FinishedWaits, Event
<1>4. events' \in Seq(Event) /\ AtMostOne(events', "finished")
  BY <1>2, <1>3, ReportCanceledEvents
<1>5. /\ queue' \in Seq(Steps) /\ configurations' \in Seq(Configs)
      /\ running' \in BOOLEAN /\ maxProgress' \in Nat
      /\ progressFuture' \in {"none", "started", "canceled"}
      /\ active' \in [Projects -> Int]
      /\ report' \in [turn : {0, 1}, ok : BOOLEAN]
      /\ seen' \in [building : BOOLEAN, projects : SUBSET Projects]
  <2>1. running' \in BOOLEAN
    BY <1>1, Zenon
  <2> QED
    BY <1>1, <2>1
<1>6. gui' = "loop" /\ UNCHANGED <<current, canceling, progress, watched, orphans>>
  BY DEF CancelFinished
<1>7. TypeOK'
  BY <1>4, <1>5, <1>6 DEF TypeOK
<1> QED
  BY <1>1, <1>4, <1>7 DEF CancelFinished, WaitForFinished, QueueInStep,
     OneWorker, ProgressAlive, CancelIsCurrent, FinishedWaits

LEMMA WorkerOutputInv ==
    ASSUME IInv, WorkerOutput
    PROVE  IInv'
<1> USE DEF IInv
<1>1. /\ events' = Append(events, "output") /\ "output" \in Event
      /\ UNCHANGED <<mvars, watched, orphans, gui, report, seen>>
  BY DEF WorkerOutput, Event
<1>2. /\ events' \in Seq(Event)
      /\ FinishedWaits'
      /\ Posted(events', "progressCanceled") => Posted(events, "progressCanceled")
  BY <1>1, AppendEvent DEF TypeOK, FinishedWaits, Event
<1> QED
  BY <1>1, <1>2 DEF mvars, TypeOK, QueueInStep, OneWorker, ProgressAlive,
     CancelIsCurrent

LEMMA WorkerReturnsInv ==
    ASSUME IInv, NEW ok \in BOOLEAN, WorkerReturns(ok)
    PROVE  IInv'
<1> USE DEF IInv
<1>1. /\ events' = Append(events, "finished") /\ "finished" \in Event
      /\ watched' = [phase |-> "finished", result |-> ok]
      /\ watched.phase = "running"
      /\ UNCHANGED <<mvars, orphans, gui, report, seen>>
  BY DEF WorkerReturns, Event
<1>2. /\ events' \in Seq(Event)
      /\ FinishedWaits'
      /\ Posted(events', "progressCanceled") => Posted(events, "progressCanceled")
  BY <1>1, AppendEvent DEF TypeOK, FinishedWaits, Event
<1> QED
  BY <1>1, <1>2 DEF mvars, TypeOK, QueueInStep, OneWorker, ProgressAlive,
     CancelIsCurrent

(* What every delivery does to the queue of events. *)
LEMMA Delivered ==
    ASSUME IInv, NEW kind, Deliver(kind)
    PROVE  /\ Tail(events) \in Seq(Event)
           /\ AtMostOne(Tail(events), "finished")
           /\ Posted(Tail(events), "progressCanceled")
                 => Posted(events, "progressCanceled")
           /\ Posted(Tail(events), "finished") => Posted(events, "finished")
           /\ kind = "finished" => /\ Posted(events, "finished")
                                   /\ ~Posted(Tail(events), "finished")
                                   /\ watched.phase # "running"
BY TailEvents DEF IInv, TypeOK, FinishedWaits, Deliver, Event

LEMMA DeliverTextInv ==
    ASSUME IInv, DeliverText
    PROVE  IInv'
<1> USE DEF IInv
<1>1. /\ events' = Tail(events)
      /\ UNCHANGED <<mvars, watched, orphans, gui, report, seen>>
  BY DEF DeliverText
<1>2. PICK kind : Deliver(kind)
  BY DEF DeliverText
<1> QED
  BY <1>1, <1>2, Delivered DEF mvars, TypeOK, QueueInStep, OneWorker,
     ProgressAlive, CancelIsCurrent, FinishedWaits

LEMMA DeliverProgressCanceledInv ==
    ASSUME IInv, DeliverProgressCanceled
    PROVE  IInv'
<1> USE DEF IInv
<1>1. /\ events' = Tail(events)
      /\ Deliver("progressCanceled")
      /\ UNCHANGED <<queue, configurations, running, current, active, progress,
                     maxProgress, progressFuture, watched, orphans, report,
                     seen>>
  BY DEF DeliverProgressCanceled
<1>2. canceling' \in BOOLEAN /\ gui' \in {"loop", "cancel", "cancelInit", "crashed"}
  BY DEF DeliverProgressCanceled, Cancel, TypeOK
<1> QED
  BY <1>1, <1>2, Delivered DEF TypeOK, QueueInStep, OneWorker,
     ProgressAlive, CancelIsCurrent, FinishedWaits

LEMMA NextBuildQueueIgnoredInv ==
    ASSUME IInv, NextBuildQueueIgnored
    PROVE  IInv'
BY Delivered DEF IInv, NextBuildQueueIgnored, mvars, TypeOK, QueueInStep, OneWorker,
     ProgressAlive, CancelIsCurrent, FinishedWaits

LEMMA NextBuildQueueCrashesInv ==
    ASSUME IInv, NextBuildQueueCrashes
    PROVE  IInv'
BY Delivered DEF IInv, NextBuildQueueCrashes, mvars, TypeOK, QueueInStep, OneWorker,
     ProgressAlive, CancelIsCurrent, FinishedWaits

LEMMA NextBuildQueueNextInv ==
    ASSUME IInv, NextBuildQueueNext
    PROVE  IInv'
<1> USE DEF IInv
<1>1. /\ Deliver("finished")
      /\ progress' = progress + 1
      /\ progressFuture # "none"
      /\ queue # <<>>
      /\ active' = Decremented
      /\ UNCHANGED <<running, maxProgress, progressFuture, report>>
  BY DEF NextBuildQueueNext, StepDone
<1>2. /\ Tail(events) \in Seq(Event)
      /\ AtMostOne(Tail(events), "finished")
      /\ Posted(Tail(events), "progressCanceled") => Posted(events, "progressCanceled")
      /\ watched.phase # "running"
  BY <1>1, Delivered
<1>3. \/ BeginStep(queue, configurations, Tail(events))
      \/ RefuseStep(queue, configurations, Tail(events))
  BY DEF NextBuildQueueNext
<1>4. queue \in Seq(Steps) /\ configurations \in Seq(Configs)
      /\ Len(queue) = Len(configurations)
  BY DEF TypeOK, QueueInStep
<1>5. /\ current' \in Entry /\ current' # NoEntry
      /\ queue' \in Seq(Steps) /\ configurations' \in Seq(Configs)
      /\ Len(queue') = Len(configurations')
      /\ watched' \in [phase : {"none", "running", "finished"}, result : BOOLEAN]
      /\ orphans' = 0
      /\ events' \in Seq(Event)
      /\ gui' \in {"loop", "cancel", "cancelInit", "crashed"}
      /\ FinishedWaits'
      /\ Posted(events', "progressCanceled") => Posted(events, "progressCanceled")
  BY <1>1, <1>2, <1>3, <1>4, TakeUpStep DEF Event
<1>6. canceling' \in BOOLEAN
  BY DEF NextBuildQueueNext, RefuseStep, TypeOK
<1>7. seen' \in [building : BOOLEAN, projects : SUBSET Projects]
  BY SignalType DEF NextBuildQueueNext, SignalDecremented, TypeOK
<1>8. TypeOK'
  BY <1>1, <1>5, <1>6, <1>7, DecrementedType DEF TypeOK
<1>9. running
  BY <1>1 DEF ProgressAlive
<1> QED
  BY <1>1, <1>5, <1>8, <1>9 DEF QueueInStep, OneWorker, ProgressAlive, CancelIsCurrent

LEMMA NextBuildQueueSucceedsInv ==
    ASSUME IInv, NextBuildQueueSucceeds
    PROVE  IInv'
<1> USE DEF IInv
<1>1. /\ Deliver("finished")
      /\ progress' = progress + 1
      /\ active' = Decremented
      /\ events' = Tail(events)
      /\ queue = <<>>
      /\ UNCHANGED <<queue, configurations, current, canceling, watched,
                     orphans, gui>>
  BY DEF NextBuildQueueSucceeds, StepDone
<1>2. /\ running' = FALSE
      /\ progressFuture' = "none"
      /\ maxProgress' = 0
      /\ report' \in [turn : {0, 1}, ok : BOOLEAN]
      /\ seen' \in [building : BOOLEAN, projects : SUBSET Projects]
  BY EndOfQueueType DEF NextBuildQueueSucceeds
<1>3. /\ Tail(events) \in Seq(Event)
      /\ AtMostOne(Tail(events), "finished")
      /\ watched.phase # "running"
  BY <1>1, Delivered
<1>4. /\ running' \in BOOLEAN /\ maxProgress' \in Nat /\ progress' \in Nat
      /\ progressFuture' \in {"none", "started", "canceled"}
      /\ report' \in [turn : {0, 1}, ok : BOOLEAN]
      /\ seen' \in [building : BOOLEAN, projects : SUBSET Projects]
      /\ active' \in [Projects -> Int]
      /\ events' \in Seq(Event)
  <2>1. running' \in BOOLEAN
    BY <1>2, Zenon
  <2>2. progress' \in Nat
    BY <1>1 DEF TypeOK
  <2>3. active' \in [Projects -> Int]
    BY <1>1, DecrementedType
  <2> QED
    BY <1>1, <1>2, <1>3, <2>1, <2>2, <2>3
<1>5. UNCHANGED <<queue, configurations, current, canceling, watched, orphans, gui>>
  BY <1>1
<1>6. TypeOK'
  BY <1>4, <1>5 DEF TypeOK
<1> QED
  BY <1>1, <1>2, <1>3, <1>6 DEF QueueInStep, OneWorker, ProgressAlive,
     CancelIsCurrent, FinishedWaits

LEMMA NextBuildQueueFailsInv ==
    ASSUME IInv, NextBuildQueueFails
    PROVE  IInv'
<1> USE DEF IInv
<1>1. /\ Deliver("finished")
      /\ progress' = progress + 1
      /\ events' = ReportCanceled(Tail(events))
      /\ UNCHANGED <<current, canceling, watched, orphans, gui>>
  BY DEF NextBuildQueueFails, StepDone
<1>2. /\ queue' = <<>> /\ configurations' = <<>>
      /\ running' = FALSE
      /\ progressFuture' = "none"
      /\ maxProgress' = 0
      /\ active' \in [Projects -> Int]
      /\ report' \in [turn : {0, 1}, ok : BOOLEAN]
      /\ seen' \in [building : BOOLEAN, projects : SUBSET Projects]
  BY ClearBuildQueueType, DecrementedType DEF NextBuildQueueFails
<1>3. /\ Tail(events) \in Seq(Event)
      /\ AtMostOne(Tail(events), "finished")
      /\ watched.phase # "running"
  BY <1>1, Delivered
<1>4. events' \in Seq(Event) /\ AtMostOne(events', "finished")
  BY <1>1, <1>3, ReportCanceledEvents
<1>5. /\ queue' \in Seq(Steps) /\ configurations' \in Seq(Configs)
      /\ running' \in BOOLEAN /\ maxProgress' \in Nat /\ progress' \in Nat
      /\ progressFuture' \in {"none", "started", "canceled"}
      /\ active' \in [Projects -> Int]
      /\ report' \in [turn : {0, 1}, ok : BOOLEAN]
      /\ seen' \in [building : BOOLEAN, projects : SUBSET Projects]
  <2>1. running' \in BOOLEAN
    BY <1>2, Zenon
  <2>2. progress' \in Nat
    BY <1>1 DEF TypeOK
  <2> QED
    BY <1>2, <2>1, <2>2
<1>6. UNCHANGED <<current, canceling, watched, orphans, gui>>
  BY <1>1
<1>7. TypeOK'
  BY <1>4, <1>5, <1>6 DEF TypeOK
<1> QED
  BY <1>1, <1>2, <1>3, <1>4, <1>7 DEF QueueInStep, OneWorker, ProgressAlive,
     CancelIsCurrent, FinishedWaits

LEMMA InitInv == Init => IInv
<1> SUFFICES ASSUME Init PROVE IInv
  OBVIOUS
<1>1. TypeOK
  <2>1. running \in BOOLEAN /\ canceling \in BOOLEAN
    BY DEF Init
  <2>2. watched \in [phase : {"none", "running", "finished"}, result : BOOLEAN]
    BY DEF Init
  <2>3. report \in [turn : {0, 1}, ok : BOOLEAN]
    BY DEF Init
  <2>4. seen \in [building : BOOLEAN, projects : SUBSET Projects]
    BY DEF Init
  <2>5. active \in [Projects -> Int]
    BY DEF Init
  <2>6. /\ queue \in Seq(Steps) /\ configurations \in Seq(Configs)
        /\ events \in Seq(Event)
    BY DEF Init
  <2>7. /\ progress \in Nat /\ maxProgress \in Nat /\ orphans \in Nat
        /\ current \in Entry \cup {NoEntry}
        /\ progressFuture \in {"none", "started", "canceled"}
        /\ gui \in {"loop", "cancel", "cancelInit", "crashed"}
    BY DEF Init
  <2> QED
    BY <2>1, <2>2, <2>3, <2>4, <2>5, <2>6, <2>7 DEF TypeOK
<1>2. \A k : ~Posted(events, k) /\ AtMostOne(events, k)
  BY DEF Init, Posted, AtMostOne
<1> QED
  BY <1>1, <1>2 DEF Init, IInv, QueueInStep, OneWorker, ProgressAlive,
     CancelIsCurrent, FinishedWaits

(* The next-state relation whatever sequences of steps are asked for.      *)
AnyRequest == \E r \in Seq(Entry) : Request(r)
AnyNext ==
    \/ AnyRequest \/ CancelBuild \/ CancelInProgressWidget
    \/ CancelFinished \/ Worker \/ EventLoop

LEMMA NextIsAny == [Next]_vars => [AnyNext]_vars
BY ConstantsAssumption DEF Next, User, AnyNext, AnyRequest

LEMMA AnyNextInv == IInv /\ [AnyNext]_vars => IInv'
<1> SUFFICES ASSUME IInv, [AnyNext]_vars PROVE IInv'
  OBVIOUS
<1>1. CASE AnyRequest \/ CancelBuild \/ CancelInProgressWidget
  BY <1>1, RequestWhileRunningInv, RequestWhenIdleInv, RequestNothingInv,
     CancelBuildInv, CancelInProgressWidgetInv DEF AnyRequest, Request
<1>2. CASE CancelFinished
  BY <1>2, CancelFinishedInv
<1>3. CASE Worker
  BY <1>3, WorkerOutputInv, WorkerReturnsInv DEF Worker
<1>4. CASE EventLoop
  BY <1>4, DeliverTextInv, DeliverProgressCanceledInv,
     NextBuildQueueIgnoredInv, NextBuildQueueCrashesInv, NextBuildQueueNextInv,
     NextBuildQueueSucceedsInv, NextBuildQueueFailsInv
     DEF EventLoop, NextBuildQueue
<1>5. CASE UNCHANGED vars
  BY <1>5 DEF vars, IInv, TypeOK, QueueInStep, OneWorker, ProgressAlive,
     CancelIsCurrent, FinishedWaits
<1> QED
  BY <1>1, <1>2, <1>3, <1>4, <1>5 DEF AnyNext

LEMMA SpecIInv == Spec => []IInv
BY InitInv, NextIsAny, AnyNextInv, PTL DEF Spec

-----------------------------------------------------------------------------
(* The variables keep their types, however requests, cancellations, the    *)
(* worker and the event loop interleave.                                   *)
THEOREM TypeCorrect == Spec => []TypeOK
<1>1. IInv => TypeOK
  BY DEF IInv
<1> QED
  BY <1>1, SpecIInv, PTL

(* At most one BuildStep::run executes, and only during a build. *)
THEOREM SingleWorker == Spec => []OneWorker
<1>1. IInv => OneWorker
  BY DEF IInv
<1> QED
  BY <1>1, SpecIInv, PTL

(* A cancellation that waits cancels the build it was asked for. *)
THEOREM CancelOfThisBuild == Spec => []CancelIsCurrent
<1>1. IInv => CancelIsCurrent
  BY DEF IInv
<1> QED
  BY <1>1, SpecIInv, PTL

(* The progress object lives exactly as long as the build. *)
THEOREM ProgressLives == Spec => []ProgressAlive
<1>1. IInv => ProgressAlive
  BY DEF IInv
<1> QED
  BY <1>1, SpecIInv, PTL

-----------------------------------------------------------------------------
(* A finished() that m_canceling does not hide is the current step's: the  *)
(* next setFuture removes the one of a cancelled step before m_canceling   *)
(* is reset.  Only an empty request resets it without a setFuture, and     *)
(* reports a success.                                                      *)

FInv ==
    /\ ~canceling /\ Posted(events, "finished")
           => IF running THEN watched.phase = "finished" ELSE report.ok
    /\ gui \in {"cancel", "cancelInit"} => canceling

LEMMA RequestWhenIdleFInv ==
    ASSUME IInv, FInv, NEW r \in Requests, RequestWhenIdle(r)
    PROVE  FInv'
<1> DEFINE q == queue \o StepsIn(r)
           cs == configurations \o ConfigsIn(r)
           evs == WatchProgress(events)
<1>1. \/ BeginStep(q, cs, evs)
      \/ RefuseStep(q, cs, evs)
  BY DEF RequestWhenIdle
<1>2. gui = "loop"
  BY DEF RequestWhenIdle
<1>3. evs \in Seq(Event)
  BY WithoutEvents DEF IInv, TypeOK, Event, WatchProgress
<1> HIDE DEF q, cs, evs
<1>4. CASE BeginStep(q, cs, evs)
  <2>1. gui' = gui /\ events' = Without(evs, "finished")
    BY <1>4 DEF BeginStep
  <2>2. ~Posted(events', "finished")
    BY <1>3, <2>1, WithoutEvents DEF Event
  <2> QED
    BY <1>2, <2>1, <2>2 DEF FInv
<1>5. CASE RefuseStep(q, cs, evs)
  BY <1>5 DEF RefuseStep, FInv
<1> QED
  BY <1>1, <1>4, <1>5

LEMMA NextBuildQueueNextFInv ==
    ASSUME IInv, FInv, NextBuildQueueNext
    PROVE  FInv'
<1>1. Deliver("finished")
  BY DEF NextBuildQueueNext, StepDone
<1>2. Tail(events) \in Seq(Event) /\ gui = "loop"
  BY <1>1, Delivered DEF Deliver
<1>3. CASE BeginStep(queue, configurations, Tail(events))
  <2>1. gui' = gui /\ events' = Without(Tail(events), "finished")
    BY <1>3 DEF BeginStep
  <2>2. ~Posted(events', "finished")
    BY <1>2, <2>1, WithoutEvents DEF Event
  <2> QED
    BY <1>2, <2>1, <2>2 DEF FInv
<1>4. CASE RefuseStep(queue, configurations, Tail(events))
  BY <1>4 DEF RefuseStep, FInv
<1> QED
  BY <1>3, <1>4 DEF NextBuildQueueNext

(* The deliveries take events away, and nextBuildQueue the only finished(). *)
LEMMA EventLoopFInv ==
    ASSUME IInv, FInv, EventLoop
    PROVE  FInv'
<1>1. CASE DeliverText
  <2>1. PICK kind : Deliver(kind)
    BY <1>1 DEF DeliverText
  <2>2. Posted(events', "finished") => Posted(events, "finished")
    BY <1>1, <2>1, Delivered DEF DeliverText
  <2> QED
    BY <1>1, <2>2 DEF DeliverText, mvars, FInv
<1>2. CASE DeliverProgressCanceled
  <2>1. Posted(events', "finished") => Posted(events, "finished")
    BY <1>2, Delivered DEF DeliverProgressCanceled
  <2>2. watched' = watched /\ running' = running /\ gui = "loop"
    BY <1>2 DEF DeliverProgressCanceled, Deliver
  <2>3. CASE running
    BY <1>2, <2>3 DEF DeliverProgressCanceled, Cancel, FInv
  <2>4. CASE ~running
    BY <1>2, <2>1, <2>2, <2>4 DEF DeliverProgressCanceled, FInv
  <2> QED
    BY <2>3, <2>4
<1>3. CASE NextBuildQueueIgnored
  BY <1>3, Delivered DEF NextBuildQueueIgnored, mvars, FInv
<1>4. CASE NextBuildQueueCrashes
  <2>1. ~Posted(events', "finished") /\ gui' = "crashed"
    BY <1>4, Delivered DEF NextBuildQueueCrashes
  <2> QED
    BY <2>1 DEF FInv
<1>5. CASE NextBuildQueueNext
  BY <1>5, NextBuildQueueNextFInv
<1>6. CASE NextBuildQueueSucceeds
  <2>1. Deliver("finished") /\ events' = Tail(events) /\ gui' = gui
    BY <1>6 DEF NextBuildQueueSucceeds, StepDone
  <2>2. ~Posted(events', "finished") /\ gui' = "loop"
    BY <2>1, Delivered DEF Deliver
  <2> QED
    BY <2>2 DEF FInv
<1>7. CASE NextBuildQueueFails
  <2>1. Deliver("finished") /\ events' = ReportCanceled(Tail(events)) /\ gui' = gui
    BY <1>7 DEF NextBuildQueueFails, StepDone
  <2>2. ~Posted(Tail(events), "finished") /\ Tail(events) \in Seq(Event)
    BY <2>1, Delivered
  <2>3. ~Posted(events', "finished") /\ gui' = "loop"
    BY <2>1, <2>2, ReportCanceledEvents DEF Deliver, Event
  <2> QED
    BY <2>3 DEF FInv
<1> QED
  BY <1>1, <1>2, <1>3, <1>4, <1>5, <1>6, <1>7 DEF EventLoop, NextBuildQueue

LEMMA NextFInv ==
    ASSUME IInv, FInv, [Next]_vars
    PROVE  FInv'
<1>1. ASSUME NEW r \in Requests, RequestWhileRunning(r) PROVE FInv'
  BY <1>1 DEF RequestWhileRunning, FInv
<1>2. ASSUME NEW r \in Requests, RequestNothing(r) PROVE FInv'
  <2>1. ~running' /\ report'.ok /\ gui' = "loop"
    BY <1>2 DEF RequestNothing, EndOfQueue, BuildQueueFinished
  <2> QED
    BY <2>1 DEF FInv
<1>3. CASE CancelBuild
  BY <1>3 DEF CancelBuild, Cancel, FInv
<1>4. CASE CancelInProgressWidget
  <2>1. events' = Append(events, "progressCanceled")
    BY <1>4 DEF CancelInProgressWidget
  <2>2. Posted(events', "finished") => Posted(events, "finished")
    BY <2>1, AppendEvent DEF IInv, TypeOK, Event
  <2> QED
    BY <1>4, <2>2 DEF CancelInProgressWidget, FInv
<1>5. CASE CancelFinished
  BY <1>5 DEF CancelFinished, FInv
<1>6. CASE WorkerOutput
  <2>1. events' = Append(events, "output")
    BY <1>6 DEF WorkerOutput
  <2>2. Posted(events', "finished") => Posted(events, "finished")
    BY <2>1, AppendEvent DEF IInv, TypeOK, Event
  <2> QED
    BY <1>6, <2>2 DEF WorkerOutput, mvars, FInv
<1>7. ASSUME NEW ok \in BOOLEAN, WorkerReturns(ok) PROVE FInv'
  BY <1>7 DEF WorkerReturns, mvars, FInv, IInv, OneWorker
<1>8. CASE UNCHANGED vars
  BY <1>8 DEF vars, FInv
<1> QED
  BY <1>1, <1>2, <1>3, <1>4, <1>5, <1>6, <1>7, <1>8, RequestWhenIdleFInv,
     EventLoopFInv DEF Next, User, Request, Worker

(* nextBuildQueue only ever acts on the end of the current step, with a    *)
(* result to read, and never on the end of one that was cancelled, unless  *)
(* no build is going on and the last that was reported is a success: that  *)
(* of an empty request.                                                    *)
THEOREM FinishedOfThisStep == Spec => []FinishedIsCurrent
<1>1. Init => FInv
  BY DEF Init, FInv, Posted
<1>2. IInv /\ FInv /\ [Next]_vars => FInv'
  BY NextFInv
<1>3. IInv /\ FInv => FinishedIsCurrent
  BY DEF IInv, FInv, FinishedWaits, FinishedIsCurrent
<1> QED
  BY <1>1, <1>2, <1>3, SpecIInv, PTL DEF Spec

-----------------------------------------------------------------------------
(* While the GUI thread waits in cancel() the build is not over, and when  *)
(* it waits there because init() has failed, there is nothing to wait for. *)
WaitInv ==
    /\ gui \in {"cancel", "cancelInit"} => running
    /\ gui = "cancelInit" => watched.phase # "running"

LEMMA WaitInvInit == Init => WaitInv
BY DEF Init, WaitInv

LEMMA WaitInvNext == IInv /\ WaitInv /\ [AnyNext]_vars => WaitInv'
<1> SUFFICES ASSUME IInv, WaitInv, [AnyNext]_vars PROVE WaitInv'
  OBVIOUS
<1> USE DEF WaitInv
<1>1. ASSUME NEW r \in Seq(Entry), Request(r) PROVE WaitInv'
  <2>1. CASE RequestWhileRunning(r)
    BY <2>1 DEF RequestWhileRunning
  <2>2. CASE RequestWhenIdle(r)
    BY <2>2 DEF RequestWhenIdle, BeginStep, RefuseStep, IInv, OneWorker
  <2>3. CASE RequestNothing(r)
    BY <2>3 DEF RequestNothing
  <2> QED
    BY <1>1, <2>1, <2>2, <2>3 DEF Request
<1>2. CASE CancelBuild \/ CancelInProgressWidget
  BY <1>2 DEF CancelBuild, Cancel, CancelInProgressWidget
<1>3. CASE CancelFinished
  BY <1>3 DEF CancelFinished
<1>4. CASE Worker
  BY <1>4 DEF Worker, WorkerOutput, WorkerReturns, mvars
<1>5. CASE DeliverText \/ NextBuildQueueIgnored \/ NextBuildQueueCrashes
  BY <1>5 DEF DeliverText, NextBuildQueueIgnored, NextBuildQueueCrashes, Deliver, mvars
<1>6. CASE DeliverProgressCanceled
  BY <1>6 DEF DeliverProgressCanceled, Cancel, Deliver
<1>7. CASE NextBuildQueueNext
  <2>1. running /\ watched.phase # "running" /\ gui = "loop"
    BY <1>7, Delivered DEF NextBuildQueueNext, StepDone, Deliver, IInv, ProgressAlive
  <2> QED
    BY <1>7, <2>1 DEF NextBuildQueueNext, BeginStep, RefuseStep
<1>8. CASE NextBuildQueueSucceeds \/ NextBuildQueueFails
  BY <1>8 DEF NextBuildQueueSucceeds, NextBuildQueueFails, StepDone, Deliver
<1>9. CASE UNCHANGED vars
  BY <1>9 DEF vars
<1> QED
  BY <1>1, <1>2, <1>3, <1>4, <1>5, <1>6, <1>7, <1>8, <1>9
     DEF AnyNext, AnyRequest, EventLoop, NextBuildQueue

LEMMA SpecWaitInv == Spec => []WaitInv
BY WaitInvInit, WaitInvNext, NextIsAny, SpecIInv, PTL DEF Spec

-----------------------------------------------------------------------------
(* Counting the steps of a project in a list. *)

(* Shifting a set of numbers keeps its size. *)
LEMMA ShiftedSet ==
    ASSUME NEW s \in SUBSET Nat, NEW n \in Nat, IsFiniteSet(s)
    PROVE  /\ IsFiniteSet({i + n : i \in s})
           /\ Cardinality({i + n : i \in s}) = Cardinality(s)
<1> DEFINE t == {i + n : i \in s}
           f == [i \in s |-> i + n]
<1>1. f \in [s -> t]
  OBVIOUS
<1>2. \A i, j \in s : f[i] = f[j] => i = j
  OBVIOUS
<1>3. \A k \in t : \E i \in s : f[i] = k
  OBVIOUS
<1>4. f \in Bijection(s, t)
  BY <1>1, <1>2, <1>3 DEF Bijection, Injection, Surjection, IsInjective
<1>5. ExistsBijection(s, t)
  BY <1>4, Zenon DEF ExistsBijection
<1> QED
  BY <1>5, FS_Bijection, Zenon

Places(q, p) == {i \in DOMAIN q : ProjectOf[q[i]] = p}

LEMMA PlacesFinite ==
    ASSUME NEW q \in Seq(Steps), NEW p
    PROVE  /\ IsFiniteSet(Places(q, p))
           /\ Places(q, p) \in SUBSET (1..Len(q))
           /\ Cardinality(Places(q, p)) = Count(q, p)
<1>1. DOMAIN q = 1..Len(q) /\ Len(q) \in Nat
  OBVIOUS
<1>2. Places(q, p) \in SUBSET (1..Len(q))
  BY <1>1 DEF Places
<1>3. IsFiniteSet(1..Len(q))
  BY <1>1, FS_Interval
<1> QED
  BY <1>2, <1>3, FS_Subset DEF Places, Count

LEMMA CountEmpty ==
    ASSUME NEW p
    PROVE  Count(<<>>, p) = 0
<1>1. {i \in DOMAIN <<>> : ProjectOf[<<>>[i]] = p} = {}
  OBVIOUS
<1> QED
  BY <1>1, FS_EmptySet DEF Count

LEMMA CountConcat ==
    ASSUME NEW q \in Seq(Steps), NEW s \in Seq(Steps), NEW p \in Projects
    PROVE  Count(q \o s, p) = Count(q, p) + Count(s, p)
<1> DEFINE n == Len(q)
           b == {i + n : i \in Places(s, p)}
<1>1. /\ q \o s \in Seq(Steps) /\ n \in Nat /\ Len(s) \in Nat
      /\ Len(q \o s) = n + Len(s)
      /\ \A i \in 1..(n + Len(s)) :
            (q \o s)[i] = IF i <= n THEN q[i] ELSE s[i - n]
  BY ConcatProperties
<1>2. /\ DOMAIN (q \o s) = 1..(n + Len(s))
      /\ DOMAIN q = 1..n /\ DOMAIN s = 1..Len(s)
  BY <1>1
<1> HIDE DEF n
<1>3. Places(q \o s, p) = Places(q, p) \cup b
  <2>1. ASSUME NEW i \in Places(q \o s, p) PROVE i \in Places(q, p) \cup b
    <3>1. CASE i <= n
      BY <1>1, <1>2, <2>1, <3>1 DEF Places
    <3>2. CASE ~(i <= n)
      <4>1. i - n \in Places(s, p) /\ i = (i - n) + n
        BY <1>1, <1>2, <2>1, <3>2 DEF Places
      <4> QED
        BY <4>1
    <3> QED
      BY <3>1, <3>2
  <2>2. ASSUME NEW i \in Places(q, p) PROVE i \in Places(q \o s, p)
    BY <1>1, <1>2, <2>2 DEF Places
  <2>3. ASSUME NEW i \in Places(s, p) PROVE i + n \in Places(q \o s, p)
    BY <1>1, <1>2, <2>3 DEF Places
  <2> QED
    BY <2>1, <2>2, <2>3
<1>4. Places(q, p) \cap b = {}
  <2>1. /\ \A i \in Places(q, p) : i \in Nat /\ i <= n
        /\ \A i \in Places(s, p) : i \in Nat /\ i >= 1
    BY <1>1, <1>2 DEF Places
  <2> QED
    BY <1>1, <2>1
<1>5. /\ IsFiniteSet(Places(q, p)) /\ Cardinality(Places(q, p)) = Count(q, p)
      /\ IsFiniteSet(Places(s, p)) /\ Cardinality(Places(s, p)) = Count(s, p)
      /\ Cardinality(Places(q \o s, p)) = Count(q \o s, p)
  BY <1>1, PlacesFinite
<1>6. IsFiniteSet(b) /\ Cardinality(b) = Count(s, p)
  <2>1. Places(s, p) \in SUBSET Nat
    BY PlacesFinite
  <2> QED
    BY <1>1, <1>5, <2>1, ShiftedSet
<1>7. /\ Cardinality(Places(q, p) \cup b) = Count(q, p) + Count(s, p) - Cardinality({})
      /\ Cardinality({}) = 0
  BY <1>4, <1>5, <1>6, FS_Union, FS_EmptySet
<1>8. Count(q, p) \in Nat /\ Count(s, p) \in Nat
  BY CountType
<1> QED
  BY <1>3, <1>5, <1>7, <1>8

(* The first step of a list counts for its project, and for no other. *)
LEMMA CountHeadTail ==
    ASSUME NEW q \in Seq(Steps), q # <<>>, NEW p \in Projects
    PROVE  Count(q, p) = Count(Tail(q), p)
                         + (IF ProjectOf[Head(q)] = p THEN 1 ELSE 0)
<1> DEFINE h == <<Head(q)>>
<1>1. Head(q) \in Steps /\ Tail(q) \in Seq(Steps) /\ h \in Seq(Steps)
  BY HeadTailProperties
<1>2. q = h \o Tail(q)
  <2>1. /\ Len(h) = 1 /\ h[1] = q[1]
        /\ Len(Tail(q)) = Len(q) - 1 /\ Len(q) \in Nat
        /\ \A i \in 1..Len(Tail(q)) : Tail(q)[i] = q[i + 1]
    BY HeadTailProperties
  <2>2. /\ h \o Tail(q) \in Seq(Steps)
        /\ Len(h \o Tail(q)) = Len(h) + Len(Tail(q))
        /\ \A i \in 1..(Len(h) + Len(Tail(q))) : (h \o Tail(q))[i] =
                IF i <= Len(h) THEN h[i] ELSE Tail(q)[i - Len(h)]
    BY <1>1, ConcatProperties
  <2> HIDE DEF h
  <2>3. \A i \in 1..Len(q) : (h \o Tail(q))[i] = q[i]
    BY <2>1, <2>2
  <2> QED
    BY <2>1, <2>2, <2>3, SeqEqual
<1>3. Count(h, p) = IF ProjectOf[Head(q)] = p THEN 1 ELSE 0
  <2>1. {i \in DOMAIN h : ProjectOf[h[i]] = p} =
            IF ProjectOf[Head(q)] = p THEN {1} ELSE {}
    OBVIOUS
  <2> QED
    BY <2>1, FS_EmptySet, FS_Singleton DEF Count
<1>4. Count(q, p) = Count(h, p) + Count(Tail(q), p)
  <2> HIDE DEF h
  <2>1. Count(h \o Tail(q), p) = Count(h, p) + Count(Tail(q), p)
    BY <1>1, CountConcat
  <2> QED
    BY <1>2, <2>1, Zenon
<1>5. Count(h, p) \in Nat /\ Count(Tail(q), p) \in Nat
  BY <1>1, CountType
<1> QED
  BY <1>3, <1>4, <1>5

-----------------------------------------------------------------------------
(* The three accounts as one invariant; the maximum of the progress bar is *)
(* nought between builds.                                                  *)
AccountsInv ==
    /\ ActiveCount
    /\ ProgressCount
    /\ ~running => maxProgress = 0
    /\ SignalledState

(* Between builds no project counts as being built; during one, none has   *)
(* less than nothing, and the current step's has one at least.             *)
LEMMA ActiveNumbers ==
    ASSUME IInv, ActiveCount
    PROVE  /\ \A p \in Projects : active[p] \in Nat
           /\ ~running => \A p \in Projects : active[p] = 0
           /\ running => CurrentProject \in Projects /\ active[CurrentProject] >= 1
<1>1. queue \in Seq(Steps) /\ (~running => queue = <<>>) /\ active \in [Projects -> Int]
  BY DEF IInv, TypeOK, QueueInStep
<1>2. \A p \in Projects : Count(queue, p) \in Nat
  BY <1>1, CountType
<1>3. \A p \in Projects : active[p] = Count(queue, p)
                                + (IF running /\ CurrentProject = p THEN 1 ELSE 0)
  BY DEF ActiveCount
<1>4. ~running => \A p \in Projects : active[p] = 0
  BY <1>1, <1>3, CountEmpty
<1>5. running => CurrentProject \in Projects
  BY ConstantsAssumption DEF IInv, TypeOK, QueueInStep, Entry, CurrentProject
<1>6. \A p \in Projects : active[p] \in Nat
  BY <1>2, <1>3
<1>7. running => active[CurrentProject] >= 1
  BY <1>2, <1>3, <1>5
<1> QED
  BY <1>4, <1>5, <1>6, <1>7

(* The project of a step that is taken up. *)
LEMMA TakenUpProject ==
    ASSUME NEW q \in Seq(Steps), q # <<>>, NEW cs, NEW evs,
           BeginStep(q, cs, evs) \/ RefuseStep(q, cs, evs),
           running' = TRUE
    PROVE  /\ queue' = Tail(q)
           /\ \A p \in Projects : Count(q, p) = Count(queue', p)
                    + (IF running' /\ CurrentProject' = p THEN 1 ELSE 0)
<1>1. queue' = Tail(q) /\ current'.step = Head(q)
  BY DEF BeginStep, RefuseStep
<1>2. CurrentProject' = ProjectOf[Head(q)]
  BY <1>1 DEF CurrentProject
<1>3. ASSUME NEW p \in Projects
      PROVE  Count(q, p) = Count(Tail(q), p) + (IF ProjectOf[Head(q)] = p THEN 1 ELSE 0)
  BY CountHeadTail
<1> QED
  BY <1>1, <1>2, <1>3

(* Of the steps a request appends, one at least belongs to some project. *)
LEMMA SomeProject ==
    ASSUME NEW s \in Seq(Steps), s # <<>>
    PROVE  \E p \in Projects : Count(s, p) > 0
<1> DEFINE p == ProjectOf[Head(s)]
<1>1. Head(s) \in Steps /\ Tail(s) \in Seq(Steps)
  BY HeadTailProperties
<1>2. p \in Projects
  BY <1>1, ConstantsAssumption
<1> HIDE DEF p
<1>3. Count(s, p) = Count(Tail(s), p) + 1
  BY <1>2, CountHeadTail DEF p
<1>4. Count(Tail(s), p) \in Nat
  BY <1>1, <1>2, CountType
<1> QED
  BY <1>2, <1>3, <1>4

LEMMA RequestWhileRunningAccounts ==
    ASSUME IInv, AccountsInv, NEW r \in Seq(Entry), RequestWhileRunning(r)
    PROVE  AccountsInv'
<1>1. /\ StepsIn(r) \in Seq(Steps) /\ Len(StepsIn(r)) = Len(r) /\ Len(r) \in Nat
  BY RequestLists
<1>2. /\ running /\ running' = running /\ current' = current /\ gui = "loop"
      /\ queue' = queue \o StepsIn(r)
      /\ maxProgress' = maxProgress + Len(r) /\ progress' = progress
      /\ active' = [p \in Projects |-> active[p] + Count(StepsIn(r), p)]
      /\ SignalAppended(r)
  BY DEF RequestWhileRunning, Appended
<1>3. queue \in Seq(Steps) /\ maxProgress \in Nat /\ progress \in Nat
  BY DEF IInv, TypeOK
<1>4. /\ \A p \in Projects : Count(queue', p) = Count(queue, p) + Count(StepsIn(r), p)
      /\ \A p \in Projects : Count(queue, p) \in Nat /\ Count(StepsIn(r), p) \in Nat
      /\ Len(queue') = Len(queue) + Len(r) /\ Len(queue) \in Nat
  <2>1. \A p \in Projects :
            /\ Count(queue \o StepsIn(r), p) = Count(queue, p) + Count(StepsIn(r), p)
            /\ Count(queue, p) \in Nat /\ Count(StepsIn(r), p) \in Nat
    BY <1>1, <1>3, CountConcat, CountType
  <2>2. /\ Len(queue \o StepsIn(r)) = Len(queue) + Len(StepsIn(r))
        /\ Len(queue) \in Nat
    <3> HIDE <1>2
    <3> DEFINE s == StepsIn(r)
    <3>1. s \in Seq(Steps)
      BY <1>1
    <3> HIDE DEF s
    <3>2. Len(queue \o s) = Len(queue) + Len(s)
      BY <1>3, <3>1, ConcatProperties
    <3> QED
      BY <1>3, <3>2 DEF s
  <2> QED
    BY <1>1, <1>2, <2>1, <2>2
<1>5. ActiveCount'
  BY <1>2, <1>4 DEF AccountsInv, ActiveCount, CurrentProject
<1>6. ProgressCount' /\ (~running' => maxProgress' = 0)
  BY <1>2, <1>3, <1>4 DEF AccountsInv, ProgressCount
<1>7. SignalledState'
  <2>1. seen = [building |-> IsBuilding, projects |-> {p \in Projects : active[p] > 0}]
    BY <1>2 DEF AccountsInv, SignalledState
  <2>2. IsBuilding = TRUE /\ IsBuilding' = TRUE
    BY <1>2 DEF IsBuilding
  <2>3. CASE \E p \in Projects : active[p] = 0 /\ active'[p] > 0
    BY <1>2, <2>2, <2>3 DEF SignalAppended, Signal, SignalledState
  <2>4. CASE ~ \E p \in Projects : active[p] = 0 /\ active'[p] > 0
    <3>1. \A p \in Projects : active[p] \in Nat
      BY ActiveNumbers DEF AccountsInv
    <3>2. \A p \in Projects : active'[p] > 0 <=> active[p] > 0
      BY <1>2, <1>4, <2>4, <3>1
    <3>3. {p \in Projects : active'[p] > 0} = {p \in Projects : active[p] > 0}
      BY <3>2
    <3>4. seen' = seen
      BY <1>2, <2>4 DEF SignalAppended
    <3> QED
      BY <2>1, <2>2, <3>3, <3>4 DEF SignalledState
  <2> QED
    BY <2>3, <2>4
<1> QED
  BY <1>5, <1>6, <1>7 DEF AccountsInv

LEMMA RequestWhenIdleAccounts ==
    ASSUME IInv, AccountsInv, NEW r \in Seq(Entry), RequestWhenIdle(r)
    PROVE  AccountsInv'
<1> DEFINE q == queue \o StepsIn(r)
           cs == configurations \o ConfigsIn(r)
           evs == WatchProgress(events)
<1>1. /\ StepsIn(r) \in Seq(Steps) /\ Len(StepsIn(r)) = Len(r) /\ Len(r) \in Nat
  BY RequestLists
<1>2. /\ ~running /\ running' = TRUE /\ q # <<>> /\ gui = "loop"
      /\ maxProgress' = maxProgress + Len(r) /\ progress' = 0
      /\ active' = [p \in Projects |-> active[p] + Count(StepsIn(r), p)]
      /\ SignalAppended(r)
      /\ BeginStep(q, cs, evs) \/ RefuseStep(q, cs, evs)
  BY DEF RequestWhenIdle, Appended
<1>3. q = StepsIn(r)
  BY <1>1, <1>2, ConcatEmptySeq DEF IInv, QueueInStep
<1> HIDE DEF q, cs, evs
<1>4. /\ queue' = Tail(q)
      /\ \A p \in Projects : Count(q, p) = Count(queue', p)
                + (IF running' /\ CurrentProject' = p THEN 1 ELSE 0)
  BY <1>1, <1>2, <1>3, TakenUpProject
<1>5. \A p \in Projects : active[p] = 0 /\ Count(q, p) \in Nat
  BY <1>1, <1>2, <1>3, ActiveNumbers, CountType DEF AccountsInv
<1>6. \A p \in Projects : active'[p] = Count(q, p)
  BY <1>2, <1>3, <1>5
<1>7. ActiveCount'
  BY <1>4, <1>6 DEF ActiveCount
<1>8. ProgressCount'
  <2>1. maxProgress = 0
    BY <1>2 DEF AccountsInv
  <2>2. Len(Tail(q)) = Len(r) - 1
    BY <1>1, <1>2, <1>3, HeadTailProperties
  <2> QED
    BY <1>1, <1>2, <1>4, <2>1, <2>2 DEF ProgressCount
<1>9. SignalledState'
  <2>1. \E p \in Projects : active[p] = 0 /\ active'[p] > 0
    BY <1>1, <1>2, <1>3, <1>5, <1>6, SomeProject
  <2>2. IsBuilding' = TRUE
    BY <1>2 DEF IsBuilding
  <2> QED
    BY <1>2, <2>1, <2>2 DEF SignalAppended, Signal, SignalledState
<1> QED
  BY <1>2, <1>7, <1>8, <1>9 DEF AccountsInv

LEMMA RequestNothingAccounts ==
    ASSUME IInv, AccountsInv, NEW r \in Seq(Entry), RequestNothing(r)
    PROVE  AccountsInv'
<1>1. /\ ~running /\ running' = FALSE /\ queue' = queue /\ queue = <<>>
      /\ queue \o StepsIn(r) = <<>> /\ maxProgress' = 0
      /\ active' = [p \in Projects |-> active[p] + Count(StepsIn(r), p)]
      /\ Signal(FALSE, active)
  BY DEF RequestNothing, Appended, EndOfQueue, IInv, QueueInStep
<1>2. StepsIn(r) = <<>>
  BY <1>1, RequestLists, ConcatEmptySeq
<1>3. \A p \in Projects : active[p] = 0
  BY <1>1, ActiveNumbers DEF AccountsInv
<1>4. \A p \in Projects : active'[p] = 0
  BY <1>1, <1>2, <1>3, CountEmpty
<1>5. ActiveCount' /\ ProgressCount'
  BY <1>1, <1>4, CountEmpty DEF ActiveCount, ProgressCount
<1>6. SignalledState'
  <2>1. {p \in Projects : active'[p] > 0} = {p \in Projects : active[p] > 0}
    BY <1>3, <1>4
  <2>2. IsBuilding' = FALSE
    BY <1>1 DEF IsBuilding
  <2> QED
    BY <1>1, <2>1, <2>2 DEF Signal, SignalledState
<1> QED
  BY <1>1, <1>5, <1>6 DEF AccountsInv

(* A step that is done leaves the counter of its project. *)
LEMMA DecrementedCounts ==
    ASSUME IInv, AccountsInv, running
    PROVE  /\ \A p \in Projects : Decremented[p] = Count(queue, p)
           /\ \A p \in Projects : Count(queue, p) \in Nat
           /\ CurrentProject \in Projects
<1>1. \A p \in Projects : /\ active[p] \in Int /\ Count(queue, p) \in Nat
        /\ active[p] = Count(queue, p) + (IF CurrentProject = p THEN 1 ELSE 0)
  BY CountType DEF IInv, TypeOK, AccountsInv, ActiveCount
<1>2. active \in [Projects -> Int]
  BY DEF IInv, TypeOK
<1>3. \A p \in Projects : Decremented[p] = active[p] - (IF CurrentProject = p THEN 1 ELSE 0)
  BY <1>1, <1>2 DEF Decremented
<1> QED
  BY <1>1, <1>3, ActiveNumbers DEF AccountsInv

(* A build that is cancelled or has failed. *)
LEMMA ClearAccounts ==
    ASSUME IInv, AccountsInv, running, ClearBuildQueue(Decremented)
    PROVE  AccountsInv'
<1>1. /\ running' = FALSE /\ queue' = <<>> /\ maxProgress' = 0
      /\ active' = [p \in Projects |-> Decremented[p] - Count(queue, p)]
      /\ Signal(FALSE, active')
  BY DEF ClearBuildQueue
<1>3. \A p \in Projects : active'[p] = 0
  BY <1>1, DecrementedCounts
<1>4. ActiveCount' /\ ProgressCount'
  BY <1>1, <1>3, CountEmpty DEF ActiveCount, ProgressCount
<1>5. SignalledState'
  <2>1. IsBuilding' = FALSE
    BY <1>1 DEF IsBuilding
  <2> QED
    BY <1>1, <2>1 DEF Signal, SignalledState
<1> QED
  BY <1>1, <1>4, <1>5 DEF AccountsInv

LEMMA NextBuildQueueNextAccounts ==
    ASSUME IInv, AccountsInv, NextBuildQueueNext
    PROVE  AccountsInv'
<1>1. /\ running /\ running' = TRUE /\ gui = "loop" /\ queue # <<>>
      /\ active' = Decremented /\ SignalDecremented
      /\ progress' = progress + 1 /\ maxProgress' = maxProgress
      /\ \E evs : BeginStep(queue, configurations, evs) \/ RefuseStep(queue, configurations, evs)
  BY DEF NextBuildQueueNext, StepDone, Deliver, IInv, ProgressAlive, TypeOK
<1>2. queue \in Seq(Steps) /\ progress \in Nat /\ maxProgress \in Nat
  BY DEF IInv, TypeOK
<1>3. /\ queue' = Tail(queue)
      /\ \A p \in Projects : Count(queue, p) = Count(queue', p)
                + (IF running' /\ CurrentProject' = p THEN 1 ELSE 0)
  BY <1>1, <1>2, TakenUpProject
<1>4. ActiveCount'
  BY <1>1, <1>3, DecrementedCounts DEF ActiveCount
<1>5. ProgressCount'
  <2>1. Len(queue') = Len(queue) - 1 /\ Len(queue) \in Nat
    BY <1>1, <1>2, <1>3, HeadTailProperties
  <2> QED
    BY <1>1, <1>2, <2>1 DEF AccountsInv, ProgressCount
<1>6. SignalledState'
  <2>1. IsBuilding = TRUE /\ IsBuilding' = TRUE
    BY <1>1 DEF IsBuilding
  <2>2. CASE active[CurrentProject] = 1
    BY <1>1, <2>1, <2>2 DEF SignalDecremented, Signal, SignalledState
  <2>3. CASE active[CurrentProject] # 1
    <3>1. /\ \A p \in Projects : active[p] \in Nat
          /\ CurrentProject \in Projects /\ active[CurrentProject] >= 1
      BY <1>1, ActiveNumbers DEF AccountsInv
    <3>2. \A p \in Projects : active'[p] =
              IF p = CurrentProject THEN active[p] - 1 ELSE active[p]
      BY <1>1, <3>1 DEF Decremented, IInv, TypeOK
    <3>3. {p \in Projects : active'[p] > 0} = {p \in Projects : active[p] > 0}
      BY <2>3, <3>1, <3>2
    <3>4. seen' = seen
      BY <1>1, <2>3 DEF SignalDecremented
    <3>5. seen = [building |-> TRUE, projects |-> {p \in Projects : active[p] > 0}]
      BY <1>1, <2>1 DEF AccountsInv, SignalledState
    <3> QED
      BY <2>1, <3>3, <3>4, <3>5 DEF SignalledState
  <2> QED
    BY <2>2, <2>3
<1> QED
  BY <1>1, <1>4, <1>5, <1>6 DEF AccountsInv

LEMMA NextBuildQueueSucceedsAccounts ==
    ASSUME IInv, AccountsInv, NextBuildQueueSucceeds
    PROVE  AccountsInv'
<1>1. /\ running /\ running' = FALSE /\ queue = <<>> /\ queue' = <<>>
      /\ active' = Decremented /\ maxProgress' = 0 /\ Signal(FALSE, Decremented)
  BY DEF NextBuildQueueSucceeds, EndOfQueue, StepDone, IInv, ProgressAlive, TypeOK
<1>2. \A p \in Projects : active'[p] = 0
  BY <1>1, DecrementedCounts, CountEmpty
<1>3. ActiveCount' /\ ProgressCount'
  BY <1>1, <1>2, CountEmpty DEF ActiveCount, ProgressCount
<1>4. SignalledState'
  <2>1. IsBuilding' = FALSE
    BY <1>1 DEF IsBuilding
  <2> QED
    BY <1>1, <2>1 DEF Signal, SignalledState
<1> QED
  BY <1>1, <1>3, <1>4 DEF AccountsInv

(* The counters, and who may look at them, as they were. *)
LEMMA SameAccounts ==
    ASSUME AccountsInv, UNCHANGED <<queue, running, current, active, progress, maxProgress, seen>>,
           gui' = "loop" => gui = "loop"
    PROVE  AccountsInv'
BY DEF AccountsInv, ActiveCount, ProgressCount, SignalledState, IsBuilding, CurrentProject

LEMMA NextAccounts ==
    IInv /\ WaitInv /\ AccountsInv /\ [AnyNext]_vars => AccountsInv'
<1> SUFFICES ASSUME IInv, WaitInv, AccountsInv, [AnyNext]_vars PROVE AccountsInv'
  OBVIOUS
<1>1. ASSUME NEW r \in Seq(Entry), Request(r) PROVE AccountsInv'
  BY <1>1, RequestWhileRunningAccounts, RequestWhenIdleAccounts, RequestNothingAccounts
     DEF Request
<1>2. CASE CancelBuild \/ CancelInProgressWidget
  BY <1>2, SameAccounts DEF CancelBuild, CancelInProgressWidget
<1>3. CASE CancelFinished
  BY <1>3, ClearAccounts DEF CancelFinished, WaitInv
<1>4. CASE Worker
  BY <1>4, SameAccounts DEF Worker, WorkerOutput, WorkerReturns, mvars
<1>5. CASE DeliverText \/ NextBuildQueueIgnored \/ NextBuildQueueCrashes
  BY <1>5, SameAccounts DEF DeliverText, NextBuildQueueIgnored, NextBuildQueueCrashes, Deliver, mvars
<1>6. CASE DeliverProgressCanceled
  BY <1>6, SameAccounts DEF DeliverProgressCanceled, Deliver
<1>7. CASE NextBuildQueueNext \/ NextBuildQueueSucceeds
  BY <1>7, NextBuildQueueNextAccounts, NextBuildQueueSucceedsAccounts
<1>8. CASE NextBuildQueueFails
  BY <1>8, ClearAccounts DEF NextBuildQueueFails, StepDone, IInv, ProgressAlive
<1>9. CASE UNCHANGED vars
  BY <1>9, SameAccounts DEF vars
<1> QED
  BY <1>1, <1>2, <1>3, <1>4, <1>5, <1>6, <1>7, <1>8, <1>9
     DEF AnyNext, AnyRequest, EventLoop, NextBuildQueue

LEMMA InitAccounts == Init => AccountsInv
<1> SUFFICES ASSUME Init PROVE AccountsInv
  OBVIOUS
<1>1. /\ queue = <<>> /\ running = FALSE /\ maxProgress = 0
      /\ \A p \in Projects : active[p] = 0
      /\ seen = [building |-> FALSE, projects |-> {}]
  BY DEF Init
<1>2. {p \in Projects : active[p] > 0} = {} /\ IsBuilding = FALSE
  BY <1>1 DEF IsBuilding
<1>3. ActiveCount
  BY <1>1, CountEmpty DEF ActiveCount
<1>4. SignalledState
  BY <1>1, <1>2 DEF SignalledState
<1> QED
  BY <1>1, <1>3, <1>4 DEF AccountsInv, ProgressCount

(* The counters by which the manager answers whether a project is being    *)
(* built, the maximum of the progress bar and what the signals told are    *)
(* right in every state, for any requests.                                 *)
THEOREM AccountsKept == Spec => []AccountsRight
<1>1. AccountsInv => AccountsRight
  BY DEF AccountsInv, AccountsRight
<1> QED
  BY <1>1, InitAccounts, NextAccounts, NextIsAny, SpecIInv, SpecWaitInv, PTL DEF Spec

-----------------------------------------------------------------------------
(* No output of a run() waits behind the finished() of one: of this run(), *)
(* because it posted that last, of a later one, because setFuture removes  *)
(* the finished() of the former when it starts.                            *)
OutputFirst(evs) ==
    \A i, j \in DOMAIN evs : evs[i] = "finished" /\ j > i => evs[j] # "output"

(* All output that waits is followed by a message of a cancellation. *)
Followed(evs) ==
    \A i \in DOMAIN evs : evs[i] = "output" =>
        \E j \in DOMAIN evs : j > i /\ evs[j] = "cancelMessage"

LEMMA AppendMessages ==
    ASSUME NEW evs \in Seq(Event), NEW e \in Event
    PROVE  /\ /\ OutputFirst(evs)
              /\ e = "output" => ~Posted(evs, "finished")
              => OutputFirst(Append(evs, e))
           /\ Followed(evs) /\ e # "output" => Followed(Append(evs, e))
           /\ e = "cancelMessage" => Followed(Append(evs, e))
<1> DEFINE a == Append(evs, e)
           n == Len(evs)
<1>1. /\ n \in Nat /\ DOMAIN evs = 1..n /\ DOMAIN a = 1..(n + 1)
      /\ \A i \in 1..n : a[i] = evs[i]
      /\ a[n + 1] = e
  OBVIOUS
<1> HIDE DEF a, n
<1>2. ASSUME OutputFirst(evs), e = "output" => ~Posted(evs, "finished")
      PROVE  OutputFirst(a)
  BY <1>1, <1>2 DEF OutputFirst, Posted
<1>3. ASSUME Followed(evs), e # "output"
      PROVE  Followed(a)
  <2> SUFFICES ASSUME NEW i \in DOMAIN a, a[i] = "output"
               PROVE  \E j \in DOMAIN a : j > i /\ a[j] = "cancelMessage"
    BY DEF Followed
  <2>1. i \in 1..n /\ evs[i] = "output"
    BY <1>1, <1>3
  <2>2. PICK j \in DOMAIN evs : j > i /\ evs[j] = "cancelMessage"
    BY <1>1, <1>3, <2>1 DEF Followed
  <2> QED
    BY <1>1, <2>2
<1>4. ASSUME e = "cancelMessage" PROVE Followed(a)
  BY <1>1, <1>4 DEF Followed
<1> QED
  BY <1>2, <1>3, <1>4 DEF a

LEMMA TailMessages ==
    ASSUME NEW evs \in Seq(Event), evs # <<>>
    PROVE  /\ OutputFirst(evs) => OutputFirst(Tail(evs))
           /\ Followed(evs) => Followed(Tail(evs))
           /\ OutputFirst(evs) /\ Head(evs) = "finished"
                  => ~Posted(Tail(evs), "output")
<1> DEFINE t == Tail(evs)
<1>1. /\ t \in Seq(Event)
      /\ Len(t) = Len(evs) - 1
      /\ \A i \in 1..Len(t) : t[i] = evs[i + 1]
  BY HeadTailProperties
<1>2. /\ DOMAIN t = 1..Len(t) /\ Len(t) \in Nat
      /\ DOMAIN evs = 1..Len(evs) /\ Len(evs) \in Nat /\ Len(evs) >= 1
  BY <1>1
<1>3. Head(evs) = evs[1]
  OBVIOUS
<1> HIDE DEF t
<1>4. \A i \in DOMAIN t : i \in Nat /\ i + 1 \in DOMAIN evs /\ t[i] = evs[i + 1]
  BY <1>1, <1>2
<1>5. ASSUME OutputFirst(evs) PROVE OutputFirst(t)
  <2> SUFFICES ASSUME NEW i \in DOMAIN t, NEW j \in DOMAIN t,
                      t[i] = "finished", j > i
               PROVE  t[j] # "output"
    BY DEF OutputFirst
  <2>1. evs[i + 1] = "finished" /\ j + 1 > i + 1
    BY <1>4
  <2>2. evs[j + 1] # "output"
    BY <1>4, <1>5, <2>1 DEF OutputFirst
  <2> QED
    BY <1>4, <2>2
<1>6. ASSUME Followed(evs) PROVE Followed(t)
  <2> SUFFICES ASSUME NEW i \in DOMAIN t, t[i] = "output"
               PROVE  \E j \in DOMAIN t : j > i /\ t[j] = "cancelMessage"
    BY DEF Followed
  <2>1. PICK j \in DOMAIN evs : j > i + 1 /\ evs[j] = "cancelMessage"
    BY <1>4, <1>6 DEF Followed
  <2>2. j - 1 \in DOMAIN t /\ j - 1 > i /\ t[j - 1] = evs[(j - 1) + 1] /\ (j - 1) + 1 = j
    BY <1>1, <1>2, <1>4, <2>1
  <2> QED
    BY <2>1, <2>2
<1>7. ASSUME OutputFirst(evs), Head(evs) = "finished"
      PROVE  ~Posted(t, "output")
  <2> SUFFICES ASSUME NEW i \in DOMAIN t PROVE t[i] # "output"
    BY DEF Posted
  <2>1. 1 \in DOMAIN evs /\ i + 1 \in DOMAIN evs /\ i \in 1..Len(t)
    BY <1>2, <1>4
  <2>2. evs[i + 1] # "output"
    BY <1>2, <1>3, <1>7, <2>1 DEF OutputFirst
  <2> QED
    BY <1>4, <2>2
<1> QED
  BY <1>5, <1>6, <1>7 DEF t

LEMMA WithoutMessages ==
    ASSUME NEW evs \in Seq(Event), NEW kind \in {"finished", "progressCanceled"}
    PROVE  /\ OutputFirst(evs) => OutputFirst(Without(evs, kind))
           /\ Followed(evs) => Followed(Without(evs, kind))
<1> DEFINE w == Without(evs, kind)
<1>1. /\ DOMAIN w = DOMAIN evs
      /\ \A i \in DOMAIN evs : w[i] = IF evs[i] = kind THEN "removed" ELSE evs[i]
  BY DEF Without
<1> HIDE DEF w
<1>2. OutputFirst(evs) => OutputFirst(w)
  BY <1>1 DEF OutputFirst
<1>3. Followed(evs) => Followed(w)
  BY <1>1 DEF Followed
<1> QED
  BY <1>2, <1>3 DEF w

LEMMA ReportCanceledMessages ==
    ASSUME NEW evs \in Seq(Event)
    PROVE  /\ OutputFirst(evs) => OutputFirst(ReportCanceled(evs))
           /\ Followed(evs) => Followed(ReportCanceled(evs))
BY AppendMessages DEF ReportCanceled, Event

LEMMA NoOutputFollowed ==
    ASSUME NEW evs, ~Posted(evs, "output")
    PROVE  Followed(evs)
BY DEF Posted, Followed

MessageInv == OutputFirst(events) /\ CancelMessageLast

(* Whatever is delivered leaves the order of the others. *)
LEMMA DeliveredMessages ==
    ASSUME IInv, MessageInv, NEW kind, Deliver(kind)
    PROVE  /\ Tail(events) \in Seq(Event)
           /\ OutputFirst(Tail(events))
           /\ ~running => Followed(Tail(events))
           /\ kind = "finished" => Followed(Tail(events))
<1>1. events \in Seq(Event) /\ events # <<>> /\ Head(events) = kind
  BY DEF IInv, TypeOK, Deliver
<1>2. OutputFirst(events) /\ (~running => Followed(events))
  BY DEF MessageInv, CancelMessageLast, Followed
<1> QED
  BY <1>1, <1>2, TailEvents, TailMessages, NoOutputFollowed

LEMMA MessageInvIs ==
    ASSUME OutputFirst(events'), running' \/ Followed(events')
    PROVE  MessageInv'
BY DEF MessageInv, CancelMessageLast, Followed, OutputFirst

LEMMA RequestMessages ==
    ASSUME IInv, MessageInv, NEW r \in Seq(Entry), Request(r)
    PROVE  MessageInv'
<1>0. events \in Seq(Event) /\ OutputFirst(events) /\ (~running => Followed(events))
  BY DEF IInv, TypeOK, MessageInv, CancelMessageLast, Followed
<1>1. CASE RequestWhileRunning(r)
  BY <1>0, <1>1, MessageInvIs DEF RequestWhileRunning
<1>2. CASE RequestWhenIdle(r)
  <2>1. PICK q, cs, evs : /\ evs = Without(events, "progressCanceled")
                          /\ BeginStep(q, cs, evs) \/ RefuseStep(q, cs, evs)
    BY <1>2 DEF RequestWhenIdle, WatchProgress
  <2>2. running' /\ events' \in {evs, Without(evs, "finished")}
    BY <1>2, <2>1 DEF RequestWhenIdle, BeginStep, RefuseStep
  <2>3. evs \in Seq(Event) /\ OutputFirst(evs)
    BY <1>0, <2>1, WithoutEvents, WithoutMessages DEF Event
  <2> QED
    BY <2>2, <2>3, WithoutMessages, MessageInvIs
<1>3. CASE RequestNothing(r)
  <2>1. events' = Without(events, "progressCanceled") /\ ~running
    BY <1>3 DEF RequestNothing, WatchProgress
  <2> QED
    BY <1>0, <2>1, WithoutMessages, MessageInvIs
<1> QED
  BY <1>1, <1>2, <1>3 DEF Request

LEMMA EventLoopMessages ==
    ASSUME IInv, MessageInv, EventLoop
    PROVE  MessageInv'
<1>1. CASE DeliverText \/ NextBuildQueueIgnored \/ NextBuildQueueCrashes
  <2>1. PICK kind : Deliver(kind)
    BY <1>1 DEF DeliverText, NextBuildQueueIgnored, NextBuildQueueCrashes
  <2>2. events' = Tail(events) /\ running' = running
    BY <1>1 DEF DeliverText, NextBuildQueueIgnored, NextBuildQueueCrashes, mvars
  <2> QED
    BY <2>1, <2>2, DeliveredMessages, MessageInvIs
<1>2. CASE DeliverProgressCanceled
  BY <1>2, DeliveredMessages, MessageInvIs DEF DeliverProgressCanceled
<1>3. CASE NextBuildQueueNext
  <2>1. /\ Tail(events) \in Seq(Event) /\ OutputFirst(Tail(events)) /\ running'
        /\ events' \in {Tail(events), Without(Tail(events), "finished")}
    BY <1>3, DeliveredMessages
       DEF NextBuildQueueNext, StepDone, BeginStep, RefuseStep, IInv, ProgressAlive
  <2> QED
    BY <2>1, WithoutMessages, MessageInvIs
<1>4. CASE NextBuildQueueSucceeds
  BY <1>4, DeliveredMessages, MessageInvIs DEF NextBuildQueueSucceeds, StepDone
<1>5. CASE NextBuildQueueFails
  BY <1>5, DeliveredMessages, ReportCanceledMessages, MessageInvIs
     DEF NextBuildQueueFails, StepDone
<1> QED
  BY <1>1, <1>2, <1>3, <1>4, <1>5 DEF EventLoop, NextBuildQueue

LEMMA NextMessages == IInv /\ MessageInv /\ [AnyNext]_vars => MessageInv'
<1> SUFFICES ASSUME IInv, MessageInv, [AnyNext]_vars PROVE MessageInv'
  OBVIOUS
<1>0. /\ events \in Seq(Event) /\ OutputFirst(events) /\ (~running => Followed(events))
      /\ {"output", "finished", "progressCanceled", "cancelMessage"} \subseteq Event
  BY DEF IInv, TypeOK, MessageInv, CancelMessageLast, Followed, Event
<1>1. ASSUME NEW r \in Seq(Entry), Request(r) PROVE MessageInv'
  BY <1>1, RequestMessages
<1>2. CASE CancelBuild
  BY <1>0, <1>2, MessageInvIs DEF CancelBuild
<1>3. CASE CancelInProgressWidget
  BY <1>0, <1>3, AppendMessages, MessageInvIs DEF CancelInProgressWidget
<1>4. CASE CancelFinished
  <2>1. events' = ReportCanceled(Append(events, "cancelMessage"))
    BY <1>4 DEF CancelFinished, SingleShotCancelMessage
  <2>2. /\ Append(events, "cancelMessage") \in Seq(Event)
        /\ OutputFirst(Append(events, "cancelMessage"))
        /\ Followed(Append(events, "cancelMessage"))
    BY <1>0, AppendEvent, AppendMessages
  <2> QED
    BY <2>1, <2>2, ReportCanceledMessages, MessageInvIs
<1>5. CASE WorkerOutput
  <2>1. events' = Append(events, "output") /\ ~Posted(events, "finished") /\ running'
    BY <1>5 DEF WorkerOutput, mvars, IInv, FinishedWaits, OneWorker
  <2> QED
    BY <1>0, <2>1, AppendMessages, MessageInvIs
<1>6. ASSUME NEW ok \in BOOLEAN, WorkerReturns(ok) PROVE MessageInv'
  BY <1>0, <1>6, AppendMessages, MessageInvIs DEF WorkerReturns, mvars
<1>7. CASE EventLoop
  BY <1>7, EventLoopMessages
<1>8. CASE UNCHANGED vars
  BY <1>0, <1>8, MessageInvIs DEF vars
<1> QED
  BY <1>1, <1>2, <1>3, <1>4, <1>5, <1>6, <1>7, <1>8 DEF AnyNext, AnyRequest, Worker

(* The message that a build was cancelled comes after everything its       *)
(* worker has written, however late the event loop gets to deliver it.     *)
THEOREM MessageAfterOutput == Spec => []CancelMessageLast
<1>1. Init => MessageInv
  BY DEF Init, MessageInv, OutputFirst, CancelMessageLast
<1>2. MessageInv => CancelMessageLast
  BY DEF MessageInv
<1> QED
  BY <1>1, <1>2, NextMessages, NextIsAny, SpecIInv, PTL DEF Spec

-----------------------------------------------------------------------------
(* The build manager implements BuildService: each step of its threads,    *)
(* watchers and posted events is one step of the service, or none that its *)
(* users see.                                                              *)

(* The two parallel lists as one list of entries. *)

Paired(q, cs) == [i \in DOMAIN q |-> [step |-> q[i], config |-> cs[i]]]

LEMMA PairedType ==
    ASSUME NEW q \in Seq(Steps), NEW cs \in Seq(Configs), Len(q) = Len(cs)
    PROVE  /\ Paired(q, cs) \in Seq(Entry)
           /\ Len(Paired(q, cs)) = Len(q)
           /\ \A i \in 1..Len(q) : Paired(q, cs)[i] = [step |-> q[i], config |-> cs[i]]
           /\ Paired(q, cs) = <<>> <=> q = <<>>
<1>1. DOMAIN q = 1..Len(q) /\ Len(q) \in Nat
  OBVIOUS
<1>2. \A i \in 1..Len(q) : q[i] \in Steps /\ cs[i] \in Configs
  BY ElementOfSeq
<1>3. Paired(q, cs) \in [1..Len(q) -> Entry]
  BY <1>1, <1>2 DEF Paired, Entry
<1>4. Paired(q, cs) \in Seq(Entry) /\ Len(Paired(q, cs)) = Len(q)
  BY <1>1, <1>3, SeqDef
<1>5. \A i \in 1..Len(q) : Paired(q, cs)[i] = [step |-> q[i], config |-> cs[i]]
  BY <1>1 DEF Paired
<1> QED
  BY <1>1, <1>4, <1>5, EmptySeq

(* Appending a request to both lists appends its entries. *)
LEMMA PairedConcat ==
    ASSUME NEW q \in Seq(Steps), NEW cs \in Seq(Configs), Len(q) = Len(cs),
           NEW r \in Seq(Entry)
    PROVE  Paired(q \o StepsIn(r), cs \o ConfigsIn(r)) = Paired(q, cs) \o r
<1> DEFINE ss == StepsIn(r)
           ts == ConfigsIn(r)
           left == Paired(q \o ss, cs \o ts)
           right == Paired(q, cs) \o r
<1>1. /\ r \in Seq(Entry) /\ ss \in Seq(Steps) /\ ts \in Seq(Configs)
      /\ Len(ss) = Len(r) /\ Len(ts) = Len(r)
  BY RequestLists
<1>2. \A i \in 1..Len(r) : r[i] = [step |-> ss[i], config |-> ts[i]]
  <2>1. \A i \in 1..Len(r) : r[i] \in Entry /\ ss[i] = r[i].step /\ ts[i] = r[i].config
    BY <1>1, ElementOfSeq DEF StepsIn, ConfigsIn
  <2> QED
    BY <2>1 DEF Entry
<1> HIDE DEF ss, ts
<1>3. /\ q \o ss \in Seq(Steps) /\ cs \o ts \in Seq(Configs)
      /\ Len(q \o ss) = Len(q) + Len(r) /\ Len(cs \o ts) = Len(q) + Len(r)
  <2>1. q \o ss \in Seq(Steps) /\ Len(q \o ss) = Len(q) + Len(ss)
    BY <1>1, ConcatProperties
  <2>2. cs \o ts \in Seq(Configs) /\ Len(cs \o ts) = Len(cs) + Len(ts)
    BY <1>1, ConcatProperties
  <2> QED
    BY <1>1, <2>1, <2>2
<1>4. /\ Paired(q, cs) \in Seq(Entry) /\ Len(Paired(q, cs)) = Len(q)
      /\ \A i \in 1..Len(q) : Paired(q, cs)[i] = [step |-> q[i], config |-> cs[i]]
  BY PairedType
<1>5. /\ left \in Seq(Entry) /\ Len(left) = Len(q \o ss)
      /\ \A i \in 1..Len(q \o ss) :
             left[i] = [step |-> (q \o ss)[i], config |-> (cs \o ts)[i]]
  <2> DEFINE qs == q \o ss
             cts == cs \o ts
  <2>1. qs \in Seq(Steps) /\ cts \in Seq(Configs) /\ Len(qs) = Len(cts)
    BY <1>3
  <2> HIDE DEF qs, cts
  <2>2. /\ Paired(qs, cts) \in Seq(Entry) /\ Len(Paired(qs, cts)) = Len(qs)
        /\ \A i \in 1..Len(qs) : Paired(qs, cts)[i] = [step |-> qs[i], config |-> cts[i]]
    BY <2>1, PairedType
  <2> QED
    BY <2>2 DEF qs, cts
<1> HIDE DEF left
<1>6. /\ right \in Seq(Entry) /\ Len(right) = Len(q) + Len(r)
      /\ \A i \in 1..(Len(q) + Len(r)) : right[i] =
             IF i <= Len(q) THEN Paired(q, cs)[i] ELSE r[i - Len(q)]
  BY <1>1, <1>4, ConcatProperties
<1>7. \A i \in 1..(Len(q) + Len(r)) :
          /\ (q \o ss)[i] = IF i <= Len(q) THEN q[i] ELSE ss[i - Len(q)]
          /\ (cs \o ts)[i] = IF i <= Len(q) THEN cs[i] ELSE ts[i - Len(q)]
  <2>1. \A i \in 1..(Len(q) + Len(ss)) :
            (q \o ss)[i] = IF i <= Len(q) THEN q[i] ELSE ss[i - Len(q)]
    BY <1>1, ConcatProperties
  <2>2. \A i \in 1..(Len(cs) + Len(ts)) :
            (cs \o ts)[i] = IF i <= Len(cs) THEN cs[i] ELSE ts[i - Len(cs)]
    BY <1>1, ConcatProperties
  <2> QED
    BY <1>1, <2>1, <2>2
<1>8. /\ left \in Seq(Entry) /\ right \in Seq(Entry)
      /\ Len(left) = Len(q) + Len(r) /\ Len(right) = Len(q) + Len(r)
  BY <1>3, <1>5, <1>6
<1> HIDE DEF right
<1>9. ASSUME NEW i \in 1..(Len(q) + Len(r))
      PROVE  left[i] = right[i]
  <2>1. left[i] = [step |-> (q \o ss)[i], config |-> (cs \o ts)[i]]
    BY <1>3, <1>5
  <2>2. CASE i <= Len(q)
    <3>1. i \in 1..Len(q)
      BY <2>2
    <3>2. (q \o ss)[i] = q[i] /\ (cs \o ts)[i] = cs[i] /\ right[i] = Paired(q, cs)[i]
      BY <1>6, <1>7, <2>2
    <3> QED
      BY <1>4, <2>1, <3>1, <3>2
  <2>3. CASE i > Len(q)
    <3>1. i - Len(q) \in 1..Len(r)
      BY <1>1, <2>3
    <3>2. /\ (q \o ss)[i] = ss[i - Len(q)] /\ (cs \o ts)[i] = ts[i - Len(q)]
          /\ right[i] = r[i - Len(q)]
      BY <1>1, <1>6, <1>7, <2>3
    <3> QED
      BY <1>2, <2>1, <3>1, <3>2
  <2> QED
    BY <2>2, <2>3
<1>10. left = right
  BY <1>8, <1>9, SeqEqual
<1> QED
  BY <1>10 DEF left, right, ss, ts

(* Taking the first of both lists takes the first entry. *)
LEMMA PairedHeadTail ==
    ASSUME NEW q \in Seq(Steps), NEW cs \in Seq(Configs), Len(q) = Len(cs), q # <<>>
    PROVE  /\ Head(Paired(q, cs)) = [step |-> Head(q), config |-> Head(cs)]
           /\ Paired(Tail(q), Tail(cs)) = Tail(Paired(q, cs))
<1> DEFINE z == Paired(q, cs)
           t == Paired(Tail(q), Tail(cs))
<1>1. /\ z \in Seq(Entry) /\ Len(z) = Len(q) /\ z # <<>> /\ cs # <<>>
      /\ Len(q) \in Nat /\ Len(q) >= 1
      /\ \A i \in 1..Len(q) : z[i] = [step |-> q[i], config |-> cs[i]]
  BY PairedType, EmptySeq
<1>2. /\ Tail(q) \in Seq(Steps) /\ Len(Tail(q)) = Len(q) - 1
      /\ \A i \in 1..(Len(q) - 1) : Tail(q)[i] = q[i + 1]
      /\ Tail(cs) \in Seq(Configs) /\ Len(Tail(cs)) = Len(q) - 1
      /\ \A i \in 1..(Len(q) - 1) : Tail(cs)[i] = cs[i + 1]
  BY <1>1, HeadTailProperties
<1>3. /\ t \in Seq(Entry) /\ Len(t) = Len(q) - 1
      /\ \A i \in 1..(Len(q) - 1) : t[i] = [step |-> q[i + 1], config |-> cs[i + 1]]
  <2> DEFINE u == Tail(q)
             us == Tail(cs)
  <2>1. u \in Seq(Steps) /\ us \in Seq(Configs) /\ Len(u) = Len(us)
    BY <1>2
  <2> HIDE DEF u, us
  <2>2. /\ Paired(u, us) \in Seq(Entry) /\ Len(Paired(u, us)) = Len(u)
        /\ \A i \in 1..Len(u) : Paired(u, us)[i] = [step |-> u[i], config |-> us[i]]
    BY <2>1, PairedType
  <2> QED
    BY <1>2, <2>2 DEF u, us
<1> HIDE DEF z, t
<1>4. /\ Tail(z) \in Seq(Entry) /\ Len(Tail(z)) = Len(q) - 1
      /\ \A i \in 1..(Len(q) - 1) : Tail(z)[i] = z[i + 1]
  BY <1>1, HeadTailProperties
<1>5. \A i \in 1..(Len(q) - 1) : Tail(z)[i] = t[i]
  <2> SUFFICES ASSUME NEW i \in 1..(Len(q) - 1) PROVE Tail(z)[i] = t[i]
    OBVIOUS
  <2>1. i + 1 \in 1..Len(q)
    BY <1>1
  <2>2. z[i + 1] = [step |-> q[i + 1], config |-> cs[i + 1]]
    BY <1>1, <2>1
  <2> QED
    BY <1>3, <1>4, <2>2
<1>6. t = Tail(z)
  BY <1>3, <1>4, <1>5, SeqEqual
<1>7. Head(z) = z[1] /\ Head(q) = q[1] /\ Head(cs) = cs[1]
  BY <1>1
<1>8. 1 \in 1..Len(q)
  BY <1>1
<1>9. Head(z) = [step |-> Head(q), config |-> Head(cs)]
  BY <1>1, <1>7, <1>8
<1> QED
  BY <1>6, <1>9 DEF z, t

-----------------------------------------------------------------------------
(* Each action is a step of the service, or one that it does not see. *)

Hidden == UNCHANGED <<PendingEntries, CurrentEntry, CurrentOutcome, report>>

LEMMA PendingIsPaired ==
    ASSUME IInv
    PROVE  /\ PendingEntries = Paired(queue, configurations)
           /\ queue \in Seq(Steps) /\ configurations \in Seq(Configs)
           /\ Len(queue) = Len(configurations)
           /\ PendingEntries = <<>> <=> queue = <<>>
           /\ running => current \in Entry /\ current # NoEntry
           /\ ~running => queue = <<>>
<1>1. PendingEntries = Paired(queue, configurations)
  BY DEF PendingEntries, Paired
<1>2. /\ queue \in Seq(Steps) /\ configurations \in Seq(Configs)
      /\ Len(queue) = Len(configurations)
      /\ running => current \in Entry /\ current # NoEntry
      /\ ~running => queue = <<>>
  BY DEF IInv, TypeOK, QueueInStep
<1> QED
  BY <1>1, <1>2, PairedType

LEMMA PendingIsPairedNext == PendingEntries' = Paired(queue', configurations')
BY DEF PendingEntries, Paired

(* init() and run() of the first step of a queue *)
LEMMA TakeUpRefines ==
    ASSUME NEW q \in Seq(Steps), NEW cs \in Seq(Configs), Len(q) = Len(cs), q # <<>>,
           NEW evs, BeginStep(q, cs, evs) \/ RefuseStep(q, cs, evs),
           running' = TRUE, gui = "loop"
    PROVE  Service!TakeUp(Paired(q, cs))
<1>1. /\ current' = [step |-> Head(q), config |-> Head(cs)]
      /\ queue' = Tail(q) /\ configurations' = Tail(cs)
  BY DEF BeginStep, RefuseStep
<1>2. PendingEntries' = Tail(Paired(q, cs)) /\ CurrentEntry' = Head(Paired(q, cs))
  BY <1>1, PairedHeadTail, PendingIsPairedNext DEF CurrentEntry
<1>3. CurrentOutcome' \in {"executing", "failed"}
  <2>1. CASE BeginStep(q, cs, evs)
    BY <2>1 DEF BeginStep, CurrentOutcome
  <2>2. CASE RefuseStep(q, cs, evs)
    BY <2>2 DEF RefuseStep, CurrentOutcome
  <2> QED
    BY <2>1, <2>2
<1> QED
  BY <1>2, <1>3 DEF Service!TakeUp

LEMMA RequestWhileRunningRefines ==
    ASSUME IInv, NEW r \in Seq(Entry), RequestWhileRunning(r)
    PROVE  Service!Join(r)
<1>1. running /\ CurrentEntry # NoEntry
  BY PendingIsPaired DEF RequestWhileRunning, CurrentEntry
<1>2. PendingEntries' = PendingEntries \o r
  BY PendingIsPaired, PendingIsPairedNext, PairedConcat DEF RequestWhileRunning
<1>3. UNCHANGED <<CurrentEntry, CurrentOutcome, report>>
  BY DEF RequestWhileRunning, CurrentEntry, CurrentOutcome
<1> QED
  BY <1>1, <1>2, <1>3 DEF Service!Join

LEMMA RequestWhenIdleRefines ==
    ASSUME IInv, NEW r \in Seq(Entry), RequestWhenIdle(r)
    PROVE  Service!Start(r)
<1> DEFINE q == queue \o StepsIn(r)
           cs == configurations \o ConfigsIn(r)
<1>1. /\ ~running /\ gui = "loop" /\ running' = TRUE /\ q # <<>> /\ UNCHANGED report
      /\ \E evs : BeginStep(q, cs, evs) \/ RefuseStep(q, cs, evs)
  BY DEF RequestWhenIdle
<1>2. /\ queue = <<>> /\ configurations = <<>>
      /\ StepsIn(r) \in Seq(Steps) /\ ConfigsIn(r) \in Seq(Configs)
      /\ Len(StepsIn(r)) = Len(r) /\ Len(ConfigsIn(r)) = Len(r) /\ r \in Seq(Entry)
  BY <1>1, PendingIsPaired, RequestLists, EmptySeq
<1>3. q = StepsIn(r) /\ cs = ConfigsIn(r)
  BY <1>2, ConcatEmptySeq
<1>4. Paired(q, cs) = r
  <2>1. Paired(<<>>, <<>>) = <<>>
    BY <1>2, PendingIsPaired
  <2>2. Paired(q, cs) = Paired(queue, configurations) \o r
    BY <1>2, PendingIsPaired, PairedConcat
  <2> QED
    BY <1>2, <2>1, <2>2, ConcatEmptySeq
<1>5. r # <<>>
  BY <1>1, <1>2, <1>3, EmptySeq
<1> HIDE DEF q, cs
<1>6. Service!TakeUp(r)
  BY <1>1, <1>2, <1>3, <1>4, TakeUpRefines
<1>7. CurrentEntry = NoEntry
  BY <1>1 DEF CurrentEntry
<1> QED
  BY <1>1, <1>5, <1>6, <1>7 DEF Service!Start

(* Nothing is taken up, and the build is reported. *)
LEMMA RequestNothingRefines ==
    ASSUME IInv, NEW r \in Seq(Entry), RequestNothing(r)
    PROVE  Service!StartNothing
<1>1. ~running /\ running' = FALSE /\ report' = [turn |-> 1 - report.turn, ok |-> TRUE]
  BY DEF RequestNothing, EndOfQueue, BuildQueueFinished
<1>2. UNCHANGED <<PendingEntries, CurrentEntry, CurrentOutcome>> /\ CurrentEntry = NoEntry
  BY <1>1 DEF RequestNothing, PendingEntries, CurrentEntry, CurrentOutcome
<1> QED
  BY <1>1, <1>2 DEF Service!StartNothing, Service!Report

(* cancel() begins to wait, or the button is pressed: nothing is reported. *)
LEMMA CancelHidden ==
    ASSUME CancelBuild \/ CancelInProgressWidget \/ DeliverProgressCanceled
    PROVE  Hidden
<1>1. UNCHANGED <<queue, configurations, running, current, watched, report>>
  BY DEF CancelBuild, CancelInProgressWidget, DeliverProgressCanceled
<1>2. (gui = "cancelInit") = (gui' = "cancelInit")
  BY DEF CancelBuild, CancelInProgressWidget, DeliverProgressCanceled, Cancel, Deliver
<1> QED
  BY <1>1, <1>2 DEF Hidden, PendingEntries, CurrentEntry, CurrentOutcome

LEMMA EventHidden ==
    ASSUME IInv, WorkerOutput \/ DeliverText \/ NextBuildQueueIgnored \/ NextBuildQueueCrashes
    PROVE  Hidden
<1>1. UNCHANGED <<queue, configurations, running, current, watched, report>>
  BY DEF WorkerOutput, DeliverText, NextBuildQueueIgnored, NextBuildQueueCrashes, mvars
<1>2. (gui = "cancelInit") = (gui' = "cancelInit")
  BY DEF WorkerOutput, DeliverText, NextBuildQueueIgnored, NextBuildQueueCrashes, Deliver
<1> QED
  BY <1>1, <1>2 DEF Hidden, PendingEntries, CurrentEntry, CurrentOutcome

(* A build that ends without success, when no worker is left. *)
LEMMA ClearRefines ==
    ASSUME IInv, running, watched.phase # "running", NEW act, ClearBuildQueue(act)
    PROVE  Service!Abort
<1>1. /\ queue' = <<>> /\ running' = FALSE
      /\ report' = [turn |-> 1 - report.turn, ok |-> FALSE]
  BY DEF ClearBuildQueue, BuildQueueFinished
<1>2. PendingEntries' = <<>>
  BY <1>1 DEF PendingEntries
<1>3. CurrentEntry' = NoEntry /\ CurrentOutcome' = "none"
  BY <1>1 DEF CurrentEntry, CurrentOutcome
<1>4. CurrentEntry # NoEntry /\ CurrentOutcome # "executing"
  BY PendingIsPaired DEF CurrentEntry, CurrentOutcome
<1> QED
  BY <1>1, <1>2, <1>3, <1>4 DEF Service!Abort, Service!GoIdle, Service!Report

LEMMA CancelFinishedRefines ==
    ASSUME IInv, WaitInv, CancelFinished
    PROVE  Service!Abort
BY ClearRefines DEF CancelFinished, WaitForFinished, WaitInv

(* BuildStep::run returns. *)
LEMMA WorkerReturnsRefines ==
    ASSUME IInv, WaitInv, NEW ok \in BOOLEAN, WorkerReturns(ok)
    PROVE  Service!Execute
<1>1. /\ watched.phase = "running" /\ watched' = [phase |-> "finished", result |-> ok]
      /\ UNCHANGED <<queue, configurations, running, current, gui, report>>
  BY DEF WorkerReturns, mvars
<1>2. running /\ gui # "cancelInit"
  BY <1>1 DEF IInv, OneWorker, WaitInv
<1>3. CurrentOutcome = "executing"
  BY <1>1, <1>2 DEF CurrentOutcome
<1>4. CurrentOutcome' \in {"succeeded", "failed"}
  BY <1>1, <1>2 DEF CurrentOutcome
<1>5. UNCHANGED <<PendingEntries, CurrentEntry, report>>
  BY <1>1 DEF PendingEntries, CurrentEntry
<1> QED
  BY <1>3, <1>4, <1>5 DEF Service!Execute

(* nextBuildQueue acts on a step that is done. *)
LEMMA StepDoneOutcome ==
    ASSUME IInv, StepDone
    PROVE  /\ running /\ watched.phase # "running" /\ gui = "loop"
           /\ watched.result => CurrentOutcome = "succeeded"
<1>1. running /\ watched.phase # "running" /\ gui = "loop"
  BY Delivered DEF StepDone, Deliver, IInv, ProgressAlive
<1> QED
  BY <1>1 DEF CurrentOutcome

LEMMA NextBuildQueueNextRefines ==
    ASSUME IInv, NextBuildQueueNext
    PROVE  Service!Advance
<1>1. /\ StepDone /\ watched.result /\ queue # <<>> /\ UNCHANGED <<running, report>>
      /\ \E evs : BeginStep(queue, configurations, evs) \/ RefuseStep(queue, configurations, evs)
  BY DEF NextBuildQueueNext
<1>2. CurrentOutcome = "succeeded" /\ gui = "loop" /\ running' = TRUE
  BY <1>1, StepDoneOutcome DEF IInv, TypeOK
<1>3. Service!TakeUp(PendingEntries)
  BY <1>1, <1>2, PendingIsPaired, TakeUpRefines
<1> QED
  BY <1>1, <1>2, <1>3, PendingIsPaired DEF Service!Advance

LEMMA NextBuildQueueSucceedsRefines ==
    ASSUME IInv, NextBuildQueueSucceeds
    PROVE  Service!Complete
<1>1. /\ StepDone /\ watched.result /\ queue = <<>>
      /\ running' = FALSE /\ report' = [turn |-> 1 - report.turn, ok |-> TRUE]
      /\ UNCHANGED <<queue, configurations>>
  BY DEF NextBuildQueueSucceeds, EndOfQueue, BuildQueueFinished
<1>2. CurrentOutcome = "succeeded" /\ PendingEntries = <<>> /\ UNCHANGED PendingEntries
  BY <1>1, StepDoneOutcome, PendingIsPaired DEF PendingEntries
<1>3. CurrentEntry' = NoEntry /\ CurrentOutcome' = "none"
  BY <1>1 DEF CurrentEntry, CurrentOutcome
<1> QED
  BY <1>1, <1>2, <1>3 DEF Service!Complete, Service!GoIdle, Service!Report

LEMMA NextBuildQueueFailsRefines ==
    ASSUME IInv, NextBuildQueueFails
    PROVE  Service!Abort
BY StepDoneOutcome, ClearRefines DEF NextBuildQueueFails

LEMMA InitRefines == Init => Service!Init
<1> SUFFICES ASSUME Init PROVE Service!Init
  OBVIOUS
<1>1. PendingEntries = <<>>
  BY DEF Init, PendingEntries
<1>2. CurrentEntry = NoEntry /\ CurrentOutcome = "none"
  BY DEF Init, CurrentEntry, CurrentOutcome
<1> QED
  BY <1>1, <1>2 DEF Init, Service!Init

LEMMA NextRefines ==
    IInv /\ WaitInv /\ [Next]_vars => [Service!Next]_(Service!svars)
<1> SUFFICES ASSUME IInv, WaitInv, [Next]_vars
             PROVE  Service!Next \/ Hidden
  BY DEF Hidden, Service!svars
<1>1. ASSUME NEW r \in Requests, Request(r) PROVE Service!Next
  BY <1>1, RequestWhileRunningRefines, RequestWhenIdleRefines, RequestNothingRefines,
     ConstantsAssumption DEF Request, Service!Next
<1>2. CASE CancelBuild \/ CancelInProgressWidget \/ DeliverProgressCanceled
  BY <1>2, CancelHidden
<1>3. CASE WorkerOutput \/ DeliverText \/ NextBuildQueueIgnored \/ NextBuildQueueCrashes
  BY <1>3, EventHidden
<1>4. CASE CancelFinished \/ NextBuildQueueFails
  BY <1>4, CancelFinishedRefines, NextBuildQueueFailsRefines DEF Service!Next
<1>5. ASSUME NEW ok \in BOOLEAN, WorkerReturns(ok) PROVE Service!Next
  BY <1>5, WorkerReturnsRefines DEF Service!Next
<1>6. CASE NextBuildQueueNext \/ NextBuildQueueSucceeds
  BY <1>6, NextBuildQueueNextRefines, NextBuildQueueSucceedsRefines DEF Service!Next
<1>7. CASE UNCHANGED vars
  BY <1>7 DEF vars, Hidden, PendingEntries, CurrentEntry, CurrentOutcome
<1> QED
  BY <1>1, <1>2, <1>3, <1>4, <1>5, <1>6, <1>7
     DEF Next, User, Worker, EventLoop, NextBuildQueue

(* However the threads, cancellations and events interleave, users of the  *)
(* build manager see steps executed one by one in the order of submission, *)
(* each build reported once, and as a success only if all its steps were.  *)
THEOREM Implementation == Spec => ImplementsService
<1>1. Spec => Service!Spec
  BY InitRefines, NextRefines, SpecIInv, SpecWaitInv, PTL DEF Spec, Service!Spec
<1> QED
  BY <1>1 DEF ImplementsService
-----------------------------------------------------------------------------
(* The plugin, on top of this. *)

(* Sequences put one after the other are a sequence. *)
LEMMA FlattenSeqType ==
    ASSUME NEW T, NEW seqs \in Seq(Seq(T))
    PROVE  FlattenSeq(seqs) \in Seq(T)
<1> DEFINE N == Len(seqs)
           S == Seq(T)
           F == [i \in Nat |-> [x \in S |-> IF i \in 1..N THEN x \o seqs[i] ELSE x]]
           IsFlatten(f) ==
               f = [i \in 1..N |-> IF i = 1 THEN seqs[i] ELSE f[i - 1] \o seqs[i]]
           flatten[i \in 1..N] ==
               IF i = 1 THEN seqs[i] ELSE flatten[i - 1] \o seqs[i]
<1>1. /\ N \in Nat /\ <<>> \in S /\ \A i \in 1..N : seqs[i] \in S
      /\ \A x, y \in S : x \o y \in S
      /\ \A x \in S : <<>> \o x = x
  BY ElementOfSeq, EmptySeq, ConcatProperties, ConcatEmptySeq
<1>2. CASE N = 0
  BY <1>2, EmptySeq DEF FlattenSeq
<1>3. CASE N # 0
  <2>1. FlattenSeq(seqs) = flatten[N]
    BY <1>3, Zenon DEF FlattenSeq
  <2> HIDE DEF S, N
  <2>2. \E f : IsFlatten(f)
    <3>1. F \in [Nat -> [S -> S]]
      BY <1>1
    <3> HIDE DEF F
    <3>2. PICK g \in [0..N -> S] : Iterates(g, <<>>, F, N)
      BY <1>1, <3>1, Iteration
    <3>3. ASSUME NEW i \in 1..N
          PROVE  g[i] = IF i = 1 THEN seqs[i] ELSE g[i - 1] \o seqs[i]
      <4>1. i \in Nat /\ i - 1 \in 0..N /\ g[i - 1] \in S
        BY <1>1, <3>2
      <4>2. g[i] = F[i][g[i - 1]]
        BY <3>2 DEF Iterates
      <4>3. F[i][g[i - 1]] = g[i - 1] \o seqs[i]
        BY <4>1 DEF F
      <4>4. i = 1 => g[i - 1] = <<>>
        BY <3>2 DEF Iterates
      <4> QED
        BY <1>1, <4>2, <4>3, <4>4
    <3> DEFINE f == [i \in 1..N |-> g[i]]
    <3>4. ASSUME NEW i \in 1..N, i # 1 PROVE f[i - 1] = g[i - 1]
      BY <1>1, <3>4
    <3>5. ASSUME NEW i \in 1..N
          PROVE  g[i] = IF i = 1 THEN seqs[i] ELSE f[i - 1] \o seqs[i]
      BY <3>3, <3>4
    <3>6. f = [i \in 1..N |-> g[i]]
      OBVIOUS
    <3> HIDE DEF f
    <3>7. IsFlatten(f)
      BY <3>5, <3>6
    <3> QED
      BY <3>7
  <2>3. IsFlatten(flatten)
    BY <2>2, Zenon
  <2> HIDE DEF flatten
  <2>4. /\ flatten[1] \in S
        /\ \A i \in 2..N : flatten[i] = flatten[i - 1] \o seqs[i]
    <3>1. ASSUME NEW i \in 1..N
          PROVE  flatten[i] = IF i = 1 THEN seqs[i] ELSE flatten[i - 1] \o seqs[i]
      BY <2>3
    <3> HIDE <2>3
    <3>2. 1 \in 1..N /\ \A i \in 2..N : i \in 1..N /\ i # 1
      BY <1>1, <1>3
    <3> QED
      BY <1>1, <3>1, <3>2
  <2> DEFINE P == {i \in Nat : i + 1 \in 1..N => flatten[i + 1] \in S}
  <2>5. 0 \in P
    BY <2>4
  <2>6. ASSUME NEW i \in Nat, i < N, i \in P PROVE i + 1 \in P
    <3> SUFFICES ASSUME (i + 1) + 1 \in 1..N PROVE flatten[(i + 1) + 1] \in S
      OBVIOUS
    <3> DEFINE j == i + 1
               k == (i + 1) + 1
    <3>1. j \in 1..N /\ k \in 2..N /\ k \in 1..N /\ k - 1 = j
      BY <1>1
    <3>2. flatten[j] \in S
      BY <2>6, <3>1
    <3> HIDE DEF j, k
    <3>3. flatten[k] = flatten[j] \o seqs[k] /\ seqs[k] \in S
      BY <1>1, <2>4, <3>1
    <3>4. flatten[k] \in S
      BY <1>1, <3>2, <3>3
    <3> QED
      BY <3>4 DEF k
  <2> HIDE DEF P
  <2>7. 0..N \subseteq P
    BY <1>1, <2>5, <2>6, UpTo
  <2>8. N - 1 \in P /\ N - 1 \in Nat
    BY <1>1, <1>3, <2>7
  <2>9. flatten[N] \in S
    BY <1>1, <1>3, <2>8 DEF P
  <2> QED
    BY <2>1, <2>9 DEF S
<1> QED
  BY <1>2, <1>3

-----------------------------------------------------------------------------
(* The parts of the inductive invariant that are the plugin's own. *)

ExplorerTypes ==
    /\ projects \subseteq Projects
    /\ sessionStartup \in projects \cup {None}
    /\ currentProject \in projects \cup {None}
    /\ delayed \in Projects \cup {None}
    /\ runMode \in Modes \cup {"none"}
    /\ control \in [Controls -> Control \cup {None}]
    /\ debuggingControl \in Controls \cup {None}
    /\ debugger \in Controls \cup {"external", "none"}
    /\ todo \in Seq(Seq(Entry))

(* The menu is what updateActions makes of the last signal: also during a  *)
(* slot, when isBuilding() may say something else already.  Once there are *)
(* no projects it may be what it made of those there were.                 *)
EnabledFor(pros) ==
    /\ pros = projects \/ projects = {}
    /\ enabled = Enabled(pros, sessionStartup, currentProject,
                         debuggingControl, seen)
EnabledInv == \E pros \in SUBSET Projects : EnabledFor(pros)

(* A run that waits has its build going on, or still to be asked for. *)
DelayedInv ==
    delayed # None =>
        /\ running \/ todo # <<>>
        /\ runMode \in Modes
        /\ runMode = "debug" => debuggingControl = None

(* The control that has the debugger runs: it can be neither closed, nor   *)
(* reused, nor started again.                                              *)
DebuggerRuns ==
    debugger \in Controls =>
        /\ control[debugger] # None
        /\ control[debugger].mode = "debug"
        /\ control[debugger].running

PluginInv == ExplorerTypes /\ EnabledInv /\ DelayedInv /\ DebuggerRuns
ManagerInv == IInv /\ WaitInv /\ AccountsInv
ExplorerInv == ManagerInv /\ PluginInv

-----------------------------------------------------------------------------
(* Lemmas on the menu. *)

(* In the event loop the last signal is still true. *)
LEMMA SeenIsTrue ==
    ASSUME ManagerInv, InEventLoop
    PROVE  seen = Building
BY DEF ManagerInv, AccountsInv, SignalledState, InEventLoop, Building

(* What an enabled action says of the projects. *)
LEMMA EnabledMeans ==
    ASSUME ExplorerTypes, EnabledInv
    PROVE  /\ "build" \in enabled => currentProject \in Projects
           /\ \A mode \in {"run", "debug"} : mode \in enabled =>
                  StartupProject(sessionStartup, currentProject) \in Projects
<1>1. PICK pros : enabled = Enabled(pros, sessionStartup, currentProject,
                                    debuggingControl, seen)
  BY DEF EnabledInv, EnabledFor
<1> QED
  BY <1>1, ExplorerAssumption DEF ExplorerTypes, Enabled, MenuActions

(* The debugger is of no account but for "run" and "debug", and updateRunAction *)
(* brings these up to date. *)
LEMMA UpdateRunActionRight ==
    ASSUME ManagerInv, EnabledInv, InEventLoop, UpdateRunAction,
           UNCHANGED <<projects, sessionStartup, currentProject, seen>>
    PROVE  EnabledInv'
<1>1. seen = Building
  BY SeenIsTrue
<1>2. PICK pros \in SUBSET Projects : EnabledFor(pros)
  BY DEF EnabledInv
<1> DEFINE Made(ps, debugging) ==
               Enabled(ps, sessionStartup, currentProject, debugging, seen)
           Old == Made(pros, debuggingControl)
           New == Made(pros, debuggingControl')
           Run == Made(projects, debuggingControl')
<1>3. enabled = Old /\ enabled' = (enabled \ {"run", "debug"}) \cup (Run \cap {"run", "debug"})
  BY <1>1, <1>2 DEF EnabledFor, UpdateRunAction
<1>4. /\ \A action : action \notin {"run", "debug"} => (action \in Old <=> action \in New)
      /\ \A action : action \in {"run", "debug"} => (action \in Run <=> action \in New)
  BY Zenon DEF Enabled
<1> HIDE DEF Old, New, Run, Made
<1>5. enabled' = New
  BY <1>3, <1>4
<1>6. EnabledFor(pros)'
  BY <1>2, <1>5 DEF EnabledFor, New, Made
<1> QED
  BY <1>6 DEF EnabledInv

(* updateActions says what is so. *)
LEMMA UpdatedNow ==
    ASSUME UpdateActions(seen'), projects' \subseteq Projects
    PROVE  EnabledInv'
BY DEF UpdateActions, EnabledInv, EnabledFor

(* updateActions in the event loop. *)
LEMMA UpdateActionsRight ==
    ASSUME ManagerInv, InEventLoop, UpdateActions(Building), seen' = seen,
           projects' \subseteq Projects
    PROVE  EnabledInv'
BY SeenIsTrue, UpdatedNow

(* When the projects go, the actions of the session may stay. *)
LEMMA RemoveAllRight ==
    ASSUME ManagerInv, EnabledInv, InEventLoop, RemoveAll,
           UNCHANGED <<debuggingControl, seen>>
    PROVE  EnabledInv'
<1>1. seen = Building /\ projects' = {} /\ sessionStartup' = None /\ currentProject' = None
  BY SeenIsTrue DEF RemoveAll
<1>2. CASE UpdateActions(Building)
  BY <1>1, <1>2, UpdateActionsRight
<1>3. CASE enabled' = (enabled \cap {"session"})
                      \cup Enabled({}, None, None, debuggingControl', Building)
  <2> DEFINE Made(ps) == Enabled(ps, None, None, debuggingControl, seen)
  <2>1. PICK pros \in SUBSET Projects : EnabledFor(pros)
    BY DEF EnabledInv
  <2>2. CASE "session" \notin enabled
    <3>1. enabled' = Made({})
      BY <1>1, <1>3, <2>2
    <3> QED
      BY <1>1, <3>1 DEF EnabledInv, EnabledFor
  <2>3. CASE "session" \in enabled
    <3>1. pros # {} /\ ~seen.building
      BY <2>1, <2>3 DEF EnabledFor, Enabled
    <3>2. Made(pros) = {"session"} \cup Made({})
      BY <3>1 DEF Enabled, MenuActions
    <3>3. enabled' = Made(pros)
      BY <1>1, <1>3, <2>3, <3>2
    <3> QED
      BY <1>1, <3>3 DEF EnabledInv, EnabledFor
  <2> QED
    BY <2>2, <2>3
<1> QED
  BY <1>2, <1>3 DEF RemoveAll

-----------------------------------------------------------------------------
(* The actions that leave the build manager alone. *)

LEMMA ProjectActionInv ==
    ASSUME ManagerInv, PluginInv, ProjectAction \/ LoadSession
    PROVE  PluginInv'
<1> DEFINE Cleared == \E cleared \in BOOLEAN : ClearSession(cleared)
<1>1. /\ InEventLoop /\ (UpdateActions(Building) \/ RemoveAll)
      /\ UNCHANGED <<vars, delayed, runMode, control, debuggingControl, debugger, todo>>
  <2>1. CASE ProjectAction
    BY <2>1 DEF ProjectAction, OpenProject, SetStartupProject, SetCurrent, UnloadProject,
       ClearSession
  <2>2. CASE LoadSession
    BY <2>2 DEF LoadSession
  <2> QED
    BY <2>1, <2>2
<1>2. /\ projects' \subseteq Projects
      /\ sessionStartup' \in projects' \cup {None}
      /\ currentProject' \in projects' \cup {None}
  <2>1. CASE \E p \in Projects : OpenProject(p)
    BY <2>1 DEF OpenProject, StartupProjects, PluginInv, ExplorerTypes
  <2>2. CASE \E p \in Projects : SetStartupProject(p)
    BY <2>2 DEF SetStartupProject, PluginInv, ExplorerTypes
  <2>3. CASE \E p \in Projects \cup {None} : SetCurrent(p)
    BY <2>3 DEF SetCurrent, PluginInv, ExplorerTypes
  <2>4. CASE UnloadProject
    BY <2>4 DEF UnloadProject, StartupProjects, InvalidateProject, PluginInv, ExplorerTypes
  <2>5. CASE RemoveAll
    BY <2>5 DEF RemoveAll
  <2>6. ASSUME NEW opened \in (SUBSET Projects) \ {{}}, projects' = opened,
               sessionStartup' \in opened \cup StartupProjects(opened, None),
               currentProject' \in opened
        PROVE  /\ projects' \subseteq Projects
               /\ sessionStartup' \in projects' \cup {None}
               /\ currentProject' \in projects' \cup {None}
    BY <2>6 DEF StartupProjects
  <2>7. CASE LoadSession
    BY <2>5, <2>6, <2>7 DEF LoadSession
  <2>8. CASE Cleared
    BY <2>5, <2>8 DEF ClearSession
  <2> QED
    BY <2>1, <2>2, <2>3, <2>4, <2>7, <2>8 DEF ProjectAction
<1>3. EnabledInv'
  BY <1>1, <1>2, UpdateActionsRight, RemoveAllRight DEF vars, PluginInv
<1>4. ExplorerTypes'
  BY <1>1, <1>2 DEF PluginInv, ExplorerTypes
<1>5. DelayedInv' /\ DebuggerRuns'
  BY <1>1 DEF PluginInv, DelayedInv, DebuggerRuns, vars
<1> QED
  BY <1>3, <1>4, <1>5 DEF PluginInv

(* projectOrder() gives a request. *)
LEMMA InOrderType ==
    ASSUME NEW steps \in [Projects -> Seq(Entry)]
    PROVE  InOrder(steps) \in Seq(Entry)
<1> DEFINE parts == [i \in DOMAIN ProjectOrder |->
               IF ProjectOrder[i] \in projects THEN steps[ProjectOrder[i]] ELSE <<>>]
<1>1. DOMAIN ProjectOrder = 1..Len(ProjectOrder) /\ Len(ProjectOrder) \in Nat
      /\ \A i \in DOMAIN ProjectOrder : ProjectOrder[i] \in Projects
  BY ExplorerAssumption, ElementOfSeq
<1>2. <<>> \in Seq(Entry)
  BY EmptySeq
<1>3. parts \in [1..Len(ProjectOrder) -> Seq(Entry)]
  BY <1>1, <1>2
<1>4. parts \in Seq(Seq(Entry))
  BY <1>1, <1>3, SeqDef
<1> HIDE DEF parts
<1>5. FlattenSeq(parts) \in Seq(Entry)
  BY <1>4, FlattenSeqType
<1> QED
  BY <1>5 DEF InOrder, parts

LEMMA BuildActionInv ==
    ASSUME ManagerInv, PluginInv, BuildAction
    PROVE  PluginInv'
<1>1. /\ UNCHANGED <<vars, projects, sessionStartup, currentProject, control,
                     debuggingControl, debugger, enabled>>
      /\ InEventLoop
  BY DEF BuildAction, BuildProject, CleanProject, RebuildProject, BuildSession,
     CleanSession, RebuildSession, RunProject, DebugProject, BuildAndRun, Triggered
<1>2. EnabledInv' /\ DebuggerRuns'
  BY <1>1 DEF PluginInv, EnabledInv, EnabledFor, DebuggerRuns, vars
<1>3. BuildSteps \in [Projects -> Seq(Entry)] /\ CleanSteps \in [Projects -> Seq(Entry)]
  BY ExplorerAssumption
<1>4. \A r \in Seq(Entry) : <<r>> \in Seq(Seq(Entry)) /\ <<r>> # <<>>
  OBVIOUS
<1>5. \A r, t \in Seq(Entry) : <<r, t>> \in Seq(Seq(Entry))
  OBVIOUS
<1>6. InOrder(BuildSteps) \in Seq(Entry) /\ InOrder(CleanSteps) \in Seq(Entry)
  BY <1>3, InOrderType
<1>7. ASSUME todo' \in Seq(Seq(Entry)), UNCHANGED <<delayed, runMode>>
      PROVE  PluginInv'
  <2>1. ExplorerTypes'
    BY <1>1, <1>7 DEF PluginInv, ExplorerTypes
  <2>2. todo = <<>> /\ running' = running
    BY <1>1 DEF InEventLoop, vars
  <2>3. DelayedInv'
    BY <1>1, <1>7, <2>2 DEF PluginInv, DelayedInv
  <2> QED
    BY <1>2, <2>1, <2>3 DEF PluginInv
<1>8. CASE BuildProject \/ CleanProject \/ RebuildProject
  <2>1. "build" \in enabled
    BY <1>8 DEF BuildProject, CleanProject, RebuildProject, Triggered
  <2>2. BuildSteps[currentProject] \in Seq(Entry) /\ CleanSteps[currentProject] \in Seq(Entry)
    BY <1>3, <2>1, EnabledMeans DEF PluginInv
  <2>3. todo' \in Seq(Seq(Entry)) /\ UNCHANGED <<delayed, runMode>>
    BY <1>4, <1>5, <1>8, <2>2 DEF BuildProject, CleanProject, RebuildProject, Triggered
  <2> QED
    BY <1>7, <2>3
<1>9. CASE BuildSession \/ CleanSession \/ RebuildSession
  <2>1. todo' \in Seq(Seq(Entry)) /\ UNCHANGED <<delayed, runMode>>
    BY <1>4, <1>5, <1>6, <1>9 DEF BuildSession, CleanSession, RebuildSession, Triggered
  <2> QED
    BY <1>7, <2>1
<1>10. CASE RunProject \/ DebugProject
  <2> DEFINE pro == StartupProject(sessionStartup, currentProject)
  <2>1. PICK mode \in {"run", "debug"} :
            /\ mode \in enabled /\ delayed' = pro /\ runMode' = mode
            /\ todo' = <<BuildSteps[pro]>>
            /\ mode = "debug" => debuggingControl = None
    BY <1>10 DEF RunProject, DebugProject, BuildAndRun, Triggered
  <2>2. pro \in Projects
    BY <2>1, EnabledMeans DEF PluginInv
  <2> HIDE DEF pro
  <2>3. todo' \in Seq(Seq(Entry)) /\ todo' # <<>>
    BY <1>3, <1>4, <2>1, <2>2
  <2>4. ExplorerTypes'
    BY <1>1, <2>1, <2>2, <2>3 DEF PluginInv, ExplorerTypes, Modes
  <2>5. DelayedInv'
    BY <1>1, <2>1, <2>3 DEF DelayedInv, Modes
  <2> QED
    BY <1>2, <2>4, <2>5 DEF PluginInv
<1> QED
  BY <1>8, <1>9, <1>10 DEF BuildAction

-----------------------------------------------------------------------------
(* Run controls. *)

(* What start() can come to. *)
LEMMA StartedMeans ==
    ASSUME NEW c \in Controls, NEW mode \in Modes, NEW result \in Started(c, mode)
    PROVE  /\ result.running \in BOOLEAN
           /\ \/ result.debugger = debugger
              \/ result.debugger = c /\ result.running /\ mode = "debug"
<1>1. \/ result = [running |-> FALSE, debugger |-> debugger]
      \/ result = [running |-> TRUE, debugger |-> debugger]
      \/ result = [running |-> TRUE, debugger |-> c] /\ mode # "run"
  BY DEF Started
<1>2. mode # "run" => mode = "debug"
  BY DEF Modes
<1>3. CASE result = [running |-> FALSE, debugger |-> debugger]
  BY <1>3
<1>4. CASE result = [running |-> TRUE, debugger |-> debugger]
  BY <1>4
<1>5. CASE result = [running |-> TRUE, debugger |-> c] /\ mode # "run"
  <2>1. result.running = TRUE /\ result.debugger = c
    BY <1>5
  <2> QED
    BY <1>2, <1>5, <2>1, Zenon
<1> QED
  BY <1>1, <1>3, <1>4, <1>5

(* A control is a record of its own. *)
LEMMA ControlOf ==
    ASSUME ExplorerTypes, NEW c \in Controls, control[c] # None
    PROVE  control[c] \in Control /\ control[c].mode \in Modes
           /\ control[c].config \in Projects
BY DEF ExplorerTypes, Control

(* A new state of a control. *)
LEMMA NewControl ==
    ASSUME NEW config \in Projects, NEW mode \in Modes, NEW on \in BOOLEAN,
           NEW new, new = [config |-> config, mode |-> mode, running |-> on]
    PROVE  /\ new \in Control /\ new # None
           /\ new.config = config /\ new.mode = mode /\ new.running = on
<1>1. new \in Control
  BY DEF Control
<1> QED
  BY <1>1, ExplorerAssumption

(* The same control in another state. *)
LEMMA RunningChanged ==
    ASSUME ExplorerTypes, NEW c \in Controls, control[c] # None, NEW on \in BOOLEAN,
           NEW new, new = [control[c] EXCEPT !.running = on]
    PROVE  /\ new \in Control /\ new # None
           /\ new.config = control[c].config /\ new.mode = control[c].mode
           /\ new.running = on
<1>1. control[c] \in Control
  BY ControlOf
<1> DEFINE config == control[c].config
           mode == control[c].mode
<1>2. new = [config |-> config, mode |-> mode, running |-> on]
  BY <1>1 DEF Control
<1>3. config \in Projects /\ mode \in Modes
  BY ControlOf
<1> HIDE DEF config, mode
<1>4. new \in Control /\ new # None /\ new.config = config /\ new.mode = mode /\ new.running = on
  BY <1>2, <1>3, NewControl
<1> QED
  BY <1>4 DEF config, mode

LEMMA ProcessExitedInv ==
    ASSUME ManagerInv, PluginInv, NEW c \in Controls, ProcessExited(c)
    PROVE  PluginInv'
<1>1. /\ InEventLoop /\ control[c] # None /\ control[c].mode = "run"
      /\ control' = [control EXCEPT ![c] = [control[c] EXCEPT !.running = FALSE]]
      /\ debuggingControl' = Forget({c})
      /\ UpdateRunAction
      /\ UNCHANGED <<vars, projects, sessionStartup, currentProject, delayed,
                     runMode, debugger, todo>>
  BY DEF ProcessExited
<1>2. EnabledInv'
  BY <1>1, UpdateRunActionRight DEF PluginInv, vars
<1> DEFINE new == [control[c] EXCEPT !.running = FALSE]
<1>3. new \in Control
  BY <1>1, RunningChanged DEF PluginInv
<1> HIDE DEF new
<1>4. control' = [control EXCEPT ![c] = new]
  BY <1>1 DEF new
<1>5. debuggingControl' \in {None, debuggingControl}
  BY <1>1 DEF Forget
<1>6. ExplorerTypes'
  BY <1>1, <1>3, <1>4, <1>5 DEF PluginInv, ExplorerTypes
<1>7. DelayedInv'
  BY <1>1, <1>5 DEF PluginInv, DelayedInv, vars
<1>8. DebuggerRuns'
  BY <1>1, <1>4 DEF PluginInv, DebuggerRuns, ExplorerTypes
<1> QED
  BY <1>2, <1>6, <1>7, <1>8 DEF PluginInv

LEMMA ReRunRunControlInv ==
    ASSUME ManagerInv, PluginInv, NEW c \in Controls, ReRunRunControl(c)
    PROVE  PluginInv'
<1>1. PICK result \in Started(c, control[c].mode) :
        /\ control' = [control EXCEPT ![c] = [control[c] EXCEPT !.running = result.running]]
        /\ debugger' = result.debugger
        /\ debuggingControl' =
               IF result.running THEN debuggingControl ELSE Forget({c})
        /\ IF result.running THEN UNCHANGED enabled ELSE UpdateRunAction
  BY DEF ReRunRunControl
<1>2. /\ InEventLoop /\ control[c] # None /\ ~control[c].running
      /\ UNCHANGED <<vars, projects, sessionStartup, currentProject, delayed,
                     runMode, todo>>
  BY DEF ReRunRunControl
<1>3. /\ control[c].mode \in Modes /\ result.running \in BOOLEAN
      /\ \/ result.debugger = debugger
         \/ result.debugger = c /\ result.running /\ control[c].mode = "debug"
  BY <1>2, ControlOf, StartedMeans DEF PluginInv
<1> DEFINE new == [control[c] EXCEPT !.running = result.running]
<1>4. new \in Control /\ new # None /\ new.mode = control[c].mode /\ new.running = result.running
  BY <1>2, <1>3, RunningChanged DEF PluginInv
<1> HIDE DEF new
<1>5. control' = [control EXCEPT ![c] = new]
  BY <1>1 DEF new
<1>6. debuggingControl' \in {None, debuggingControl}
  BY <1>1 DEF Forget
<1>7. EnabledInv'
  <2>1. CASE result.running
    BY <1>1, <1>2, <2>1 DEF PluginInv, EnabledInv, EnabledFor, vars
  <2>2. CASE ~result.running
    BY <1>1, <1>2, <2>2, UpdateRunActionRight DEF PluginInv, vars
  <2> QED
    BY <2>1, <2>2
<1>8. ExplorerTypes'
  BY <1>1, <1>2, <1>3, <1>4, <1>5, <1>6 DEF PluginInv, ExplorerTypes
<1>9. DelayedInv'
  BY <1>2, <1>6 DEF PluginInv, DelayedInv, vars
<1>10. DebuggerRuns'
  <2>1. CASE debugger' = c /\ result.running /\ control[c].mode = "debug"
    BY <1>4, <1>5, <2>1 DEF PluginInv, DebuggerRuns, ExplorerTypes
  <2>2. CASE debugger' = debugger
    BY <1>2, <1>5, <2>2 DEF PluginInv, DebuggerRuns, ExplorerTypes
  <2> QED
    BY <1>1, <1>3, <2>1, <2>2
<1> QED
  BY <1>7, <1>8, <1>9, <1>10 DEF PluginInv

LEMMA CloseTabInv ==
    ASSUME PluginInv, NEW c \in Controls, CloseTab(c)
    PROVE  PluginInv'
<1>1. /\ control[c] # None /\ ~control[c].running
      /\ control' = [control EXCEPT ![c] = None]
      /\ UNCHANGED <<vars, projects, sessionStartup, currentProject, delayed,
                     runMode, debuggingControl, debugger, enabled, todo>>
  BY DEF CloseTab
<1>2. ExplorerTypes'
  BY <1>1 DEF PluginInv, ExplorerTypes
<1>3. EnabledInv' /\ DelayedInv'
  BY <1>1 DEF PluginInv, EnabledInv, EnabledFor, DelayedInv, vars
<1>4. DebuggerRuns'
  BY <1>1 DEF PluginInv, DebuggerRuns, ExplorerTypes
<1> QED
  BY <1>2, <1>3, <1>4 DEF PluginInv

LEMMA DebuggingFinishedInv ==
    ASSUME ManagerInv, PluginInv, InEventLoop, DebuggingFinished(Connected)
    PROVE  PluginInv'
<1> DEFINE cs == Connected
<1>1. /\ control' = [c \in Controls |->
                      IF c \in cs THEN [control[c] EXCEPT !.running = FALSE]
                      ELSE control[c]]
      /\ debuggingControl' = Forget(cs)
      /\ IF cs = {} THEN UNCHANGED enabled ELSE UpdateRunAction
      /\ debugger' = "none"
      /\ UNCHANGED <<vars, projects, sessionStartup, currentProject, delayed,
                     runMode, todo>>
  BY DEF DebuggingFinished
<1>2. \A c \in cs : c \in Controls /\ control[c] # None
  BY DEF Connected, DebugControls
<1>3. \A c \in cs : [control[c] EXCEPT !.running = FALSE] \in Control
  BY <1>2, RunningChanged DEF PluginInv
<1> HIDE DEF cs
<1>4. debuggingControl' \in {None, debuggingControl} /\ (cs = {} => debuggingControl' = debuggingControl)
  BY <1>1 DEF Forget
<1>5. control' \in [Controls -> Control \cup {None}]
  BY <1>1, <1>3 DEF PluginInv, ExplorerTypes
<1>6. ExplorerTypes'
  BY <1>1, <1>4, <1>5 DEF PluginInv, ExplorerTypes
<1>7. EnabledInv'
  <2>1. CASE cs = {}
    BY <1>1, <1>4, <2>1 DEF PluginInv, EnabledInv, EnabledFor, vars
  <2>2. CASE cs # {}
    BY <1>1, <2>2, UpdateRunActionRight DEF PluginInv, vars
  <2> QED
    BY <2>1, <2>2
<1>8. DelayedInv'
  BY <1>1, <1>4 DEF PluginInv, DelayedInv, vars
<1>9. DebuggerRuns'
  BY <1>1, ExplorerAssumption DEF DebuggerRuns
<1> QED
  BY <1>6, <1>7, <1>8, <1>9 DEF PluginInv

LEMMA ControlActionInv ==
    ASSUME ManagerInv, PluginInv, ControlAction
    PROVE  PluginInv'
<1>1. CASE ExitDebugger
  BY <1>1, DebuggingFinishedInv DEF ExitDebugger
<1>2. CASE StartExternal
  <2>1. CASE DebuggingFinished(Connected)
    BY <1>2, <2>1, DebuggingFinishedInv DEF StartExternal
  <2>2. CASE ~DebuggingFinished(Connected)
    <3>1. /\ debugger' = "external"
          /\ UNCHANGED <<vars, projects, sessionStartup, currentProject,
                         delayed, runMode, control, debuggingControl, enabled,
                         todo>>
      BY <1>2, <2>2 DEF StartExternal
    <3>2. ExplorerTypes'
      BY <3>1 DEF PluginInv, ExplorerTypes
    <3>3. EnabledInv' /\ DelayedInv'
      BY <3>1 DEF PluginInv, EnabledInv, EnabledFor, DelayedInv, vars
    <3>4. DebuggerRuns'
      BY <3>1, ExplorerAssumption DEF DebuggerRuns
    <3> QED
      BY <3>2, <3>3, <3>4 DEF PluginInv
  <2> QED
    BY <2>1, <2>2
<1> QED
  BY <1>1, <1>2, ProcessExitedInv, ReRunRunControlInv, CloseTabInv DEF ControlAction

-----------------------------------------------------------------------------
(* The slots of the build manager's signals. *)

(* A build does not end without a report. *)
LEMMA EndReported ==
    ASSUME ManagerInv, AnyNext, running, report' = report
    PROVE  running'
<1>1. report \in [turn : {0, 1}, ok : BOOLEAN]
  BY DEF ManagerInv, IInv, TypeOK
<1>2. \A ok : [turn |-> 1 - report.turn, ok |-> ok] # report
  <2> SUFFICES ASSUME NEW ok, [turn |-> 1 - report.turn, ok |-> ok] = report PROVE FALSE
    OBVIOUS
  <2>1. report.turn = 1 - report.turn /\ report.turn \in {0, 1}
    BY <1>1
  <2> QED
    BY <2>1
<1>3. \A ok : ~BuildQueueFinished(ok)
  BY <1>2 DEF BuildQueueFinished
<1>4. \A act : ~ClearBuildQueue(act) /\ ~EndOfQueue(act)
  BY <1>3 DEF ClearBuildQueue, EndOfQueue
<1>5. CASE AnyRequest
  BY <1>4, <1>5 DEF AnyRequest, Request, RequestWhileRunning, RequestWhenIdle, RequestNothing
<1>6. CASE CancelBuild \/ CancelInProgressWidget
  BY <1>6 DEF CancelBuild, CancelInProgressWidget
<1>7. CASE CancelFinished
  BY <1>4, <1>7 DEF CancelFinished
<1>8. CASE Worker
  BY <1>8 DEF Worker, WorkerOutput, WorkerReturns, mvars
<1>9. CASE EventLoop
  BY <1>4, <1>9 DEF EventLoop, DeliverText, DeliverProgressCanceled, NextBuildQueue,
     NextBuildQueueIgnored, NextBuildQueueCrashes, NextBuildQueueNext,
     NextBuildQueueSucceeds, NextBuildQueueFails, mvars
<1> QED
  BY <1>5, <1>6, <1>7, <1>8, <1>9 DEF AnyNext

(* A request that is not reported at once has a build go on. *)
LEMMA RequestRuns ==
    ASSUME ManagerInv, NEW r \in Seq(Entry), Request(r), report' = report
    PROVE  running'
<1>1. CASE running
  BY <1>1, EndReported DEF AnyNext, AnyRequest
<1>2. CASE RequestWhenIdle(r)
  BY <1>2 DEF RequestWhenIdle
<1>3. CASE RequestNothing(r)
  <2>1. report' = [turn |-> 1 - report.turn, ok |-> TRUE]
    BY <1>3 DEF RequestNothing, EndOfQueue, BuildQueueFinished
  <2>2. report.turn \in {0, 1}
    BY DEF ManagerInv, IInv, TypeOK
  <2>3. report'.turn = 1 - report.turn
    BY <2>1
  <2> QED
    BY <2>2, <2>3
<1> QED
  BY <1>1, <1>2, <1>3 DEF Request, RequestWhileRunning

(* The run that waited begins.  What the menu offers is the slot's matter. *)
LEMMA RunDelayedInv ==
    ASSUME PluginInv, delayed # None, NEW c \in Controls, RunDelayed(c)
    PROVE  /\ control' \in [Controls -> Control \cup {None}]
           /\ debuggingControl' \in Controls \cup {None}
           /\ debugger' \in Controls \cup {"external", "none"}
           /\ DebuggerRuns'
<1>1. PICK result \in Started(c, runMode) :
        /\ CreateNewOutputWindow(c, [config |-> delayed, mode |-> runMode,
                                     running |-> result.running])
        /\ debugger' = result.debugger
        /\ debuggingControl' =
               IF runMode = "debug" THEN c
               ELSE IF result.running THEN debuggingControl ELSE Forget({c})
  BY DEF RunDelayed
<1>2. control[c] = None /\ delayed \in Projects /\ runMode \in Modes
  BY DEF RunDelayed, PluginInv, ExplorerTypes, DelayedInv
<1>3. /\ result.running \in BOOLEAN
      /\ \/ result.debugger = debugger
         \/ result.debugger = c /\ result.running /\ runMode = "debug"
  BY <1>2, StartedMeans
<1> DEFINE new == [config |-> delayed, mode |-> runMode, running |-> result.running]
<1>4. /\ new \in Control /\ new # None
      /\ new.mode = runMode /\ new.running = result.running
  BY <1>2, <1>3, NewControl
<1> HIDE DEF new
<1>5. PICK gone \in Controls \cup {None} :
        /\ gone # None => control[gone] # None /\ ~control[gone].running
        /\ control' = IF gone = None THEN [control EXCEPT ![c] = new]
                      ELSE [control EXCEPT ![c] = new, ![gone] = None]
  <2>1. CreateNewOutputWindow(c, new)
    BY <1>1 DEF new
  <2>2. CASE control' = [control EXCEPT ![c] = new]
    <3> WITNESS None \in Controls \cup {None}
    <3> QED
      BY <2>2
  <2>3. CASE \E old \in Reusable(new.config) : control' = [control EXCEPT ![c] = new, ![old] = None]
    <3>1. PICK old \in Reusable(new.config) : control' = [control EXCEPT ![c] = new, ![old] = None]
      BY <2>3
    <3>2. old \in Controls /\ control[old] # None /\ ~control[old].running /\ old # None
      BY <3>1, ExplorerAssumption DEF Reusable
    <3> QED
      BY <3>1, <3>2
  <2> QED
    BY <2>1, <2>2, <2>3 DEF CreateNewOutputWindow
<1>6. gone # c
  BY <1>2, <1>5, ExplorerAssumption
<1>7. control' \in [Controls -> Control \cup {None}]
  BY <1>4, <1>5 DEF PluginInv, ExplorerTypes
<1>8. /\ control'[c] = new
      /\ \A d \in Controls : d # c /\ d # gone => control'[d] = control[d]
  BY <1>5, <1>6 DEF PluginInv, ExplorerTypes
<1>9. debuggingControl' \in Controls \cup {None}
  BY <1>1 DEF Forget, PluginInv, ExplorerTypes
<1>10. debugger' \in Controls \cup {"external", "none"}
  BY <1>1, <1>3 DEF PluginInv, ExplorerTypes
<1>11. DebuggerRuns'
  <2>1. CASE debugger' = c /\ result.running /\ runMode = "debug"
    BY <1>4, <1>8, <2>1 DEF DebuggerRuns
  <2>2. CASE debugger' = debugger
    <3> SUFFICES ASSUME debugger \in Controls
                 PROVE  /\ control'[debugger] # None
                        /\ control'[debugger].mode = "debug"
                        /\ control'[debugger].running
      BY <2>2 DEF DebuggerRuns
    <3>1. /\ control[debugger] # None /\ control[debugger].mode = "debug"
          /\ control[debugger].running
      BY DEF PluginInv, DebuggerRuns
    <3>2. debugger # c /\ debugger # gone
      BY <1>2, <1>5, <3>1, ExplorerAssumption
    <3> QED
      BY <1>8, <3>1, <3>2
  <2> QED
    BY <1>1, <1>3, <2>1, <2>2
<1> QED
  BY <1>7, <1>9, <1>10, <1>11

LEMMA SlotsInv ==
    ASSUME ManagerInv, PluginInv, AnyNext, Slots,
           todo' \in Seq(Seq(Entry)),
           todo # <<>> /\ todo' = <<>> /\ report' = report => running'
    PROVE  PluginInv'
<1>1. CASE report' # report
  <2>1. BuildQueueFinishedSlot(report'.ok)
    BY <1>1 DEF Slots
  <2>2. /\ delayed' = None /\ runMode' = "none"
        /\ UNCHANGED <<projects, sessionStartup, currentProject>>
        /\ UpdateActions(seen')
    BY <2>1 DEF BuildQueueFinishedSlot
  <2>3. EnabledInv' /\ DelayedInv'
    BY <2>2, UpdatedNow DEF PluginInv, ExplorerTypes, DelayedInv
  <2>4. /\ control' \in [Controls -> Control \cup {None}]
        /\ debuggingControl' \in Controls \cup {None}
        /\ debugger' \in Controls \cup {"external", "none"}
        /\ DebuggerRuns'
    <3>1. CASE delayed # None /\ \E c \in Controls : RunDelayed(c)
      BY <3>1, RunDelayedInv
    <3>2. CASE UNCHANGED <<control, debugger, debuggingControl>>
      BY <3>2 DEF PluginInv, ExplorerTypes, DebuggerRuns
    <3> QED
      BY <2>1, <3>1, <3>2 DEF BuildQueueFinishedSlot
  <2>5. ExplorerTypes'
    BY <2>2, <2>4 DEF PluginInv, ExplorerTypes
  <2> QED
    BY <2>3, <2>4, <2>5 DEF PluginInv
<1>2. CASE report' = report
  <2>1. /\ UNCHANGED <<projects, sessionStartup, currentProject, delayed,
                       runMode, control, debuggingControl, debugger>>
        /\ \/ UNCHANGED <<enabled, seen>>
           \/ UpdateActions(seen')
    BY <1>2 DEF Slots, BuildStateChangedSlot
  <2>2. EnabledInv'
    <3>1. CASE UNCHANGED <<enabled, seen>>
      BY <2>1, <3>1 DEF PluginInv, EnabledInv, EnabledFor
    <3>2. CASE UpdateActions(seen')
      BY <2>1, <3>2, UpdatedNow DEF PluginInv, ExplorerTypes
    <3> QED
      BY <2>1, <3>1, <3>2
  <2>3. running => running'
    BY <1>2, EndReported
  <2>4. DelayedInv'
    BY <1>2, <2>1, <2>3 DEF PluginInv, DelayedInv
  <2>5. ExplorerTypes' /\ DebuggerRuns'
    BY <2>1 DEF PluginInv, ExplorerTypes, DebuggerRuns
  <2> QED
    BY <2>2, <2>4, <2>5 DEF PluginInv
<1> QED
  BY <1>1, <1>2

-----------------------------------------------------------------------------
(* All steps. *)

(* Whatever the plugin does, the build manager takes one of its own steps  *)
(* or none. *)
LEMMA ManagerSteps == ExplorerTypes /\ [ExplorerNext]_allVars => [AnyNext]_vars
<1> SUFFICES ASSUME ExplorerTypes, [ExplorerNext]_allVars PROVE [AnyNext]_vars
  OBVIOUS
<1>1. CASE ProjectAction \/ LoadSession
  BY <1>1 DEF ProjectAction, OpenProject, SetStartupProject, SetCurrent,
     UnloadProject, ClearSession, LoadSession
<1>2. CASE BuildAction
  BY <1>2 DEF BuildAction, BuildProject, CleanProject, RebuildProject, BuildSession,
     CleanSession, RebuildSession, RunProject, DebugProject, BuildAndRun, Triggered
<1>3. CASE CallBuildManager
  <2>1. Head(todo) \in Seq(Entry)
    BY <1>3, HeadTailProperties DEF CallBuildManager, ExplorerTypes
  <2> QED
    BY <1>3, <2>1 DEF CallBuildManager, AnyNext, AnyRequest
<1>4. CASE ControlAction
  BY <1>4 DEF ControlAction, ProcessExited, ReRunRunControl, CloseTab, ExitDebugger,
     StartExternal, DebuggingFinished
<1>5. CASE BuildManagerStep
  BY <1>5 DEF BuildManagerStep, AnyNext, Worker
<1>6. CASE UNCHANGED allVars
  BY <1>6 DEF allVars
<1> QED
  BY <1>1, <1>2, <1>3, <1>4, <1>5, <1>6 DEF ExplorerNext

LEMMA ManagerNext == ManagerInv /\ ExplorerTypes /\ [ExplorerNext]_allVars => ManagerInv'
BY ManagerSteps, AnyNextInv, WaitInvNext, NextAccounts DEF ManagerInv

LEMMA CallBuildManagerInv ==
    ASSUME ManagerInv, PluginInv, CallBuildManager
    PROVE  PluginInv'
<1>1. /\ Head(todo) \in Seq(Entry)
      /\ todo' \in Seq(Seq(Entry))
  BY HeadTailProperties DEF CallBuildManager, PluginInv, ExplorerTypes
<1>2. Request(Head(todo)) /\ Slots
  BY DEF CallBuildManager
<1>3. AnyNext
  BY <1>1, <1>2 DEF AnyNext, AnyRequest
<1>4. report' = report => running'
  BY <1>1, <1>2, RequestRuns
<1> QED
  BY <1>1, <1>2, <1>3, <1>4, SlotsInv

LEMMA BuildManagerStepInv ==
    ASSUME ManagerInv, PluginInv, BuildManagerStep
    PROVE  PluginInv'
<1>1. CASE (EventLoop \/ CancelFinished) /\ Slots /\ UNCHANGED todo
  <2>1. todo' \in Seq(Seq(Entry)) /\ todo' = todo
    BY <1>1 DEF PluginInv, ExplorerTypes
  <2>2. AnyNext
    BY <1>1 DEF AnyNext
  <2> QED
    BY <1>1, <2>1, <2>2, SlotsInv
<1>2. CASE ((\E ok \in BOOLEAN : WorkerReturns(ok)) \/ CancelBuild \/ CancelInProgressWidget)
           /\ UNCHANGED explorer
  <2>1. running' = running /\ seen' = seen
    BY <1>2 DEF WorkerReturns, CancelBuild, CancelInProgressWidget, mvars
  <2>2. UNCHANGED explorer
    BY <1>2
  <2>3. ExplorerTypes' /\ DebuggerRuns'
    BY <2>2 DEF explorer, PluginInv, ExplorerTypes, DebuggerRuns
  <2>4. EnabledInv' /\ DelayedInv'
    BY <2>1, <2>2 DEF explorer, PluginInv, EnabledInv, EnabledFor, DelayedInv
  <2> QED
    BY <2>3, <2>4 DEF PluginInv
<1> QED
  BY <1>1, <1>2 DEF BuildManagerStep

LEMMA ExplorerInvNext == ExplorerInv /\ [ExplorerNext]_allVars => ExplorerInv'
<1> SUFFICES ASSUME ManagerInv, PluginInv, [ExplorerNext]_allVars
             PROVE  ManagerInv' /\ PluginInv'
  BY DEF ExplorerInv
<1>1. ManagerInv'
  BY ManagerNext DEF PluginInv
<1>2. CASE UNCHANGED allVars
  <2>1. UNCHANGED <<running, seen>> /\ UNCHANGED explorer
    BY <1>2 DEF allVars, vars
  <2>2. ExplorerTypes' /\ DebuggerRuns'
    BY <2>1 DEF explorer, PluginInv, ExplorerTypes, DebuggerRuns
  <2>3. EnabledInv' /\ DelayedInv'
    BY <2>1 DEF explorer, PluginInv, EnabledInv, EnabledFor, DelayedInv
  <2> QED
    BY <1>1, <2>2, <2>3 DEF PluginInv
<1> QED
  BY <1>1, <1>2, ProjectActionInv, BuildActionInv, CallBuildManagerInv,
     ControlActionInv, BuildManagerStepInv DEF ExplorerNext

LEMMA ExplorerInvInit == ExplorerInit => ExplorerInv
<1> SUFFICES ASSUME ExplorerInit PROVE ManagerInv /\ PluginInv
  BY DEF ExplorerInv
<1>1. ManagerInv
  BY InitInv, WaitInvInit, InitAccounts DEF ExplorerInit, ManagerInv
<1>2. ExplorerTypes
  BY EmptySeq DEF ExplorerInit, ExplorerTypes
<1>3. EnabledInv
  <2>1. seen = [building |-> FALSE, projects |-> {}]
    BY DEF ExplorerInit, Init
  <2>2. Enabled({}, None, None, None, seen) = {}
    <3>1. seen.building = FALSE /\ StartupProject(None, None) = None /\ None \notin Applications
      BY <2>1, ExplorerAssumption DEF StartupProject
    <3> QED
      BY <3>1 DEF Enabled, MenuActions
  <2> QED
    BY <2>2 DEF ExplorerInit, EnabledInv, EnabledFor
<1>4. DelayedInv /\ DebuggerRuns
  BY ExplorerAssumption DEF ExplorerInit, DelayedInv, DebuggerRuns
<1> QED
  BY <1>1, <1>2, <1>3, <1>4 DEF PluginInv

LEMMA SpecExplorerInv == ExplorerSpec => []ExplorerInv
BY ExplorerInvInit, ExplorerInvNext, PTL DEF ExplorerSpec

-----------------------------------------------------------------------------
(* The plugin's variables and the build manager's keep their types.        *)
THEOREM ExplorerTypeCorrect == ExplorerSpec => []ExplorerTypeOK
<1>1. ExplorerInv => ExplorerTypeOK
  <2>1. \A pros, startup, pro, debugging, signalled :
            Enabled(pros, startup, pro, debugging, signalled) \subseteq MenuActions
    BY DEF Enabled
  <2> QED
    BY <2>1 DEF ExplorerInv, ManagerInv, IInv, PluginInv, ExplorerTypes, EnabledInv,
       EnabledFor, ExplorerTypeOK
<1> QED
  BY <1>1, SpecExplorerInv, PTL

(* Whenever the user can look at the menu it offers what is possible, for  *)
(* any projects, steps and requests, but for the actions of the session    *)
(* when there is no project left.                                          *)
THEOREM MenuIsTrue == ExplorerSpec => []OnlySessionLags
<1>1. ExplorerInv => OnlySessionLags
  BY SeenIsTrue DEF ExplorerInv, PluginInv, EnabledInv, EnabledFor, OnlySessionLags
<1> QED
  BY <1>1, SpecExplorerInv, PTL

(* A run that waits, waits for a build that is going on, and no second     *)
(* debugging can be on its way.                                            *)
THEOREM RunOfThisBuild == ExplorerSpec => []DelayedOfThisBuild
<1>1. ExplorerInv => DelayedOfThisBuild
  BY DEF ExplorerInv, PluginInv, DelayedInv, DelayedOfThisBuild, InEventLoop
<1> QED
  BY <1>1, SpecExplorerInv, PTL

(* A control is not forgotten while it has the debugger. *)
THEOREM DebuggingStaysKnown == ExplorerSpec => DebugKept
<1> DEFINE A == \A c \in DebugControls :
               debuggingControl = c /\ debugger = c /\ debugger' = c => debuggingControl' = c
<1>1. ExplorerInv /\ [ExplorerNext]_allVars => [A]_allVars
  <2> SUFFICES ASSUME PluginInv, ExplorerNext, NEW c \in DebugControls,
                      debuggingControl = c, debugger = c, debugger' = c
               PROVE  debuggingControl' = c
    BY DEF ExplorerInv
  <2>1. /\ c \in Controls /\ c # None /\ c # "none"
        /\ control[c] # None /\ control[c].mode = "debug" /\ control[c].running
    BY ExplorerAssumption DEF DebugControls, PluginInv, DebuggerRuns
  <2>2. \A d : d # c => Forget({d}) = c
    BY DEF Forget
  <2>3. CASE ProjectAction \/ LoadSession \/ BuildAction
    BY <2>3 DEF ProjectAction, OpenProject, SetStartupProject, SetCurrent,
       UnloadProject, ClearSession, LoadSession, BuildAction, BuildProject, CleanProject,
       RebuildProject, BuildSession, CleanSession, RebuildSession, RunProject,
       DebugProject, BuildAndRun, Triggered
  <2>4. CASE ControlAction
    <3>1. CASE \E d \in Controls : ProcessExited(d) \/ ReRunRunControl(d) \/ CloseTab(d)
      BY <2>1, <2>2, <3>1 DEF ProcessExited, ReRunRunControl, CloseTab
    <3>2. CASE ExitDebugger \/ StartExternal
      BY <2>1, <3>2, ExplorerAssumption DEF ExitDebugger, StartExternal, DebuggingFinished
    <3> QED
      BY <2>4, <3>1, <3>2 DEF ControlAction
  <2>5. ASSUME Slots PROVE debuggingControl' = c
    <3>1. CASE delayed # None /\ \E d \in Controls : RunDelayed(d)
      <4>1. PICK d \in Controls : RunDelayed(d)
        BY <3>1
      <4>2. runMode # "debug" /\ d # c
        BY <2>1, <3>1, <4>1 DEF PluginInv, DelayedInv, RunDelayed
      <4> QED
        BY <2>2, <4>1, <4>2 DEF RunDelayed
    <3>2. CASE debuggingControl' = debuggingControl
      BY <3>2
    <3> QED
      BY <2>5, <3>1, <3>2 DEF Slots, BuildQueueFinishedSlot, BuildStateChangedSlot
  <2>6. CASE CallBuildManager
    BY <2>5, <2>6 DEF CallBuildManager
  <2>7. CASE BuildManagerStep
    BY <2>5, <2>7 DEF BuildManagerStep, explorer
  <2> QED
    BY <2>3, <2>4, <2>6, <2>7 DEF ExplorerNext
<1> QED
  BY <1>1, SpecExplorerInv, PTL DEF ExplorerSpec, DebugKept
=============================================================================
