---------------------------- MODULE BuildManager ----------------------------
(***************************************************************************)
(* ProjectExplorer::BuildManager: the queue of build steps, the worker     *)
(* thread that runs the current one, and the posted events by which the    *)
(* worker, the progress widget and a timer reach the manager again in the  *)
(* GUI thread.                                                             *)
(*                                                                         *)
(* A slot or a public function that runs to its end in the GUI thread is   *)
(* one action.  cancel() is two, because it blocks the GUI thread until    *)
(* the worker has finished, and the worker goes on meanwhile.              *)
(*                                                                         *)
(* Of Qt, as this code uses it (external): posted events are delivered in  *)
(* the order of posting, one by one, when the GUI thread is in its event   *)
(* loop; several user events may be handled before a posted one; a timer   *)
(* of zero milliseconds fires after the events posted before it; setFuture *)
(* of a QFutureWatcher removes the posted events of its former future.     *)
(***************************************************************************)
EXTENDS Integers, Sequences, FiniteSets

CONSTANTS
    Projects,
    Steps,          \* BuildStep objects
    ProjectOf,      \* BuildStep::project()
    Configs,        \* names of build configurations
    NoEntry,        \* m_currentBuildStep of a manager that never built
    Requests,       \* the sequences of steps one public call appends
    MaxSteps,       \* bound: m_maxProgress of one build
    MaxEvents       \* bound: posted events that wait

Entry == [step : Steps, config : Configs]

ASSUME ConstantsAssumption ==
    /\ ProjectOf \in [Steps -> Projects]
    /\ NoEntry \notin Entry
    /\ Requests \subseteq Seq(Entry)
    /\ MaxSteps \in Nat
    /\ MaxEvents \in Nat

VARIABLES
    queue,          \* m_buildQueue
    configurations, \* m_configurations, kept in parallel
    running,        \* m_running
    current,        \* m_currentBuildStep and m_currentConfiguration
    active,         \* m_activeBuildSteps; 0 also for a project not in the hash
    canceling,      \* m_canceling
    progress,       \* m_progress
    maxProgress,    \* m_maxProgress
    progressFuture, \* *m_progressFutureInterface: "none" is the null pointer
    watched,        \* the future of m_watcher, that is of the last run()
    orphans,        \* run() calls still executing that m_watcher left behind
    events,         \* posted events of the GUI thread, in order of delivery
    gui,            \* what the GUI thread does
    report,         \* buildQueueFinished: parity of emissions, last argument
    seen            \* isBuilding() and isBuilding(p) at the last signal

mvars == <<queue, configurations, running, current, active, canceling,
           progress, maxProgress, progressFuture>>
vars == <<queue, configurations, running, current, active, canceling,
          progress, maxProgress, progressFuture, watched, orphans, events,
          gui, report, seen>>

(* "removed" stands for an event that setFuture took out of the queue. *)
Event == {"output", "finished", "progressCanceled", "cancelMessage", "removed"}

TypeOK ==
    /\ queue \in Seq(Steps)
    /\ configurations \in Seq(Configs)
    /\ running \in BOOLEAN
    /\ current \in Entry \cup {NoEntry}
    /\ active \in [Projects -> Int]
    /\ canceling \in BOOLEAN
    /\ progress \in Nat
    /\ maxProgress \in Nat
    /\ progressFuture \in {"none", "started", "canceled"}
    /\ watched \in [phase : {"none", "running", "finished"}, result : BOOLEAN]
    /\ orphans \in Nat
    /\ events \in Seq(Event)
    /\ gui \in {"loop", "cancel", "cancelInit", "crashed"}
    /\ report \in [turn : {0, 1}, ok : BOOLEAN]
    /\ seen \in [building : BOOLEAN, projects : SUBSET Projects]

-----------------------------------------------------------------------------
(* Helpers *)

StepsIn(r) == [i \in DOMAIN r |-> r[i].step]
ConfigsIn(r) == [i \in DOMAIN r |-> r[i].config]

(* How many steps of sequence q belong to project p. *)
Count(q, p) == Cardinality({i \in DOMAIN q : ProjectOf[q[i]] = p})

IsBuilding == queue # <<>> \/ running

(* An event of this kind waits for delivery; at most one does. *)
Posted(evs, kind) == \E i \in DOMAIN evs : evs[i] = kind
AtMostOne(evs, kind) ==
    \A i, j \in DOMAIN evs : evs[i] = kind /\ evs[j] = kind => i = j

(* What a slot connected to one of the manager's signals learns from it. *)
Signal(building, act) ==
    seen' = [building |-> building, projects |-> {p \in Projects : act[p] > 0}]

BuildQueueFinished(ok) == report' = [turn |-> 1 - report.turn, ok |-> ok]

(* setFuture of a watcher: its events that still wait are not delivered. *)
Without(evs, kind) ==
    [i \in DOMAIN evs |-> IF evs[i] = kind THEN "removed" ELSE evs[i]]

(* reportCanceled: a future that is cancelled already says nothing again. *)
ReportCanceled(evs) ==
    IF progressFuture = "started" THEN Append(evs, "progressCanceled") ELSE evs

CurrentProject == ProjectOf[current.step]

(* decrementActiveBuildSteps of the current step's project. *)
Decremented == [active EXCEPT ![CurrentProject] = @ - 1]

-----------------------------------------------------------------------------
(* clearBuildQueue, entered with the counters act. *)
ClearBuildQueue(act) ==
    /\ active' = [p \in Projects |-> act[p] - Count(queue, p)]
    /\ queue' = <<>>
    /\ configurations' = <<>>
    /\ running' = FALSE
    /\ progressFuture' = "none"
    /\ maxProgress' = 0
    /\ BuildQueueFinished(FALSE)
    /\ Signal(FALSE, active')

(* nextStep with something in the queue: init() in the GUI thread, then    *)
(* run() in a worker whose future m_watcher watches from now on.           *)
BeginStep(q, cs, evs) ==
    /\ current' = [step |-> Head(q), config |-> Head(cs)]
    /\ queue' = Tail(q)
    /\ configurations' = Tail(cs)
    /\ watched' = [phase |-> "running", result |-> FALSE]
    /\ orphans' = IF watched.phase = "running" THEN orphans + 1 ELSE orphans
    /\ events' = Without(evs, "finished")
    /\ UNCHANGED gui

(* The same when init() fails: cancel() is called, which waits below. *)
RefuseStep(q, cs, evs) ==
    /\ current' = [step |-> Head(q), config |-> Head(cs)]
    /\ queue' = Tail(q)
    /\ configurations' = Tail(cs)
    /\ canceling' = TRUE
    /\ gui' = "cancelInit"
    /\ events' = evs
    /\ UNCHANGED <<watched, orphans>>

(* Faulty variant: m_progressFutureInterface dangles after a success. *)
EndOfQueueKeepsProgress(act) ==
    /\ running' = FALSE
    /\ maxProgress' = 0
    /\ BuildQueueFinished(TRUE)
    /\ Signal(FALSE, act)
    /\ UNCHANGED progressFuture

(* nextStep with an empty queue: the build is over, with success. *)
EndOfQueue(act) ==
    /\ running' = FALSE
    /\ progressFuture' = "none"
    /\ maxProgress' = 0
    /\ BuildQueueFinished(TRUE)
    /\ Signal(FALSE, act)

-----------------------------------------------------------------------------
(* buildProjects, cleanProjects, buildProject, cleanProject and appendStep *)
(* append the steps of a request and call startBuildQueue.                 *)

Appended(r) ==
    /\ maxProgress + Len(r) <= MaxSteps
    /\ Len(events) < MaxEvents
    /\ active' = [p \in Projects |-> active[p] + Count(StepsIn(r), p)]

(* buildStateChanged is emitted for each project that was not building. *)
SignalAppended(r) ==
    IF \E p \in Projects : active[p] = 0 /\ active'[p] > 0
    THEN Signal(TRUE, active')
    ELSE UNCHANGED seen

RequestWhileRunning(r) ==
    /\ gui = "loop"
    /\ running
    /\ Appended(r)
    /\ queue' = queue \o StepsIn(r)
    /\ configurations' = configurations \o ConfigsIn(r)
    /\ maxProgress' = maxProgress + Len(r)
    /\ SignalAppended(r)
    /\ UNCHANGED <<running, current, canceling, progress, progressFuture,
                   watched, orphans, events, gui, report>>

(* Faulty variant: startBuildQueue leaves m_canceling as cancel() set it. *)
CancelingStays == canceling' = canceling

(* startBuildQueue: m_canceling is for the former build. *)
ResetCanceling == canceling' = FALSE

(* Faulty variant: m_progressWatcher stays with the former build's future. *)
WatchFormerProgress(evs) == evs

(* The progress watcher gets a new future, so a cancellation of the former *)
(* build that is still posted is dropped.                                  *)
WatchProgress(evs) == Without(evs, "progressCanceled")

RequestWhenIdle(r) ==
    /\ gui = "loop"
    /\ ~running
    /\ queue \o StepsIn(r) # <<>>
    /\ Appended(r)
    /\ running' = TRUE
    /\ progress' = 0
    /\ maxProgress' = maxProgress + Len(r)
    /\ progressFuture' = "started"
    /\ SignalAppended(r)
    /\ LET q == queue \o StepsIn(r)
           cs == configurations \o ConfigsIn(r)
           evs == WatchProgress(events)
       IN  \/ BeginStep(q, cs, evs) /\ ResetCanceling
           \/ RefuseStep(q, cs, evs)
    /\ UNCHANGED report

(* Nothing to build: startBuildQueue sets the build up and nextStep ends   *)
(* it.  Its setFuture is the progress watcher's only, not m_watcher's.     *)
RequestNothing(r) ==
    /\ gui = "loop"
    /\ ~running
    /\ queue \o StepsIn(r) = <<>>
    /\ Appended(r)
    /\ ResetCanceling
    /\ progress' = 0
    /\ events' = WatchProgress(events)
    /\ EndOfQueue(active)
    /\ UNCHANGED <<queue, configurations, current, watched, orphans, gui>>

-----------------------------------------------------------------------------
(* Faulty variant: m_canceling is not set. *)
CancelUnmarked ==
    /\ gui' = "cancel"
    /\ UNCHANGED canceling

(* cancel() of a running build, up to the wait for its worker. *)
Cancel ==
    /\ canceling' = TRUE
    /\ gui' = "cancel"

(* It is called from the menu, while isBuilding() ... *)
CancelBuild ==
    /\ gui = "loop"
    /\ IsBuilding
    /\ running
    /\ Cancel
    /\ UNCHANGED <<queue, configurations, running, current, active, progress,
                   maxProgress, progressFuture, watched, orphans, events,
                   report, seen>>

(* ... or from the button of the progress widget, which cancels the future *)
(* and so posts canceled() to m_progressWatcher.                           *)
CancelInProgressWidget ==
    /\ gui = "loop"
    /\ progressFuture = "started"
    /\ progressFuture' = "canceled"
    /\ events' = Append(events, "progressCanceled")
    /\ UNCHANGED <<queue, configurations, running, current, active, canceling,
                   progress, maxProgress, watched, orphans, gui, report, seen>>

(* Faulty variants of the wait: none at all, and one for finished() to be  *)
(* delivered, which the blocked event loop can not do.                     *)
NoWait == TRUE
WaitForSignal ==
    watched.phase # "running" /\ ~Posted(events, "finished")

(* What m_watcher.waitForFinished() waits for. *)
WaitForFinished == watched.phase # "running"

(* Faulty variant: the message is emitted at once, ahead of the output. *)
CancelMessage(evs) == evs

(* The timer of emitCancelMessage. *)
SingleShotCancelMessage(evs) == Append(evs, "cancelMessage")

(* waitForFinished returned: the rest of cancel().  The message comes from *)
(* a timer so that it follows the output the worker has posted.            *)
CancelFinished ==
    /\ gui \in {"cancel", "cancelInit"}
    /\ WaitForFinished
    /\ ClearBuildQueue(Decremented)
    /\ events' = ReportCanceled(SingleShotCancelMessage(events))
    /\ gui' = "loop"
    /\ UNCHANGED <<current, canceling, progress, watched, orphans>>

-----------------------------------------------------------------------------
(* The worker: BuildStep::run through QtConcurrent (external).  Its output *)
(* is a queued signal; when it returns, finished() of m_watcher is posted. *)

WorkerOutput ==
    /\ watched.phase = "running"
    /\ Len(events) < MaxEvents
    /\ events' = Append(events, "output")
    /\ UNCHANGED <<mvars, watched, orphans, gui, report, seen>>

WorkerReturns(ok) ==
    /\ watched.phase = "running"
    /\ watched' = [phase |-> "finished", result |-> ok]
    /\ events' = Append(events, "finished")
    /\ UNCHANGED <<mvars, orphans, gui, report, seen>>

-----------------------------------------------------------------------------
(* Posted events, delivered by the event loop of the GUI thread. *)

Deliver(kind) ==
    /\ gui = "loop"
    /\ events # <<>>
    /\ Head(events) = kind

(* addToOutputWindow, emitCancelMessage: text in the output pane. *)
DeliverText ==
    /\ \E kind \in {"output", "cancelMessage", "removed"} : Deliver(kind)
    /\ events' = Tail(events)
    /\ UNCHANGED <<mvars, watched, orphans, gui, report, seen>>

(* canceled() of m_progressWatcher is connected to cancel(). *)
DeliverProgressCanceled ==
    /\ Deliver("progressCanceled")
    /\ events' = Tail(events)
    /\ IF running THEN Cancel ELSE UNCHANGED <<canceling, gui>>
    /\ UNCHANGED <<queue, configurations, running, current, active, progress,
                   maxProgress, progressFuture, watched, orphans, report,
                   seen>>

(* finished() of m_watcher is connected to nextBuildQueue. *)
NextBuildQueueIgnored ==
    /\ Deliver("finished")
    /\ canceling
    /\ events' = Tail(events)
    /\ UNCHANGED <<mvars, watched, orphans, gui, report, seen>>

(* m_progressFutureInterface is dereferenced although it is null. *)
NextBuildQueueCrashes ==
    /\ Deliver("finished")
    /\ ~canceling
    /\ progressFuture = "none"
    /\ events' = Tail(events)
    /\ gui' = "crashed"
    /\ UNCHANGED <<mvars, watched, orphans, report, seen>>

(* Faulty variants: the counter stands still, or runs backwards. *)
StepNotCounted ==
    /\ Deliver("finished")
    /\ ~canceling
    /\ progressFuture # "none"
    /\ UNCHANGED progress
StepCountedDown ==
    /\ Deliver("finished")
    /\ ~canceling
    /\ progressFuture # "none"
    /\ progress' = progress - 1

(* The common part of nextBuildQueue. *)
StepDone ==
    /\ Deliver("finished")
    /\ ~canceling
    /\ progressFuture # "none"
    /\ progress' = progress + 1

(* buildStateChanged for the current project, m_running being still set. *)
SignalDecremented ==
    IF active[CurrentProject] = 1 THEN Signal(TRUE, Decremented)
    ELSE UNCHANGED seen

NextBuildQueueNext ==
    /\ StepDone
    /\ watched.result
    /\ queue # <<>>
    /\ active' = Decremented
    /\ SignalDecremented
    /\ \/ BeginStep(queue, configurations, Tail(events)) /\ UNCHANGED canceling
       \/ RefuseStep(queue, configurations, Tail(events))
    /\ UNCHANGED <<running, maxProgress, progressFuture, report>>

NextBuildQueueSucceeds ==
    /\ StepDone
    /\ watched.result
    /\ queue = <<>>
    /\ active' = Decremented
    /\ EndOfQueue(Decremented)
    /\ events' = Tail(events)
    /\ UNCHANGED <<queue, configurations, current, canceling, watched,
                   orphans, gui>>

NextBuildQueueFails ==
    /\ StepDone
    /\ ~watched.result
    /\ ClearBuildQueue(Decremented)
    /\ events' = ReportCanceled(Tail(events))
    /\ UNCHANGED <<current, canceling, watched, orphans, gui>>

NextBuildQueue ==
    \/ NextBuildQueueIgnored
    \/ NextBuildQueueCrashes
    \/ NextBuildQueueNext
    \/ NextBuildQueueSucceeds
    \/ NextBuildQueueFails

-----------------------------------------------------------------------------
Init ==
    /\ queue = <<>>
    /\ configurations = <<>>
    /\ running = FALSE
    /\ current = NoEntry
    /\ active = [p \in Projects |-> 0]
    /\ canceling = FALSE
    /\ progress = 0
    /\ maxProgress = 0
    /\ progressFuture = "none"
    /\ watched = [phase |-> "none", result |-> FALSE]
    /\ orphans = 0
    /\ events = <<>>
    /\ gui = "loop"
    /\ report = [turn |-> 0, ok |-> FALSE]
    /\ seen = [building |-> FALSE, projects |-> {}]

Request(r) ==
    \/ RequestWhileRunning(r)
    \/ RequestWhenIdle(r)
    \/ RequestNothing(r)

User ==
    \/ \E r \in Requests : Request(r)
    \/ CancelBuild
    \/ CancelInProgressWidget

Worker ==
    \/ WorkerOutput
    \/ \E ok \in BOOLEAN : WorkerReturns(ok)

EventLoop ==
    \/ DeliverText
    \/ DeliverProgressCanceled
    \/ NextBuildQueue

Next == User \/ CancelFinished \/ Worker \/ EventLoop

Spec == Init /\ [][Next]_vars

(* The GUI thread runs: its event loop delivers what is posted and a wait  *)
(* that is over returns.  BuildStep::run returns; when the build is        *)
(* cancelled AbstractProcessStep::checkForCancel sees to it, and otherwise *)
(* it is an assumption about the process the step runs.                    *)
Fairness ==
    /\ WF_vars(EventLoop)
    /\ WF_vars(CancelFinished)
    /\ WF_vars(\E ok \in BOOLEAN : WorkerReturns(ok))

FairSpec == Spec /\ Fairness

-----------------------------------------------------------------------------
(* Properties *)

(* buildmanager.cpp decides by m_activeBuildSteps whether a project is     *)
(* being built: the counter of a project is the number of its steps that   *)
(* are queued, plus one while its step is the current one of a build.      *)
ActiveCount ==
    \A p \in Projects :
        active[p] = Count(queue, p)
                    + (IF running /\ CurrentProject = p THEN 1 ELSE 0)

(* The two parallel lists stay in step, nothing is queued between builds,  *)
(* and during one there is a current step.                                 *)
QueueInStep ==
    /\ Len(queue) = Len(configurations)
    /\ ~running => queue = <<>>
    /\ running => current # NoEntry

(* The progress bar's maximum is what is done, the current step and what   *)
(* is queued, also after more steps joined a build that is going on.       *)
ProgressCount == running => maxProgress = progress + 1 + Len(queue)

(* No BuildStep::run is ever started while another one still executes, and *)
(* none executes when no build is going on: cancel() waited for it.        *)
OneWorker ==
    /\ orphans = 0
    /\ watched.phase = "running" => running

(* A finished() that nextBuildQueue would act on is the one of the current *)
(* step, whose result can be read, and there are not two of them.  After   *)
(* the end of a cancelled build it would not be: only an empty request,    *)
(* which is reported as a success, uncovers it (NextBuildQueueCrashes).    *)
FinishedIsCurrent ==
    /\ ~canceling /\ Posted(events, "finished")
           => IF running THEN watched.phase = "finished" ELSE report.ok
    /\ AtMostOne(events, "finished")

(* m_progressFutureInterface is a live object exactly during a build.      *)
ProgressAlive == running <=> progressFuture # "none"

(* A cancellation that waits in the event queue while a build is going on  *)
(* was asked for this build, never for one that is over.                   *)
CancelIsCurrent ==
    running /\ Posted(events, "progressCanceled") => progressFuture = "canceled"

(* cancel(): "the canceling is likely to have generated new                *)
(* addToOutputWindow signals ... we want those to be before the cancel     *)
(* message": between builds, output that waits is followed by one.         *)
CancelMessageLast ==
    ~running => \A i \in DOMAIN events : events[i] = "output" =>
        \E j \in DOMAIN events : j > i /\ events[j] = "cancelMessage"

(* Whoever recomputes its state in the slots of buildStateChanged and      *)
(* buildQueueFinished is up to date whenever the event loop runs: nothing  *)
(* that isBuilding() answers changes without a signal after it.            *)
SignalledState ==
    gui = "loop" =>
        seen = [building |-> IsBuilding,
                projects |-> {p \in Projects : active[p] > 0}]

(* The three together, between any two events of the GUI thread.           *)
AccountsRight == ActiveCount /\ ProgressCount /\ SignalledState

(* A step can only be canceled, or lead to the next one, or end the build: *)
(* no build step keeps the build waiting after its run() returned.         *)
StepEnds ==
    \A k \in 0..MaxSteps :
        (running /\ progress = k) ~> (~running \/ progress # k)

(* cancel() comes back: the GUI thread does not block for ever.            *)
CancelReturns == (gui = "cancel") ~> (gui = "loop")

(* The build manager implements the service its users rely on: what of it  *)
(* they see of the queue and of the current step.                          *)
PendingEntries ==
    [i \in DOMAIN queue |-> [step |-> queue[i], config |-> configurations[i]]]
CurrentEntry == IF running THEN current ELSE NoEntry
CurrentOutcome ==
    IF ~running THEN "none"
    ELSE IF gui = "cancelInit" THEN "failed"
    ELSE IF watched.phase = "running" THEN "executing"
    ELSE IF watched.result THEN "succeeded" ELSE "failed"

Service == INSTANCE BuildService WITH
    pending <- PendingEntries, current <- CurrentEntry, outcome <- CurrentOutcome

ImplementsService == Service!Spec
=============================================================================
