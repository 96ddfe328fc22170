---------------------------- MODULE PluginManager ----------------------------
(***************************************************************************)
(* ExtensionSystem::PluginManager and PluginSpec: how the plugins of the   *)
(* IDE are resolved, ordered, loaded, initialized, stopped and deleted.    *)
(*                                                                         *)
(* loadQueue(spec) is recursive in the code; here its call stack is a      *)
(* variable and one step is what one activation does up to its next call   *)
(* or return.  The loops of loadPlugins and stopAll take one spec a step.  *)
(*                                                                         *)
(* Names and versions are abstracted: a <dependency> is the plugin that    *)
(* provides() it, or Missing.  What a plugin's own library and initialize  *)
(* do (external) is whether they fail.                                     *)
(***************************************************************************)
EXTENDS Integers, Sequences, FiniteSets

CONSTANTS
    Plugins,
    Missing,        \* a dependency that no spec provides
    PluginSpecs,    \* the specs that are found, sorted by name
    Dependencies    \* the dependency lists a spec file may have

ASSUME PluginsAssumption ==
    /\ Missing \notin Plugins
    /\ PluginSpecs \in Seq(Plugins)
    /\ \A i, j \in DOMAIN PluginSpecs : PluginSpecs[i] = PluginSpecs[j] => i = j
    /\ Dependencies \subseteq Seq(Plugins \cup {Missing})

ASSUME PluginsFinite == IsFiniteSet(Plugins)

VARIABLES
    dependencies,   \* dependencies of each spec, as read from its file
    broken,         \* what goes wrong in each plugin's library, if it is used
    pluginSpecs,    \* pluginSpecs
    dependencySpecs,\* dependencySpecs of each spec
    state,          \* PluginSpec::State of each spec
    hasError,       \* the specs with hasError
    plugins,        \* the specs whose plugin instance exists
    refresh,        \* m_isDependencyRefreshNeeded of the options parser
    phase,          \* which loop the plugin manager is in
    rest,           \* what is left of the list the loop runs through
    queue,          \* the load queue that is built or used
    stack,          \* activations of loadQueue(spec), the last is running
    circularityCheckQueue

vars == <<dependencies, broken, pluginSpecs, dependencySpecs, state, hasError,
          plugins, refresh, phase, rest, queue, stack, circularityCheckQueue>>
inputs == <<dependencies, broken>>
options == <<pluginSpecs, dependencySpecs, refresh>>

State == {"Read", "Resolved", "Loaded", "Initialized", "Running", "Stopped",
          "Deleted"}
Phase == {"start", "options", "loadQueue", "Loaded", "Initialized", "Running",
          "up", "stopQueue", "Stopped", "Deleted", "down"}
Frame == [spec : Plugins, next : Nat \ {0}]

TypeOK ==
    /\ dependencies \in [Plugins -> Seq(Plugins \cup {Missing})]
    /\ broken \in [Plugins -> {"nothing", "library", "initialize"}]
    /\ pluginSpecs \in Seq(Plugins)
    /\ dependencySpecs \in [Plugins -> Seq(Plugins)]
    /\ state \in [Plugins -> State]
    /\ hasError \in SUBSET Plugins
    /\ plugins \in SUBSET Plugins
    /\ refresh \in BOOLEAN
    /\ phase \in Phase
    /\ rest \in Seq(Plugins)
    /\ queue \in Seq(Plugins)
    /\ stack \in Seq(Frame)
    /\ circularityCheckQueue \in SUBSET Plugins

Contains(seq, p) == \E i \in DOMAIN seq : seq[i] = p
Elements(seq) == {seq[i] : i \in DOMAIN seq}
Removed(seq, i) ==
    [j \in 1..(Len(seq) - 1) |-> IF j < i THEN seq[j] ELSE seq[j + 1]]
Reversed(seq) == [i \in DOMAIN seq |-> seq[Len(seq) + 1 - i]]

-----------------------------------------------------------------------------
(* Reading the specs, the command line, and the dependencies *)

(* Each dependency of p is provided by one of these specs. *)
Provided(p, specs) ==
    \A i \in DOMAIN dependencies[p] : Contains(specs, dependencies[p][i])

(* The specs that resolveDependencies gets to: the others have an error or *)
(* were deleted.                                                           *)
Resolving(specs) == {p \in Elements(specs) : p \notin hasError}

(* resolveDependencies of every spec.  What it found before stays in       *)
(* dependencySpecs when it does not succeed this time.                     *)
ResolveDependencies(specs) ==
    LET resolved == {p \in Resolving(specs) : Provided(p, specs)}
        failed == Resolving(specs) \ resolved
    IN  /\ state' = [p \in Plugins |->
                        IF p \in resolved THEN "Resolved"
                        ELSE IF p \in failed THEN "Read" ELSE state[p]]
        /\ hasError' = hasError \cup failed
        /\ dependencySpecs' = [p \in Plugins |->
                IF p \in resolved THEN dependencies[p] ELSE dependencySpecs[p]]

SetPluginPaths ==
    /\ phase = "start"
    /\ pluginSpecs' = PluginSpecs
    /\ ResolveDependencies(PluginSpecs)
    /\ phase' = "options"
    /\ UNCHANGED <<inputs, plugins, refresh, rest, queue, stack,
                   circularityCheckQueue>>

(* The option -noload p: the spec is deleted. *)
NoLoadOption(p) ==
    /\ phase = "options"
    /\ \E i \in DOMAIN pluginSpecs :
          /\ pluginSpecs[i] = p
          /\ pluginSpecs' = Removed(pluginSpecs, i)
    /\ refresh' = TRUE
    /\ UNCHANGED <<inputs, dependencySpecs, state, hasError, plugins, phase,
                   rest, queue, stack, circularityCheckQueue>>

(* loadQueue() starts: it calls loadQueue(spec) for each spec. *)
StartLoadQueue(next) ==
    /\ phase' = next
    /\ rest' = pluginSpecs
    /\ queue' = <<>>
    /\ stack' = <<>>
    /\ circularityCheckQueue' = {}

(* Faulty variant: the dependencies are not resolved again after -noload.  *)
KeepDependencies == UNCHANGED <<state, hasError, dependencySpecs>>

(* The end of parse(). *)
RefreshDependencies ==
    IF refresh
    THEN ResolveDependencies(pluginSpecs)
    ELSE UNCHANGED <<state, hasError, dependencySpecs>>

(* After the options come loadPlugins, or the end of the program when they *)
(* are wrong or ask for nothing else.                                      *)
ParseOptions ==
    /\ phase = "options"
    /\ RefreshDependencies
    /\ \E next \in {"loadQueue", "stopQueue"} : StartLoadQueue(next)
    /\ UNCHANGED <<inputs, plugins, pluginSpecs, refresh>>

-----------------------------------------------------------------------------
(* loadQueue(spec, queue, circularityCheckQueue) *)

Queueing == phase \in {"loadQueue", "stopQueue"}
Unresolved(p) == state[p] = "Read"
Top == stack[Len(stack)]
Below(s) == SubSeq(s, 1, Len(s) - 1)

(* The running activation goes on after a call that returned true. *)
Returned(s) ==
    IF s = <<>> THEN s ELSE [s EXCEPT ![Len(s)].next = @ + 1]

(* loadQueue() calls it for the next spec of the list ... *)
CallFromList(p) ==
    /\ Queueing
    /\ stack = <<>>
    /\ rest # <<>>
    /\ p = Head(rest)

(* ... and an activation for the next dependency of its spec. *)
CallFromSpec(p) ==
    /\ Queueing
    /\ stack # <<>>
    /\ Top.next <= Len(dependencySpecs[Top.spec])
    /\ p = dependencySpecs[Top.spec][Top.next]

Call(p) ==
    \/ CallFromList(p) /\ rest' = Tail(rest)
    \/ CallFromSpec(p) /\ UNCHANGED rest

(* Faulty variant: a circle is taken for a dependency that is met. *)
KnownOrVisited(p) == Contains(queue, p) \/ p \in circularityCheckQueue

Known(p) == Contains(queue, p)

LoadQueueKnown(p) ==
    /\ Call(p)
    /\ Known(p)
    /\ stack' = Returned(stack)
    /\ UNCHANGED <<inputs, options, state, hasError, plugins, phase, queue,
                   circularityCheckQueue>>

(* A circle, or a spec without its dependencies: false is returned, and by *)
(* every caller too, each noting the error.                                *)
LoadQueueFails(p) ==
    /\ Call(p)
    /\ ~Known(p)
    /\ p \in circularityCheckQueue \/ Unresolved(p)
    /\ hasError' = hasError \cup {p} \cup {stack[i].spec : i \in DOMAIN stack}
    /\ stack' = <<>>
    /\ circularityCheckQueue' = {}
    /\ UNCHANGED <<inputs, options, state, plugins, phase, queue>>

Visit(p) == circularityCheckQueue' = circularityCheckQueue \cup {p}

(* Faulty variant: the dependencies are counted from 0. *)
ActivationFromZero(p) == [spec |-> p, next |-> 0]

Activation(p) == [spec |-> p, next |-> 1]

LoadQueueEnters(p) ==
    /\ Call(p)
    /\ ~Known(p)
    /\ p \notin circularityCheckQueue
    /\ ~Unresolved(p)
    /\ Visit(p)
    /\ stack' = Append(stack, Activation(p))
    /\ UNCHANGED <<inputs, options, state, hasError, plugins, phase, queue>>

(* All dependencies are in the queue: the spec itself is added. *)
LoadQueueAddsSelf ==
    /\ Queueing
    /\ stack # <<>>
    /\ Top.next > Len(dependencySpecs[Top.spec])
    /\ queue' = Append(queue, Top.spec)
    /\ stack' = Returned(Below(stack))
    /\ circularityCheckQueue' =
           IF Len(stack) = 1 THEN {} ELSE circularityCheckQueue
    /\ UNCHANGED <<inputs, options, state, hasError, plugins, phase, rest>>

(* The queue is complete. *)
LoadQueueEnds ==
    /\ Queueing
    /\ stack = <<>>
    /\ rest = <<>>
    /\ phase' = IF phase = "loadQueue" THEN "Loaded" ELSE "Stopped"
    /\ rest' = queue
    /\ UNCHANGED <<inputs, options, state, hasError, plugins, queue, stack,
                   circularityCheckQueue>>

LoadQueue ==
    \/ \E p \in Plugins :
          LoadQueueKnown(p) \/ LoadQueueFails(p) \/ LoadQueueEnters(p)
    \/ LoadQueueAddsSelf
    \/ LoadQueueEnds

-----------------------------------------------------------------------------
(* loadPlugin(spec, destState), with the loop's phase as destState *)

SetState(p, s) == state' = [state EXCEPT ![p] = s]
SetError(p) == hasError' = hasError \cup {p}

(* Faulty variant: the dependencies' state is not looked at. *)
DependenciesIgnored(p) == TRUE

DependenciesReached(p) ==
    \A i \in DOMAIN dependencySpecs[p] : state[dependencySpecs[p][i]] = phase

(* The common shape of the next three: nothing to do, an error, or success. *)
Advance(p, from, to, fails) ==
    IF state[p] = to THEN UNCHANGED <<state, hasError>>
    ELSE IF state[p] # from \/ fails THEN SetError(p) /\ UNCHANGED state
    ELSE SetState(p, to) /\ UNCHANGED hasError

LoadLibrary(p) ==
    /\ Advance(p, "Resolved", "Loaded", broken[p] = "library")
    /\ plugins' = plugins \cup {q \in {p} : state'[q] = "Loaded"}

InitializePlugin(p) ==
    /\ Advance(p, "Loaded", "Initialized",
               p \notin plugins \/ broken[p] = "initialize")
    /\ UNCHANGED plugins

InitializeExtensions(p) ==
    /\ Advance(p, "Initialized", "Running", p \notin plugins)
    /\ UNCHANGED plugins

Stop(p) ==
    IF p \notin plugins
    THEN UNCHANGED <<state, hasError, plugins>>
    ELSE SetState(p, "Stopped") /\ UNCHANGED <<hasError, plugins>>

Kill(p) ==
    IF p \notin plugins
    THEN UNCHANGED <<state, hasError, plugins>>
    ELSE /\ SetState(p, "Deleted")
         /\ plugins' = plugins \ {p}
         /\ UNCHANGED hasError

NextInLoop(p) ==
    /\ phase \in {"Loaded", "Initialized", "Running", "Stopped", "Deleted"}
    /\ rest # <<>>
    /\ p = Head(rest)
    /\ rest' = Tail(rest)
    /\ UNCHANGED <<inputs, options, phase, queue, stack, circularityCheckQueue>>

LoadPluginSkips(p) ==
    /\ NextInLoop(p)
    /\ p \in hasError
    /\ UNCHANGED <<state, hasError, plugins>>

LoadPluginWithoutDependencies(p) ==
    /\ NextInLoop(p)
    /\ p \notin hasError
    /\ phase \in {"Loaded", "Initialized", "Stopped"}
    /\ ~DependenciesReached(p)
    /\ SetError(p)
    /\ UNCHANGED <<state, plugins>>

LoadPluginUp(p) ==
    /\ NextInLoop(p)
    /\ p \notin hasError
    /\ \/ phase = "Loaded" /\ DependenciesReached(p) /\ LoadLibrary(p)
       \/ phase = "Initialized" /\ DependenciesReached(p) /\ InitializePlugin(p)
       \/ phase = "Running" /\ InitializeExtensions(p)

LoadPluginDown(p) ==
    /\ NextInLoop(p)
    /\ p \notin hasError
    /\ \/ phase = "Stopped" /\ DependenciesReached(p) /\ Stop(p)
       \/ phase = "Deleted" /\ Kill(p)

(* Faulty variant: the list runs forwards. *)
Forwards == queue

(* extensionsInitialized() and the deletions go from the back. *)
ExtensionsOrder == Reversed(queue)
DeleteOrder == Reversed(queue)

(* The loops of loadPlugins and stopAll, one after the other. *)
LoopEnds ==
    /\ rest = <<>>
    /\ \/ phase = "Loaded" /\ phase' = "Initialized" /\ rest' = queue
       \/ phase = "Initialized" /\ phase' = "Running" /\ rest' = ExtensionsOrder
       \/ phase = "Running" /\ phase' = "up" /\ UNCHANGED rest
       \/ phase = "Stopped" /\ phase' = "Deleted" /\ rest' = DeleteOrder
       \/ phase = "Deleted" /\ phase' = "down" /\ UNCHANGED rest
    /\ UNCHANGED <<inputs, options, state, hasError, plugins, queue, stack,
                   circularityCheckQueue>>

(* The application ends: ~PluginManagerPrivate calls stopAll. *)
StopAll ==
    /\ phase = "up"
    /\ StartLoadQueue("stopQueue")
    /\ UNCHANGED <<inputs, options, state, hasError, plugins>>

LoadPlugin ==
    \/ \E p \in Plugins :
          \/ LoadPluginSkips(p)
          \/ LoadPluginWithoutDependencies(p)
          \/ LoadPluginUp(p)
          \/ LoadPluginDown(p)
    \/ LoopEnds

-----------------------------------------------------------------------------
Init ==
    /\ dependencies \in [Plugins -> Dependencies]
    /\ broken \in [Plugins -> {"nothing", "library", "initialize"}]
    /\ pluginSpecs = <<>>
    /\ dependencySpecs = [p \in Plugins |-> <<>>]
    /\ state = [p \in Plugins |-> "Read"]
    /\ hasError = {}
    /\ plugins = {}
    /\ refresh = FALSE
    /\ phase = "start"
    /\ rest = <<>>
    /\ queue = <<>>
    /\ stack = <<>>
    /\ circularityCheckQueue = {}

Next ==
    \/ SetPluginPaths
    \/ \E p \in Plugins : NoLoadOption(p)
    \/ ParseOptions
    \/ LoadQueue
    \/ LoadPlugin
    \/ StopAll

Spec == Init /\ [][Next]_vars

-----------------------------------------------------------------------------
(* Properties *)

(* iplugin.cpp: libraries are loaded and plugins initialized "in           *)
(* 'root-to-leaf' order": whatever is in the queue comes after all of its  *)
(* dependencies, and comes only once.                                      *)
QueueSorted ==
    \A i \in DOMAIN queue :
        /\ \A k \in DOMAIN dependencySpecs[queue[i]] :
               \E j \in 1..(i - 1) : queue[j] = dependencySpecs[queue[i]][k]
        /\ \A j \in 1..(i - 1) : queue[j] # queue[i]

Up == {"Initialized", "Running"}

(* A plugin is initialized only after, and shut down only after, all those *)
(* it depends on, and is told of it only after those that depend on it:    *)
(* IPlugin::extensionsInitialized, "the plugin can assume that plugins     *)
(* that depend on this plugin are fully 'up and running'".                 *)
LifecycleOrder ==
    \A p \in Elements(pluginSpecs) : \A d \in Elements(dependencySpecs[p]) :
        /\ state[p] \in Up => state[d] \in Up \cup {"Stopped"}
        /\ state[p] = "Stopped" => state[d] = "Stopped"
        /\ state[d] = "Running" /\ p \notin hasError => state[p] = "Running"

(* No pointer of a spec that is used leads to one that was deleted.        *)
QueueAlive ==
    \A i \in DOMAIN queue :
        /\ Contains(pluginSpecs, queue[i])
        /\ Elements(dependencySpecs[queue[i]]) \subseteq Elements(pluginSpecs)

(* The plugins that ought to run: the least set that has, with a plugin,   *)
(* all it depends on, and no plugin that fails by itself.                  *)
Usable(specs) ==
    LET usable[n \in 0..Cardinality(Plugins)] ==
            IF n = 0 THEN {}
            ELSE {p \in Elements(specs) :
                     /\ broken[p] = "nothing"
                     /\ Elements(dependencies[p]) \subseteq usable[n - 1]}
    IN  usable[Cardinality(Plugins)]

(* iplugin.cpp: "If library loading or initialization of a plugin fails,   *)
(* all plugins that depend on that plugin also fail", and nothing else     *)
(* does: of the plugins that were found and not deselected, exactly those  *)
(* run whose dependencies all run.                                         *)
RunningIsUsable ==
    phase = "up" => {p \in Plugins : state[p] = "Running"} = Usable(pluginSpecs)

(* Among the plugins without an error no instance outlives one that it     *)
(* depends on.  Those with an error, their own or that of a dependency,    *)
(* are not taken down at all: see InstancesInReverse.                      *)
DeletedInReverse ==
    \A p \in plugins \ hasError :
        Elements(dependencySpecs[p]) \subseteq plugins

(* iplugin.cpp: shutdown() is called "before the plugins get deleted in    *)
(* reverse order", all of them: no instance at all outlives one that it    *)
(* depends on.  The code leaves those with an error alive, while what they *)
(* depend on is deleted and unloaded.                                      *)
InstancesInReverse ==
    \A p \in plugins : Elements(dependencySpecs[p]) \subseteq plugins

=============================================================================
