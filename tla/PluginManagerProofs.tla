------------------------- MODULE PluginManagerProofs -------------------------
(***************************************************************************)
(* For any number of plugins and any dependencies between them: the load   *)
(* queue is sorted by dependency and has no plugin twice (LoadOrder).      *)
(*                                                                         *)
(* The argument is the one a reader of loadQueue(spec) makes of its        *)
(* recursion.  Each activation knows that the dependencies before the one  *)
(* it looks at are in the queue; that one is the spec of the activation    *)
(* above it; and no spec of an activation is in the queue or has two       *)
(* activations, because each was entered with the check for circles.       *)
(*                                                                         *)
(* The second half is about what becomes of the plugins in the queue: no   *)
(* pointer in it dangles (QueueAlive), plugins are initialized, told       *)
(* of it and stopped in the order of their dependencies (LifecycleOrder),  *)
(* none outlives what it depends on (DeletedInReverse), and exactly those  *)
(* run that ought to (RunningIsUsable).                                    *)
(*                                                                         *)
(* The loops of loadPlugins and stopAll are why it holds: each goes        *)
(* through the whole sorted queue, so it is known, place by place, what    *)
(* the plugins before and after the one it is at have become (Progress).   *)
(* Shutting down builds a second queue.  That it has all plugins that run, *)
(* and that none of them gets an error while it is built, is because the   *)
(* first one shows that there is no circle among them (Sortable).          *)
(*                                                                         *)
(* The plugins that ought to run are a least fixed point.  An error only   *)
(* ever meets plugins outside it: what misses a dependency, what is broken *)
(* or waits for something outside, and circles, since without them the set *)
(* would still be a fixed point (NoneUsable).                              *)
(***************************************************************************)
EXTENDS PluginManager, InductionLemmas

(* Every activation but the last waits for the one above it. *)
StackWaits ==
    \A i \in 1..(Len(stack) - 1) :
        /\ stack[i].next \in DOMAIN dependencySpecs[stack[i].spec]
        /\ stack[i + 1].spec = dependencySpecs[stack[i].spec][stack[i].next]

(* Dependencies an activation has been through are in the queue. *)
StackDone ==
    \A i \in DOMAIN stack : \A k \in DOMAIN dependencySpecs[stack[i].spec] :
        k < stack[i].next =>
            Contains(queue, dependencySpecs[stack[i].spec][k])

(* The specs of the activations are new to the queue and to each other. *)
StackNew ==
    /\ \A i \in DOMAIN stack : /\ ~Contains(queue, stack[i].spec)
                               /\ stack[i].spec \in circularityCheckQueue
    /\ \A i, j \in DOMAIN stack : stack[i].spec = stack[j].spec => i = j

QueueInv ==
    /\ TypeOK
    /\ QueueSorted
    /\ StackWaits
    /\ StackDone
    /\ StackNew
    /\ phase \in {"start", "options"} => queue = <<>> /\ stack = <<>>

-----------------------------------------------------------------------------
(* What one append does to membership. *)
LEMMA ContainsAppend ==
    ASSUME NEW s \in Seq(Plugins), NEW p \in Plugins, NEW q
    PROVE  /\ Append(s, p) \in Seq(Plugins)
           /\ Len(Append(s, p)) = Len(s) + 1
           /\ Append(s, p)[Len(s) + 1] = p
           /\ \A i \in DOMAIN s : Append(s, p)[i] = s[i]
           /\ Contains(Append(s, p), q) <=> Contains(s, q) \/ q = p
<1>1. /\ Append(s, p) \in Seq(Plugins)
      /\ Len(Append(s, p)) = Len(s) + 1
      /\ Append(s, p)[Len(s) + 1] = p
      /\ \A i \in 1..Len(s) : Append(s, p)[i] = s[i]
  BY AppendProperties
<1>2. DOMAIN s = 1..Len(s) /\ Len(s) \in Nat
      /\ DOMAIN Append(s, p) = 1..(Len(s) + 1)
  BY <1>1
<1>3. ASSUME Contains(Append(s, p), q) PROVE Contains(s, q) \/ q = p
  <2>1. PICK i \in 1..(Len(s) + 1) : Append(s, p)[i] = q
    BY <1>2, <1>3 DEF Contains
  <2>2. CASE i = Len(s) + 1
    BY <1>1, <2>1, <2>2
  <2>3. CASE i \in 1..Len(s)
    BY <1>1, <1>2, <2>1, <2>3 DEF Contains
  <2> QED
    BY <1>2, <2>1, <2>2, <2>3
<1>4. ASSUME Contains(s, q) \/ q = p PROVE Contains(Append(s, p), q)
  <2>1. CASE q = p
    BY <1>1, <1>2, <2>1 DEF Contains
  <2>2. CASE Contains(s, q)
    <3>1. PICK i \in 1..Len(s) : s[i] = q
      BY <1>2, <2>2 DEF Contains
    <3>2. i \in 1..(Len(s) + 1) /\ Append(s, p)[i] = q
      BY <1>1, <1>2, <3>1
    <3> QED
      BY <1>2, <3>2 DEF Contains
  <2> QED
    BY <1>4, <2>1, <2>2
<1> QED
  BY <1>1, <1>2, <1>3, <1>4

(* The activation that goes on, after one on top of it has returned. *)
LEMMA ReturnedFrames ==
    ASSUME NEW s \in Seq(Frame)
    PROVE  /\ Returned(s) \in Seq(Frame)
           /\ Len(Returned(s)) = Len(s)
           /\ \A i \in DOMAIN s : Returned(s)[i].spec = s[i].spec
           /\ \A i \in 1..(Len(s) - 1) : Returned(s)[i] = s[i]
           /\ s # <<>> => Returned(s)[Len(s)].next = s[Len(s)].next + 1
<1>1. CASE s = <<>>
  BY <1>1 DEF Returned
<1>2. CASE s # <<>>
  <2>1. Len(s) \in Nat /\ Len(s) >= 1 /\ DOMAIN s = 1..Len(s)
    BY <1>2
  <2>2. s[Len(s)] \in Frame
    BY <2>1
  <2>3. [s[Len(s)] EXCEPT !.next = @ + 1] \in Frame
    BY <2>2 DEF Frame
  <2>4. Returned(s) = [s EXCEPT ![Len(s)] = [s[Len(s)] EXCEPT !.next = @ + 1]]
    BY <1>2 DEF Returned
  <2>5. Returned(s) \in Seq(Frame) /\ Len(Returned(s)) = Len(s)
    BY <2>1, <2>3, <2>4, ExceptSeq
  <2>6. Returned(s)[Len(s)] = [s[Len(s)] EXCEPT !.next = @ + 1]
    BY <2>1, <2>4
  <2>7. \A i \in 1..(Len(s) - 1) : Returned(s)[i] = s[i]
    BY <2>1, <2>4
  <2>8. Returned(s)[Len(s)].spec = s[Len(s)].spec
        /\ Returned(s)[Len(s)].next = s[Len(s)].next + 1
    BY <2>2, <2>6 DEF Frame
  <2> QED
    BY <2>1, <2>5, <2>7, <2>8
<1> QED
  BY <1>1, <1>2

-----------------------------------------------------------------------------
(* The steps that leave the load queue and its construction alone. *)
LEMMA QueueUnchanged ==
    ASSUME QueueInv, TypeOK',
           UNCHANGED <<dependencySpecs, queue, stack, circularityCheckQueue>>,
           phase' \in {"start", "options"} => phase \in {"start", "options"}
    PROVE  QueueInv'
BY DEF QueueInv, QueueSorted, StackWaits, StackDone, StackNew, Contains

(* The steps after which both are empty. *)
LEMMA QueueEmpty ==
    ASSUME TypeOK', queue' = <<>>, stack' = <<>>
    PROVE  QueueInv'
<1>1. DOMAIN queue' = {} /\ DOMAIN stack' = {} /\ Len(stack') = 0
  OBVIOUS
<1>2. QueueSorted'
  BY <1>1 DEF QueueSorted
<1>3. StackWaits'
  BY <1>1 DEF StackWaits
<1>4. StackDone' /\ StackNew'
  BY <1>1 DEF StackDone, StackNew
<1> QED
  BY <1>2, <1>3, <1>4 DEF QueueInv

(* resolveDependencies only finds plugins. *)
LEMMA ResolveType ==
    ASSUME TypeOK, NEW specs \in Seq(Plugins), ResolveDependencies(specs)
    PROVE  /\ state' \in [Plugins -> State]
           /\ hasError' \in SUBSET Plugins
           /\ dependencySpecs' \in [Plugins -> Seq(Plugins)]
<1> DEFINE resolved == {p \in Resolving(specs) : Provided(p, specs)}
           failed == Resolving(specs) \ resolved
<1>1. Elements(specs) \subseteq Plugins
  BY DEF Elements
<1>2. resolved \subseteq Plugins /\ failed \subseteq Plugins
  BY <1>1 DEF Resolving
<1>3. state' \in [Plugins -> State]
  BY DEF ResolveDependencies, TypeOK, State
<1>4. hasError' \in SUBSET Plugins
  BY <1>2 DEF ResolveDependencies, TypeOK
<1>5. ASSUME NEW p \in resolved PROVE dependencies[p] \in Seq(Plugins)
  <2>1. dependencies[p] \in Seq(Plugins \cup {Missing})
    BY <1>2 DEF TypeOK
  <2>2. ASSUME NEW i \in DOMAIN dependencies[p]
        PROVE  dependencies[p][i] \in Plugins
    BY <1>5 DEF Provided, Contains
  <2>3. dependencies[p] \in [1..Len(dependencies[p]) -> Plugins]
        /\ Len(dependencies[p]) \in Nat
    BY <2>1, <2>2
  <2> QED
    BY <2>3, SeqDef
<1>6. dependencySpecs' = [p \in Plugins |->
            IF p \in resolved THEN dependencies[p] ELSE dependencySpecs[p]]
  BY DEF ResolveDependencies
<1>7. ASSUME NEW p \in Plugins
      PROVE  (IF p \in resolved THEN dependencies[p] ELSE dependencySpecs[p])
                \in Seq(Plugins)
  BY <1>5 DEF TypeOK
<1> HIDE DEF resolved
<1>8. dependencySpecs' \in [Plugins -> Seq(Plugins)]
  BY <1>6, <1>7
<1> QED
  BY <1>3, <1>4, <1>8

LEMMA SetPluginPathsInv ==
    ASSUME QueueInv, SetPluginPaths
    PROVE  QueueInv'
<1>1. PluginSpecs \in Seq(Plugins) /\ TypeOK
  BY PluginsAssumption DEF QueueInv
<1>2. /\ state' \in [Plugins -> State]
      /\ hasError' \in SUBSET Plugins
      /\ dependencySpecs' \in [Plugins -> Seq(Plugins)]
  BY <1>1, ResolveType DEF SetPluginPaths
<1>3. TypeOK'
  BY <1>1, <1>2 DEF TypeOK, SetPluginPaths, inputs, Phase
<1> QED
  BY <1>3, QueueEmpty DEF QueueInv, SetPluginPaths

LEMMA RemovedType ==
    ASSUME NEW s \in Seq(Plugins), NEW i \in DOMAIN s
    PROVE  Removed(s, i) \in Seq(Plugins)
<1>1. Len(s) \in Nat /\ Len(s) >= 1 /\ i \in 1..Len(s)
  OBVIOUS
<1>2. ASSUME NEW j \in 1..(Len(s) - 1)
      PROVE  (IF j < i THEN s[j] ELSE s[j + 1]) \in Plugins
  BY <1>1
<1>3. Removed(s, i) \in [1..(Len(s) - 1) -> Plugins] /\ Len(s) - 1 \in Nat
  BY <1>1, <1>2 DEF Removed
<1> QED
  BY <1>3, SeqDef

LEMMA NoLoadOptionInv ==
    ASSUME QueueInv, NEW p \in Plugins, NoLoadOption(p)
    PROVE  QueueInv'
<1>1. pluginSpecs' \in Seq(Plugins)
  BY RemovedType DEF NoLoadOption, QueueInv, TypeOK
<1>2. TypeOK'
  BY <1>1 DEF NoLoadOption, QueueInv, TypeOK, inputs
<1> QED
  BY <1>2, QueueUnchanged DEF NoLoadOption

LEMMA ParseOptionsInv ==
    ASSUME QueueInv, ParseOptions
    PROVE  QueueInv'
<1>1. pluginSpecs \in Seq(Plugins) /\ TypeOK
  BY DEF QueueInv, TypeOK
<1>2. /\ state' \in [Plugins -> State]
      /\ hasError' \in SUBSET Plugins
      /\ dependencySpecs' \in [Plugins -> Seq(Plugins)]
  <2>1. CASE ResolveDependencies(pluginSpecs)
    BY <1>1, <2>1, ResolveType
  <2>2. CASE UNCHANGED <<state, hasError, dependencySpecs>>
    BY <1>1, <2>2 DEF TypeOK
  <2> QED
    BY <2>1, <2>2 DEF ParseOptions, RefreshDependencies
<1>3. /\ phase' \in Phase /\ rest' = pluginSpecs
      /\ queue' = <<>> /\ stack' = <<>> /\ circularityCheckQueue' = {}
  BY DEF ParseOptions, StartLoadQueue, Phase
<1>4. TypeOK'
  BY <1>1, <1>2, <1>3 DEF TypeOK, ParseOptions, inputs
<1> QED
  BY <1>3, <1>4, QueueEmpty

LEMMA StopAllInv ==
    ASSUME QueueInv, StopAll
    PROVE  QueueInv'
<1>1. /\ phase' \in Phase /\ rest' = pluginSpecs
      /\ queue' = <<>> /\ stack' = <<>> /\ circularityCheckQueue' = {}
  BY DEF StopAll, StartLoadQueue, Phase
<1>2. TypeOK'
  BY <1>1 DEF TypeOK, StopAll, inputs, options, QueueInv
<1> QED
  BY <1>1, <1>2, QueueEmpty

-----------------------------------------------------------------------------
(* loadQueue(spec) *)

(* What the next call of loadQueue(spec) is for. *)
LEMMA CallType ==
    ASSUME TypeOK, NEW p \in Plugins, Call(p)
    PROVE  /\ rest' \in Seq(Plugins)
           /\ stack # <<>> => /\ Top \in Frame
                             /\ Top.next \in DOMAIN dependencySpecs[Top.spec]
                             /\ p = dependencySpecs[Top.spec][Top.next]
<1>1. rest' \in Seq(Plugins)
  <2>1. rest \in Seq(Plugins)
    BY DEF TypeOK
  <2>2. CASE rest # <<>> /\ rest' = Tail(rest)
    BY <2>1, <2>2, HeadTailProperties
  <2>3. CASE UNCHANGED rest
    BY <2>1, <2>3
  <2> QED
    BY <2>2, <2>3 DEF Call, CallFromList
<1>2. ASSUME stack # <<>>
      PROVE  /\ Top \in Frame
             /\ Top.next \in DOMAIN dependencySpecs[Top.spec]
             /\ p = dependencySpecs[Top.spec][Top.next]
  <2>1. CallFromSpec(p)
    BY <1>2 DEF Call, CallFromList
  <2>2. Top \in Frame
    BY <1>2 DEF Top, TypeOK
  <2>3. dependencySpecs[Top.spec] \in Seq(Plugins) /\ Top.next \in Nat \ {0}
    BY <2>2 DEF Frame, TypeOK
  <2> QED
    BY <2>1, <2>2, <2>3 DEF CallFromSpec
<1> QED
  BY <1>1, <1>2

(* The dependency is in the queue already: the activation goes on. *)
LEMMA LoadQueueKnownInv ==
    ASSUME QueueInv, NEW p \in Plugins, LoadQueueKnown(p)
    PROVE  QueueInv'
<1> USE DEF QueueInv
<1>1. /\ UNCHANGED <<dependencySpecs, queue, circularityCheckQueue, phase>>
      /\ stack' = Returned(stack) /\ stack \in Seq(Frame)
  BY DEF LoadQueueKnown, options, TypeOK
<1>2. /\ stack' \in Seq(Frame) /\ Len(stack') = Len(stack)
      /\ DOMAIN stack = 1..Len(stack) /\ Len(stack) \in Nat
      /\ DOMAIN stack' = 1..Len(stack)
      /\ \A i \in 1..Len(stack) : stack'[i].spec = stack[i].spec
      /\ \A i \in 1..(Len(stack) - 1) : stack'[i] = stack[i]
      /\ stack # <<>> => stack'[Len(stack)].next = stack[Len(stack)].next + 1
  BY <1>1, ReturnedFrames
<1>3. TypeOK'
  BY <1>1, <1>2, CallType DEF LoadQueueKnown, TypeOK, inputs, options
<1>4. QueueSorted'
  BY <1>1 DEF QueueSorted
<1>5. StackWaits'
  BY <1>1, <1>2 DEF StackWaits
<1>6. StackNew'
  <2>1. ASSUME NEW i \in DOMAIN stack'
        PROVE  ~Contains(queue', stack'[i].spec)
               /\ stack'[i].spec \in circularityCheckQueue'
    BY <1>1, <1>2, <2>1 DEF StackNew, Contains
  <2>2. ASSUME NEW i \in DOMAIN stack', NEW j \in DOMAIN stack',
               stack'[i].spec = stack'[j].spec
        PROVE  i = j
    BY <1>2, <2>2 DEF StackNew
  <2> QED
    BY <2>1, <2>2 DEF StackNew
<1>7. StackDone'
  <2> SUFFICES ASSUME NEW i \in DOMAIN stack',
                      NEW k \in DOMAIN dependencySpecs[stack'[i].spec],
                      k < stack'[i].next
               PROVE  Contains(queue, dependencySpecs[stack'[i].spec][k])
    BY <1>1 DEF StackDone, Contains
  <2>1. i \in DOMAIN stack /\ stack[i].spec = stack'[i].spec
    BY <1>2
  <2>2. CASE k < stack[i].next
    BY <2>1, <2>2 DEF StackDone
  <2>3. CASE ~(k < stack[i].next)
    <3>1. i = Len(stack) /\ stack # <<>>
      BY <1>2, <2>1, <2>3
    <3>2. stack[i] = Top /\ Top \in Frame
          /\ p = dependencySpecs[Top.spec][Top.next]
      BY <3>1, CallType DEF LoadQueueKnown, Top
    <3>3. k \in Nat
      <4>1. dependencySpecs[Top.spec] \in Seq(Plugins)
        BY <3>2 DEF TypeOK, Frame
      <4> QED
        BY <2>1, <3>2, <4>1
    <3>4. k = Top.next
      BY <1>2, <2>3, <3>1, <3>2, <3>3 DEF Frame
    <3> QED
      BY <2>1, <3>2, <3>4 DEF LoadQueueKnown, Known
  <2> QED
    BY <2>2, <2>3
<1> QED
  BY <1>1, <1>3, <1>4, <1>5, <1>6, <1>7 DEF LoadQueueKnown, Call, CallFromList,
     CallFromSpec, Queueing

LEMMA LoadQueueFailsInv ==
    ASSUME QueueInv, NEW p \in Plugins, LoadQueueFails(p)
    PROVE  QueueInv'
<1> USE DEF QueueInv
<1>1. /\ UNCHANGED <<dependencySpecs, queue, phase>>
      /\ stack' = <<>> /\ circularityCheckQueue' = {}
  BY DEF LoadQueueFails, options
<1>2. hasError' \in SUBSET Plugins
  <2>1. \A i \in DOMAIN stack : stack[i] \in Frame
    BY DEF TypeOK
  <2> QED
    BY <2>1 DEF LoadQueueFails, TypeOK, Frame
<1>3. TypeOK'
  BY <1>1, <1>2, CallType DEF LoadQueueFails, TypeOK, inputs, options
<1>4. QueueSorted'
  BY <1>1 DEF QueueSorted
<1>5. DOMAIN stack' = {} /\ Len(stack') = 0
  BY <1>1
<1>6. StackWaits' /\ StackDone' /\ StackNew'
  BY <1>5 DEF StackWaits, StackDone, StackNew
<1> QED
  BY <1>1, <1>3, <1>4, <1>6 DEF LoadQueueFails, Call, CallFromList,
     CallFromSpec, Queueing

(* A new activation: its spec was neither visited nor is it in the queue. *)
LEMMA LoadQueueEntersInv ==
    ASSUME QueueInv, NEW p \in Plugins, LoadQueueEnters(p)
    PROVE  QueueInv'
<1> USE DEF QueueInv
<1>1. /\ UNCHANGED <<dependencySpecs, queue, phase>>
      /\ stack' = Append(stack, [spec |-> p, next |-> 1])
      /\ circularityCheckQueue' = circularityCheckQueue \cup {p}
      /\ p \notin circularityCheckQueue /\ ~Contains(queue, p)
  BY DEF LoadQueueEnters, options, Visit, Activation, Known
<1>2. [spec |-> p, next |-> 1] \in Frame /\ stack \in Seq(Frame)
  BY DEF Frame, TypeOK
<1>3. /\ stack' \in Seq(Frame) /\ Len(stack') = Len(stack) + 1
      /\ \A i \in 1..Len(stack) : stack'[i] = stack[i]
      /\ stack'[Len(stack) + 1] = [spec |-> p, next |-> 1]
  BY <1>1, <1>2, AppendProperties
<1>4. /\ Len(stack) \in Nat /\ DOMAIN stack = 1..Len(stack)
      /\ DOMAIN stack' = 1..(Len(stack) + 1)
  BY <1>2, <1>3
<1>5. TypeOK'
  BY <1>1, <1>3, CallType DEF LoadQueueEnters, TypeOK, inputs, options
<1>6. QueueSorted'
  BY <1>1 DEF QueueSorted
<1>7. StackWaits'
  <2> SUFFICES ASSUME NEW i \in 1..Len(stack)
               PROVE  /\ stack'[i].next \in DOMAIN dependencySpecs[stack'[i].spec]
                      /\ stack'[i + 1].spec =
                             dependencySpecs[stack'[i].spec][stack'[i].next]
    BY <1>1, <1>3, <1>4 DEF StackWaits
  <2>1. CASE i < Len(stack)
    <3>1. i \in 1..(Len(stack) - 1) /\ i + 1 \in 1..Len(stack)
      BY <1>4, <2>1
    <3>2. stack'[i] = stack[i] /\ stack'[i + 1] = stack[i + 1]
      BY <1>3, <1>4, <3>1
    <3> QED
      BY <3>1, <3>2 DEF StackWaits
  <2>2. CASE i = Len(stack)
    <3>1. stack # <<>> /\ stack'[i] = Top /\ stack'[i + 1].spec = p
      BY <1>3, <1>4, <2>2 DEF Top
    <3>2. /\ Top.next \in DOMAIN dependencySpecs[Top.spec]
          /\ p = dependencySpecs[Top.spec][Top.next]
      BY <3>1, CallType DEF LoadQueueEnters
    <3> QED
      BY <3>1, <3>2
  <2> QED
    BY <1>4, <2>1, <2>2
<1>8. StackDone'
  <2> SUFFICES ASSUME NEW i \in 1..(Len(stack) + 1),
                      NEW k \in DOMAIN dependencySpecs[stack'[i].spec],
                      k < stack'[i].next
               PROVE  Contains(queue, dependencySpecs[stack'[i].spec][k])
    BY <1>1, <1>4 DEF StackDone, Contains
  <2>1. CASE i \in 1..Len(stack)
    BY <1>3, <1>4, <2>1 DEF StackDone
  <2>2. CASE i = Len(stack) + 1
    <3>1. dependencySpecs[p] \in Seq(Plugins) /\ k \in DOMAIN dependencySpecs[p]
      BY <1>3, <2>2 DEF TypeOK
    <3>2. k < 1 /\ k \in Nat /\ k >= 1
      BY <1>3, <2>2, <3>1
    <3> QED
      BY <3>2
  <2> QED
    BY <1>4, <2>1, <2>2
<1>9. StackNew'
  <2>1. ASSUME NEW i \in 1..(Len(stack) + 1)
        PROVE  ~Contains(queue, stack'[i].spec)
               /\ stack'[i].spec \in circularityCheckQueue \cup {p}
    <3>1. CASE i \in 1..Len(stack)
      BY <1>3, <1>4, <3>1 DEF StackNew
    <3>2. CASE i = Len(stack) + 1
      BY <1>1, <1>3, <3>2
    <3> QED
      BY <1>4, <3>1, <3>2
  <2>2. \A i \in 1..Len(stack) : stack'[i].spec = stack[i].spec
                                /\ stack[i].spec # p
    BY <1>1, <1>3, <1>4 DEF StackNew
  <2>3. stack'[Len(stack) + 1].spec = p
    BY <1>3
  <2>4. ASSUME NEW i \in 1..(Len(stack) + 1), NEW j \in 1..(Len(stack) + 1),
               stack'[i].spec = stack'[j].spec
        PROVE  i = j
    <3>1. CASE i \in 1..Len(stack) /\ j \in 1..Len(stack)
      BY <1>4, <2>2, <2>4, <3>1 DEF StackNew
    <3>2. CASE i = Len(stack) + 1 \/ j = Len(stack) + 1
      BY <1>4, <2>2, <2>3, <2>4, <3>2
    <3> QED
      BY <1>4, <3>1, <3>2
  <2> QED
    BY <1>1, <1>4, <2>1, <2>4 DEF StackNew, Contains
<1> QED
  BY <1>1, <1>5, <1>6, <1>7, <1>8, <1>9 DEF LoadQueueEnters, Call,
     CallFromList, CallFromSpec, Queueing

(* The activations below the one that returns true. *)
LEMMA BelowFrames ==
    ASSUME NEW s \in Seq(Frame), s # <<>>
    PROVE  /\ Below(s) \in Seq(Frame)
           /\ Len(Below(s)) = Len(s) - 1
           /\ \A i \in 1..(Len(s) - 1) : Below(s)[i] = s[i]
<1>1. Len(s) \in Nat /\ Len(s) >= 1 /\ DOMAIN s = 1..Len(s)
  OBVIOUS
<1>2. Below(s) = [i \in 1..(Len(s) - 1) |-> s[i]]
  BY <1>1 DEF Below
<1>3. Len(s) - 1 \in Nat /\ \A i \in 1..(Len(s) - 1) : s[i] \in Frame
  BY <1>1
<1> HIDE DEF Frame
<1>4. Below(s) \in [1..(Len(s) - 1) -> Frame]
  BY <1>2, <1>3
<1>5. Below(s) \in Seq(Frame)
  BY <1>3, <1>4, SeqDef
<1>6. Len(Below(s)) = Len(s) - 1
  BY <1>3, <1>4, <1>5
<1> QED
  BY <1>2, <1>5, <1>6

(* An activation is through with its dependencies: its spec p is queued. *)
LEMMA LoadQueueAddsSelfInv ==
    ASSUME QueueInv, LoadQueueAddsSelf
    PROVE  QueueInv'
<1>0. TypeOK /\ QueueSorted /\ StackWaits /\ StackDone /\ StackNew
  BY DEF QueueInv
<1>1. /\ UNCHANGED <<dependencySpecs, phase>>
      /\ queue' = Append(queue, Top.spec)
      /\ stack' = Returned(Below(stack))
      /\ stack # <<>>
      /\ Top.next > Len(dependencySpecs[Top.spec])
  BY DEF LoadQueueAddsSelf, options
<1> DEFINE n == Len(stack)
           p == Top.spec
<1>2. stack \in Seq(Frame) /\ queue \in Seq(Plugins)
  BY <1>0 DEF TypeOK
<1>3. n \in Nat /\ n >= 1 /\ DOMAIN stack = 1..n /\ Top = stack[n]
  BY <1>1, <1>2 DEF Top
<1>4. Top \in Frame
  BY <1>2, <1>3
<1>5. p \in Plugins /\ Top.next \in Nat /\ p = stack[n].spec
  BY <1>3, <1>4 DEF Frame
<1>6. dependencySpecs[p] \in Seq(Plugins)
  BY <1>0, <1>5 DEF TypeOK
<1>7. /\ stack' \in Seq(Frame) /\ Len(stack') = n - 1
      /\ DOMAIN stack' = 1..(n - 1)
      /\ \A i \in 1..(n - 1) : stack'[i].spec = stack[i].spec
      /\ \A i \in 1..(n - 2) : stack'[i] = stack[i]
      /\ n > 1 => stack'[n - 1].next = stack[n - 1].next + 1
  <2> DEFINE b == Below(stack)
  <2>1. b \in Seq(Frame) /\ Len(b) = n - 1 /\ \A i \in 1..(n - 1) : b[i] = stack[i]
    BY <1>1, <1>2, BelowFrames
  <2>2. stack' = Returned(b)
    BY <1>1
  <2> HIDE DEF b, n
  <2>3. /\ stack' \in Seq(Frame) /\ Len(stack') = n - 1
        /\ \A i \in DOMAIN b : stack'[i].spec = b[i].spec
        /\ \A i \in 1..(n - 1 - 1) : stack'[i] = b[i]
        /\ b # <<>> => stack'[n - 1].next = b[n - 1].next + 1
    BY <2>1, <2>2, ReturnedFrames
  <2>4. DOMAIN b = 1..(n - 1) /\ DOMAIN stack' = 1..(n - 1)
    BY <2>1, <2>3
  <2>5. n > 1 => b # <<>> /\ n - 1 \in 1..(n - 1)
    BY <1>3, <2>1
  <2>6. \A i \in 1..(n - 1) : stack'[i].spec = stack[i].spec
    BY <2>1, <2>3, <2>4
  <2>7. \A i \in 1..(n - 2) : stack'[i] = stack[i]
    <3> SUFFICES ASSUME NEW i \in 1..(n - 2) PROVE stack'[i] = stack[i]
      OBVIOUS
    <3>1. i \in 1..(n - 1) /\ i \in 1..(n - 1 - 1)
      BY <1>3
    <3> QED
      BY <2>1, <2>3, <3>1
  <2>8. n > 1 => stack'[n - 1].next = stack[n - 1].next + 1
    BY <2>1, <2>3, <2>5
  <2> QED
    BY <2>3, <2>4, <2>6, <2>7, <2>8
<1>8. /\ queue' \in Seq(Plugins) /\ Len(queue') = Len(queue) + 1
      /\ queue'[Len(queue) + 1] = p
      /\ \A i \in DOMAIN queue : queue'[i] = queue[i]
      /\ \A q : Contains(queue', q) <=> Contains(queue, q) \/ q = p
  BY <1>1, <1>2, <1>5, ContainsAppend
<1>9. TypeOK'
  BY <1>0, <1>1, <1>7, <1>8 DEF LoadQueueAddsSelf, TypeOK, inputs, options
<1>10. n > 1 => circularityCheckQueue' = circularityCheckQueue
  <2>1. circularityCheckQueue' = IF n = 1 THEN {} ELSE circularityCheckQueue
    BY Zenon DEF LoadQueueAddsSelf
  <2>2. n > 1 => n # 1
    BY <1>3
  <2> QED
    BY <2>1, <2>2
<1>11. \A k \in DOMAIN dependencySpecs[p] : Contains(queue, dependencySpecs[p][k])
  <2> SUFFICES ASSUME NEW k \in DOMAIN dependencySpecs[p]
               PROVE  Contains(queue, dependencySpecs[p][k])
    OBVIOUS
  <2>1. k < Top.next /\ k < stack[n].next
    BY <1>1, <1>3, <1>5, <1>6
  <2> QED
    BY <1>0, <1>3, <1>5, <2>1 DEF StackDone
<1>12. ~Contains(queue, p)
  BY <1>0, <1>3, <1>5 DEF StackNew
<1> HIDE DEF n, p
<1>13. QueueSorted'
  <2> DEFINE m == Len(queue) + 1
  <2>0. Len(queue) \in Nat /\ DOMAIN queue = 1..Len(queue) /\ DOMAIN queue' = 1..m
    BY <1>2, <1>8
  <2>3. dependencySpecs' = dependencySpecs
    BY <1>1
  <2> SUFFICES ASSUME NEW i \in DOMAIN queue'
               PROVE  /\ \A k \in DOMAIN dependencySpecs'[queue'[i]] :
                            \E j \in 1..(i - 1) :
                               queue'[j] = dependencySpecs'[queue'[i]][k]
                      /\ \A j \in 1..(i - 1) : queue'[j] # queue'[i]
    BY DEF QueueSorted
  <2> SUFFICES /\ \A k \in DOMAIN dependencySpecs[queue'[i]] :
                     \E j \in 1..(i - 1) :
                        queue'[j] = dependencySpecs[queue'[i]][k]
               /\ \A j \in 1..(i - 1) : queue'[j] # queue'[i]
    BY <2>3
  <2>1. CASE i = m
    <3>1. queue'[i] = p /\ i - 1 = Len(queue)
      BY <1>8, <2>0, <2>1
    <3>2. \A j \in 1..Len(queue) : queue'[j] = queue[j]
      BY <1>8, <2>0
    <3> QED
      BY <1>11, <1>12, <2>0, <3>1, <3>2 DEF Contains
  <2>2. CASE i \in 1..Len(queue)
    <3>1. \A j \in 1..i : j \in DOMAIN queue /\ queue'[j] = queue[j]
      BY <1>8, <2>0, <2>2
    <3>2. i \in 1..i /\ \A j \in 1..(i - 1) : j \in 1..i
      BY <2>0, <2>2
    <3>3. queue'[i] = queue[i] /\ i \in DOMAIN queue
      BY <3>1, <3>2
    <3>4. ASSUME NEW k \in DOMAIN dependencySpecs[queue[i]]
          PROVE  \E j \in 1..(i - 1) : queue'[j] = dependencySpecs[queue[i]][k]
      <4>1. PICK j \in 1..(i - 1) : queue[j] = dependencySpecs[queue[i]][k]
        BY <1>0, <3>3 DEF QueueSorted
      <4>2. queue'[j] = queue[j]
        BY <3>1, <3>2
      <4> QED
        BY <4>1, <4>2
    <3>5. ASSUME NEW j \in 1..(i - 1) PROVE queue'[j] # queue[i]
      <4>1. queue'[j] = queue[j]
        BY <3>1, <3>2
      <4> QED
        BY <1>0, <3>3, <4>1 DEF QueueSorted
    <3> QED
      BY <3>3, <3>4, <3>5
  <2> QED
    BY <2>0, <2>1, <2>2
<1>14. StackWaits'
  <2> SUFFICES ASSUME NEW i \in 1..(n - 2)
               PROVE  /\ stack'[i].next \in DOMAIN dependencySpecs[stack'[i].spec]
                      /\ stack'[i + 1].spec =
                             dependencySpecs[stack'[i].spec][stack'[i].next]
    <3>1. Len(stack') - 1 = n - 2
      BY <1>3, <1>7
    <3> QED
      BY <1>1, <3>1 DEF StackWaits
  <2>1. i \in 1..(n - 1) /\ i + 1 \in 1..(n - 1)
    BY <1>3
  <2>2. stack'[i] = stack[i] /\ stack'[i + 1].spec = stack[i + 1].spec
    BY <1>7, <2>1
  <2>3. i \in 1..(Len(stack) - 1)
    BY <2>1 DEF n
  <2> QED
    BY <1>0, <2>2, <2>3 DEF StackWaits
<1>15. StackDone'
  <2> SUFFICES ASSUME NEW i \in 1..(n - 1),
                      NEW k \in DOMAIN dependencySpecs[stack[i].spec],
                      k < stack'[i].next
               PROVE  Contains(queue, dependencySpecs[stack[i].spec][k])
                      \/ dependencySpecs[stack[i].spec][k] = p
    <3>1. \A i \in DOMAIN stack' : i \in 1..(n - 1) /\ stack'[i].spec = stack[i].spec
      BY <1>7
    <3> QED
      BY <1>1, <1>8, <3>1 DEF StackDone
  <2>1. i \in DOMAIN stack /\ stack[i] \in Frame
    BY <1>2, <1>3
  <2>2. stack[i].spec \in Plugins /\ stack[i].next \in Nat
    BY <2>1 DEF Frame
  <2>3. dependencySpecs[stack[i].spec] \in Seq(Plugins)
    BY <1>0, <2>2 DEF TypeOK
  <2>4. k \in Nat
    BY <2>3
  <2>5. CASE k < stack[i].next
    BY <1>0, <2>1, <2>5 DEF StackDone
  <2>6. CASE ~(k < stack[i].next)
    <3>1. ~(i \in 1..(n - 2))
      BY <1>7, <2>6
    <3>2. i = n - 1 /\ n > 1
      BY <1>3, <3>1
    <3>3. stack'[i].next = stack[i].next + 1
      BY <1>7, <3>2
    <3>4. k = stack[i].next
      BY <2>2, <2>4, <2>6, <3>3
    <3>5. i \in 1..(Len(stack) - 1) /\ i + 1 = n
      BY <1>3, <3>2 DEF n
    <3>6. stack[n].spec = dependencySpecs[stack[i].spec][stack[i].next]
      BY <1>0, <3>5 DEF StackWaits
    <3> QED
      BY <1>5, <3>4, <3>6
  <2> QED
    BY <2>5, <2>6
<1>16. StackNew'
  <2>1. ASSUME NEW i \in 1..(n - 1)
        PROVE  i \in DOMAIN stack /\ i # n /\ n > 1
    BY <1>3
  <2>2. \A i \in 1..(n - 1) : stack[i].spec # p
    BY <1>0, <1>3, <1>5, <2>1 DEF StackNew
  <2>3. ASSUME NEW i \in 1..(n - 1)
        PROVE  /\ ~Contains(queue', stack'[i].spec)
               /\ stack'[i].spec \in circularityCheckQueue'
    <3>1. ~Contains(queue, stack[i].spec) /\ stack[i].spec \in circularityCheckQueue
      BY <1>0, <2>1 DEF StackNew
    <3> QED
      BY <1>7, <1>8, <1>10, <2>1, <2>2, <3>1
  <2>4. ASSUME NEW i \in 1..(n - 1), NEW j \in 1..(n - 1),
               stack'[i].spec = stack'[j].spec
        PROVE  i = j
    <3>1. stack[i].spec = stack[j].spec
      BY <1>7, <2>4
    <3> QED
      BY <1>0, <2>1, <3>1 DEF StackNew
  <2> QED
    BY <1>7, <2>3, <2>4 DEF StackNew
<1>17. phase' \notin {"start", "options"}
  BY <1>1 DEF LoadQueueAddsSelf, Queueing
<1> QED
  BY <1>9, <1>13, <1>14, <1>15, <1>16, <1>17 DEF QueueInv

LEMMA LoadQueueEndsInv ==
    ASSUME QueueInv, LoadQueueEnds
    PROVE  QueueInv'
<1>1. TypeOK'
  BY DEF QueueInv, TypeOK, LoadQueueEnds, inputs, options, Phase
<1> QED
  BY <1>1, QueueUnchanged DEF LoadQueueEnds, options

-----------------------------------------------------------------------------
(* loadPlugin(spec, destState) and the loops around it. *)

LEMMA ReversedType ==
    ASSUME NEW s \in Seq(Plugins)
    PROVE  Reversed(s) \in Seq(Plugins)
<1>1. Len(s) \in Nat /\ DOMAIN s = 1..Len(s)
  OBVIOUS
<1>2. \A i \in 1..Len(s) : s[Len(s) + 1 - i] \in Plugins
  BY <1>1
<1>3. Reversed(s) \in [1..Len(s) -> Plugins]
  BY <1>1, <1>2 DEF Reversed
<1> QED
  BY <1>1, <1>3, SeqDef

LEMMA AdvanceType ==
    ASSUME TypeOK, NEW p \in Plugins, NEW from, NEW to \in State, NEW fails,
           Advance(p, from, to, fails)
    PROVE  state' \in [Plugins -> State] /\ hasError' \in SUBSET Plugins
BY DEF Advance, SetState, SetError, TypeOK

LEMMA LoadPluginInv ==
    ASSUME QueueInv, NEW p \in Plugins,
           \/ LoadPluginSkips(p) \/ LoadPluginWithoutDependencies(p)
           \/ LoadPluginUp(p) \/ LoadPluginDown(p)
    PROVE  QueueInv'
<1>1. NextInLoop(p) /\ TypeOK
  BY DEF LoadPluginSkips, LoadPluginWithoutDependencies, LoadPluginUp,
         LoadPluginDown, QueueInv
<1>2. /\ state' \in [Plugins -> State]
      /\ hasError' \in SUBSET Plugins
      /\ plugins' \in SUBSET Plugins
  <2>1. CASE LoadPluginSkips(p) \/ LoadPluginWithoutDependencies(p)
    BY <1>1, <2>1 DEF LoadPluginSkips, LoadPluginWithoutDependencies, SetError,
       TypeOK
  <2>2. CASE LoadPluginUp(p)
    <3>1. CASE LoadLibrary(p)
      <4>1. "Loaded" \in State
        BY DEF State
      <4>2. state' \in [Plugins -> State] /\ hasError' \in SUBSET Plugins
        BY <1>1, <3>1, <4>1, AdvanceType DEF LoadLibrary
      <4> QED
        BY <1>1, <3>1, <4>2 DEF LoadLibrary, TypeOK
    <3>2. CASE InitializePlugin(p)
      <4>1. "Initialized" \in State
        BY DEF State
      <4>2. state' \in [Plugins -> State] /\ hasError' \in SUBSET Plugins
        BY <1>1, <3>2, <4>1, AdvanceType DEF InitializePlugin
      <4> QED
        BY <1>1, <3>2, <4>2 DEF InitializePlugin, TypeOK
    <3>3. CASE InitializeExtensions(p)
      <4>1. "Running" \in State
        BY DEF State
      <4>2. state' \in [Plugins -> State] /\ hasError' \in SUBSET Plugins
        BY <1>1, <3>3, <4>1, AdvanceType DEF InitializeExtensions
      <4> QED
        BY <1>1, <3>3, <4>2 DEF InitializeExtensions, TypeOK
    <3> QED
      BY <2>2, <3>1, <3>2, <3>3 DEF LoadPluginUp
  <2>3. CASE LoadPluginDown(p)
    <3>1. CASE Stop(p)
      BY <1>1, <3>1 DEF Stop, SetState, TypeOK, State
    <3>2. CASE Kill(p)
      BY <1>1, <3>2 DEF Kill, SetState, TypeOK, State
    <3> QED
      BY <2>3, <3>1, <3>2 DEF LoadPluginDown
  <2> QED
    BY <2>1, <2>2, <2>3
<1>3. rest' \in Seq(Plugins)
  BY <1>1, HeadTailProperties DEF NextInLoop, TypeOK
<1>4. TypeOK'
  BY <1>1, <1>2, <1>3 DEF NextInLoop, TypeOK, inputs, options
<1> QED
  BY <1>1, <1>4, QueueUnchanged DEF NextInLoop, options

LEMMA LoopEndsInv ==
    ASSUME QueueInv, LoopEnds
    PROVE  QueueInv'
<1>1. rest' \in Seq(Plugins) /\ phase' \in Phase \ {"start", "options"}
  BY ReversedType DEF LoopEnds, ExtensionsOrder, DeleteOrder, QueueInv, TypeOK,
     Phase
<1>2. TypeOK'
  BY <1>1 DEF QueueInv, TypeOK, LoopEnds, inputs, options
<1> QED
  BY <1>1, <1>2, QueueUnchanged DEF LoopEnds, options

-----------------------------------------------------------------------------
LEMMA InitInv == Init => QueueInv
<1> SUFFICES ASSUME Init PROVE QueueInv
  OBVIOUS
<1>1. dependencies \in [Plugins -> Seq(Plugins \cup {Missing})]
  BY PluginsAssumption DEF Init
<1>2. TypeOK
  <2>1. /\ pluginSpecs \in Seq(Plugins) /\ rest \in Seq(Plugins)
        /\ queue \in Seq(Plugins) /\ stack \in Seq(Frame)
    BY DEF Init
  <2>2. dependencySpecs \in [Plugins -> Seq(Plugins)]
    <3>1. <<>> \in Seq(Plugins)
      OBVIOUS
    <3> QED
      BY <3>1 DEF Init
  <2>3. /\ broken \in [Plugins -> {"nothing", "library", "initialize"}]
        /\ state \in [Plugins -> State] /\ phase \in Phase
    BY DEF Init, State, Phase
  <2>4. /\ hasError \in SUBSET Plugins /\ plugins \in SUBSET Plugins
        /\ circularityCheckQueue \in SUBSET Plugins /\ refresh \in BOOLEAN
    BY DEF Init
  <2> QED
    BY <1>1, <2>1, <2>2, <2>3, <2>4 DEF TypeOK
<1>3. queue = <<>> /\ stack = <<>>
  BY DEF Init
<1>4. DOMAIN queue = {} /\ DOMAIN stack = {} /\ Len(stack) = 0
  BY <1>3
<1> QED
  BY <1>2, <1>3, <1>4 DEF QueueInv, QueueSorted, StackWaits, StackDone, StackNew

LEMMA NextInv == QueueInv /\ [Next]_vars => QueueInv'
<1> SUFFICES ASSUME QueueInv, [Next]_vars PROVE QueueInv'
  OBVIOUS
<1>1. CASE SetPluginPaths
  BY <1>1, SetPluginPathsInv
<1>2. CASE \E p \in Plugins : NoLoadOption(p)
  BY <1>2, NoLoadOptionInv
<1>3. CASE ParseOptions
  BY <1>3, ParseOptionsInv
<1>4. CASE LoadQueue
  BY <1>4, LoadQueueKnownInv, LoadQueueFailsInv, LoadQueueEntersInv,
     LoadQueueAddsSelfInv, LoadQueueEndsInv DEF LoadQueue
<1>5. CASE LoadPlugin
  BY <1>5, LoadPluginInv, LoopEndsInv DEF LoadPlugin
<1>6. CASE StopAll
  BY <1>6, StopAllInv
<1>7. CASE UNCHANGED vars
  <2>1. TypeOK'
    BY <1>7 DEF QueueInv, TypeOK, vars
  <2> QED
    BY <1>7, <2>1, QueueUnchanged DEF vars
<1> QED
  BY <1>1, <1>2, <1>3, <1>4, <1>5, <1>6, <1>7 DEF Next

(* Every variable of the plugin manager keeps its type.                    *)
THEOREM TypeCorrect == Spec => []TypeOK
<1>1. QueueInv => TypeOK
  BY DEF QueueInv
<1> QED
  BY <1>1, InitInv, NextInv, PTL DEF Spec

(* Whatever the specs say of each other, a plugin comes in the load queue  *)
(* after all those it depends on, and once.                                *)
THEOREM LoadOrder == Spec => []QueueSorted
<1>1. QueueInv => QueueSorted
  BY DEF QueueInv
<1> QED
  BY <1>1, InitInv, NextInv, PTL DEF Spec

-----------------------------------------------------------------------------
(* The pointers between the specs.  Once the command line is parsed, a     *)
(* spec that is resolved only names specs that were not deselected, and    *)
(* only resolved specs get on the stack and into the queue.                *)

Reading == phase \in {"start", "options"}
Usual(p) == p \in Elements(pluginSpecs) /\ ~Unresolved(p)

Closed ==
    \A p \in Elements(pluginSpecs) :
        ~Unresolved(p) => Elements(dependencySpecs[p]) \subseteq Elements(pluginSpecs)

AliveInv ==
    /\ Reading => plugins = {} /\ \A p \in hasError : Unresolved(p)
    /\ ~Reading \/ ~refresh => Closed
    /\ Queueing => Elements(rest) \subseteq Elements(pluginSpecs)
    /\ ~Queueing => stack = <<>>
    /\ \A i \in DOMAIN stack : Usual(stack[i].spec)
    /\ \A i \in DOMAIN queue : Usual(queue[i])
    /\ \A p \in plugins : ~Unresolved(p)

(* Whoever was visited is being visited, or is in the queue; and a spec of *)
(* the list that loadQueue() runs through ends in the queue, or fails.     *)
Listed ==
    /\ \A p \in circularityCheckQueue :
          Contains(queue, p) \/ \E i \in DOMAIN stack : stack[i].spec = p
    /\ ~Reading /\ phase # "down" => \A p \in Elements(pluginSpecs) :
          \/ p \in hasError
          \/ Contains(queue, p)
          \/ Queueing /\ Contains(rest, p)
          \/ stack # <<>> /\ stack[1].spec = p

(* The places of the queue that the loop of this phase is through with. *)
Backwards == phase \in {"Running", "Deleted"}
InLoop == phase \in {"Loaded", "Initialized", "Running", "Stopped", "Deleted"}
Treated ==
    IF Backwards THEN (Len(rest) + 1)..Len(queue) ELSE 1..(Len(queue) - Len(rest))

LoopInv ==
    InLoop =>
        /\ Len(rest) <= Len(queue)
        /\ \A i \in DOMAIN rest :
              rest[i] = IF Backwards THEN queue[Len(rest) + 1 - i]
                        ELSE queue[Len(queue) - Len(rest) + i]

(* A plugin that was initialized and not yet deleted. *)
Live(p) == state[p] \in {"Initialized", "Running", "Stopped"}

LiveStates(ph) ==
    CASE ph = "Initialized" -> {"Initialized"}
      [] ph = "Running" -> {"Initialized", "Running"}
      [] ph \in {"up", "stopQueue"} -> {"Running"}
      [] ph = "Stopped" -> {"Running", "Stopped"}
      [] ph \in {"Deleted", "down"} -> {"Stopped"}
      [] OTHER -> {}

Instances ==
    /\ \A p \in Plugins : p \in plugins <=> state[p] = "Loaded" \/ Live(p)
    /\ plugins \subseteq Elements(pluginSpecs)
    /\ phase \in {"start", "options", "loadQueue"} => plugins = {}
    /\ \A p \in Plugins : Live(p) =>
          /\ state[p] \in LiveStates(phase)
          /\ p \notin hasError
          /\ \A d \in Elements(dependencySpecs[p]) : Live(d)
    /\ phase \notin {"Deleted", "down"} =>
          \A p \in plugins : Elements(dependencySpecs[p]) \subseteq plugins
    /\ phase \in {"Running", "up", "stopQueue", "Stopped", "Deleted", "down"} =>
          \A p \in plugins \ hasError : Live(p)

Progress ==
    \A i \in DOMAIN queue :
        /\ phase = "Loaded" /\ i \in Treated /\ queue[i] \notin hasError =>
              state[queue[i]] = "Loaded"
        /\ phase = "Initialized" /\ i \in Treated /\ queue[i] \notin hasError =>
              state[queue[i]] = "Initialized"
        /\ phase = "Running" /\ queue[i] \notin hasError =>
              state[queue[i]] = IF i \in Treated THEN "Running" ELSE "Initialized"
        /\ phase = "Stopped" /\ Live(queue[i]) =>
              state[queue[i]] = IF i \in Treated THEN "Stopped" ELSE "Running"
        /\ phase = "Deleted" /\ i \in Treated => ~Live(queue[i])

(* The running plugins can be sorted, as the first load queue shows; so    *)
(* the second one gets round to all of them.                               *)
Sorted(q) ==
    \A i \in DOMAIN q :
        /\ \A k \in DOMAIN dependencySpecs[q[i]] :
               \E j \in 1..(i - 1) : q[j] = dependencySpecs[q[i]][k]
        /\ \A j \in 1..(i - 1) : q[j] # q[i]

Descends(q) ==
    \A i, j \in DOMAIN stack : i < j /\ Live(stack[i].spec) =>
        /\ Live(stack[j].spec)
        /\ \A x, y \in DOMAIN q :
              q[x] = stack[i].spec /\ q[y] = stack[j].spec => y < x

SortableIn(S) ==
    phase = "stopQueue" => \E q \in S :
        /\ Sorted(q)
        /\ \A p \in Plugins : Live(p) => Contains(q, p)
        /\ Descends(q)

Sortable == SortableIn(Seq(Plugins))

LifeInv ==
    /\ Instances
    /\ Progress
    /\ LifecycleOrder
    /\ Sortable

-----------------------------------------------------------------------------
(* Every action keeps AliveInv. *)

LEMMA ElementsContain ==
    /\ \A s, p : p \in Elements(s) <=> Contains(s, p)
    /\ \A s \in Seq(Plugins) : Elements(s) \subseteq Plugins
BY DEF Elements, Contains

(* After resolveDependencies every spec that is resolved is closed. *)
LEMMA ResolveClosed ==
    ASSUME TypeOK, NEW specs \in Seq(Plugins), ResolveDependencies(specs),
           \A p \in hasError : Unresolved(p), pluginSpecs' = specs
    PROVE  Closed' /\ \A p \in hasError' : Unresolved(p)'
<1> DEFINE resolved == {p \in Resolving(specs) : Provided(p, specs)}
           failed == Resolving(specs) \ resolved
<1>1. /\ state' = [p \in Plugins |-> IF p \in resolved THEN "Resolved"
                        ELSE IF p \in failed THEN "Read" ELSE state[p]]
      /\ hasError' = hasError \cup failed
      /\ dependencySpecs' = [p \in Plugins |->
                IF p \in resolved THEN dependencies[p] ELSE dependencySpecs[p]]
  BY DEF ResolveDependencies
<1>2. /\ hasError \subseteq Plugins /\ Elements(specs) \subseteq Plugins
      /\ Resolving(specs) = {p \in Elements(specs) : p \notin hasError}
  BY ElementsContain DEF TypeOK, Resolving
<1>3. \A p \in resolved : Elements(dependencies[p]) \subseteq Elements(specs)
  BY DEF Provided, Elements, Contains
<1>4. \A p \in resolved : p \in Elements(specs) /\ p \notin hasError
  BY <1>2
<1>5. \A p \in Elements(specs) : p \in resolved \/ p \in failed \/ p \in hasError
  BY <1>2
<1>6. \A p \in failed : p \in Elements(specs) /\ p \notin resolved
  BY <1>2
<1> HIDE DEF resolved, failed
<1>7. \A p \in hasError' : Unresolved(p)'
  BY <1>1, <1>2, <1>4, <1>6 DEF Unresolved
<1>8. ASSUME NEW p \in Elements(specs), ~Unresolved(p)'
      PROVE  Elements(dependencySpecs'[p]) \subseteq Elements(specs)
  <2>1. p \in resolved
    BY <1>1, <1>2, <1>5, <1>7, <1>8
  <2>2. dependencySpecs'[p] = dependencies[p]
    BY <1>1, <1>2, <2>1
  <2> QED
    BY <1>3, <2>1, <2>2
<1> QED
  BY <1>7, <1>8 DEF Closed

(* Nothing is queued before the command line is parsed. *)
LEMMA NothingQueued ==
    ASSUME queue' = <<>>, stack' = <<>>
    PROVE  /\ (\A i \in DOMAIN stack : Usual(stack[i].spec))'
           /\ (\A i \in DOMAIN queue : Usual(queue[i]))'
OBVIOUS

LEMMA OptionsAlive ==
    ASSUME QueueInv, AliveInv,
           \/ SetPluginPaths
           \/ \E p \in Plugins : NoLoadOption(p)
           \/ ParseOptions
    PROVE  AliveInv'
<1>1. /\ TypeOK /\ Reading /\ plugins = {} /\ plugins' = plugins
      /\ \A p \in hasError : Unresolved(p)
      /\ queue = <<>> /\ stack = <<>> /\ queue' = <<>> /\ stack' = <<>>
  BY DEF QueueInv, AliveInv, SetPluginPaths, NoLoadOption, ParseOptions, StartLoadQueue,
         Reading
<1>2. CASE SetPluginPaths
  <2>1. PluginSpecs \in Seq(Plugins)
    BY PluginsAssumption
  <2>2. /\ ResolveDependencies(PluginSpecs) /\ pluginSpecs' = PluginSpecs
        /\ phase' = "options"
    BY <1>2 DEF SetPluginPaths
  <2>3. Closed' /\ \A p \in hasError' : Unresolved(p)'
    BY <1>1, <2>1, <2>2, ResolveClosed
  <2> QED
    BY <1>1, <2>2, <2>3, NothingQueued DEF AliveInv, Reading, Queueing
<1>3. CASE \E p \in Plugins : NoLoadOption(p)
  <2>1. /\ phase' = "options" /\ refresh' = TRUE
        /\ UNCHANGED <<hasError, state>>
    BY <1>3 DEF NoLoadOption
  <2> QED
    BY <1>1, <2>1, NothingQueued DEF AliveInv, Reading, Queueing, Unresolved
<1>4. CASE ParseOptions
  <2>1. /\ pluginSpecs \in Seq(Plugins) /\ pluginSpecs' = pluginSpecs
        /\ phase' \in {"loadQueue", "stopQueue"} /\ rest' = pluginSpecs
    BY <1>1, <1>4 DEF ParseOptions, StartLoadQueue, TypeOK
  <2>2. Closed'
    <3>1. CASE refresh
      BY <1>1, <1>4, <2>1, <3>1, ResolveClosed DEF ParseOptions, RefreshDependencies
    <3>2. CASE ~refresh
      BY <1>1, <1>4, <2>1, <3>2 DEF ParseOptions, RefreshDependencies, AliveInv,
         Closed, Unresolved
    <3> QED
      BY <3>1, <3>2
  <2>3. Elements(rest') \subseteq Elements(pluginSpecs')
    BY <2>1
  <2> QED
    BY <1>1, <2>1, <2>2, <2>3, NothingQueued DEF AliveInv, Reading, Queueing
<1> QED
  BY <1>2, <1>3, <1>4

(* The specs and their states as they are while the queue is built. *)
LEMMA SameSpecs ==
    ASSUME AliveInv, UNCHANGED <<pluginSpecs, dependencySpecs, state, plugins>>,
           ~Reading, ~Reading'
    PROVE  /\ Closed'
           /\ \A p \in plugins' : ~Unresolved(p)'
           /\ \A p : Usual(p)' <=> Usual(p)
BY DEF AliveInv, Closed, Unresolved, Usual

(* What loadQueue(spec) is called for is one of the specs. *)
LEMMA CalledIsListed ==
    ASSUME QueueInv, AliveInv, NEW p \in Plugins, Call(p)
    PROVE  /\ p \in Elements(pluginSpecs)
           /\ Elements(rest') \subseteq Elements(pluginSpecs)
           /\ stack # <<>> => p \in Elements(dependencySpecs[Top.spec])
<1>1. /\ TypeOK /\ Queueing /\ ~Reading /\ Closed
      /\ Elements(rest) \subseteq Elements(pluginSpecs)
  BY DEF QueueInv, AliveInv, Call, CallFromList, CallFromSpec, Queueing, Reading
<1>2. CASE CallFromList(p) /\ rest' = Tail(rest)
  <2>1. rest \in Seq(Plugins) /\ rest # <<>> /\ p = Head(rest) /\ stack = <<>>
    BY <1>1, <1>2 DEF TypeOK, CallFromList
  <2>2. /\ Len(rest) \in Nat /\ Len(rest) >= 1 /\ Head(rest) = rest[1]
        /\ Tail(rest) \in Seq(Plugins) /\ Len(Tail(rest)) = Len(rest) - 1
        /\ \A i \in 1..Len(Tail(rest)) : Tail(rest)[i] = rest[i + 1]
    BY <2>1, HeadTailProperties
  <2>3. p \in Elements(rest)
    BY <2>1, <2>2 DEF Elements
  <2>4. Elements(Tail(rest)) \subseteq Elements(rest)
    BY <2>1, <2>2 DEF Elements
  <2> QED
    BY <1>1, <1>2, <2>1, <2>3, <2>4
<1>3. CASE CallFromSpec(p) /\ UNCHANGED rest
  <2>1. /\ stack # <<>> /\ Top.next \in DOMAIN dependencySpecs[Top.spec]
        /\ p = dependencySpecs[Top.spec][Top.next]
    BY <1>1, <1>3, CallType DEF CallFromSpec
  <2>2. Len(stack) \in DOMAIN stack
    BY <1>1, <2>1 DEF TypeOK
  <2>3. Usual(Top.spec)
    BY <2>2, Zenon DEF AliveInv, Top
  <2>4. p \in Elements(dependencySpecs[Top.spec])
    BY <2>1 DEF Elements
  <2> QED
    BY <1>1, <1>3, <2>3, <2>4 DEF Closed, Usual
<1> QED
  BY <1>2, <1>3 DEF Call

(* The activations left when the last one has returned true. *)
LEMMA PoppedFrames ==
    ASSUME NEW s \in Seq(Frame), s # <<>>
    PROVE  /\ Returned(Below(s)) \in Seq(Frame)
           /\ DOMAIN Returned(Below(s)) = 1..(Len(s) - 1)
           /\ \A i \in 1..(Len(s) - 1) : Returned(Below(s))[i].spec = s[i].spec
<1> DEFINE b == Below(s)
<1>1. b \in Seq(Frame) /\ Len(b) = Len(s) - 1 /\ \A i \in 1..(Len(s) - 1) : b[i] = s[i]
  BY BelowFrames
<1> HIDE DEF b
<1>2. DOMAIN b = 1..(Len(s) - 1)
  BY <1>1
<1>3. /\ Returned(b) \in Seq(Frame) /\ Len(Returned(b)) = Len(s) - 1
      /\ \A i \in DOMAIN b : Returned(b)[i].spec = b[i].spec
  BY <1>1, ReturnedFrames
<1>4. DOMAIN Returned(b) = 1..(Len(s) - 1)
  BY <1>3
<1> QED
  BY <1>1, <1>2, <1>3, <1>4 DEF b

LEMMA LoadQueueAlive ==
    ASSUME QueueInv, AliveInv, LoadQueue
    PROVE  AliveInv'
<1>1. /\ TypeOK /\ Queueing /\ ~Reading /\ ~Reading'
      /\ UNCHANGED <<pluginSpecs, dependencySpecs, state, plugins, refresh>>
  BY DEF QueueInv, LoadQueue, LoadQueueKnown, LoadQueueFails, LoadQueueEnters, LoadQueueAddsSelf,
         LoadQueueEnds, Call, CallFromList, CallFromSpec, Queueing, Reading, options
<1>2. /\ Closed' /\ \A p \in plugins' : ~Unresolved(p)'
      /\ \A p : Usual(p)' <=> Usual(p)
  BY <1>1, SameSpecs
<1>3. /\ \A i \in DOMAIN stack : Usual(stack[i].spec)
      /\ \A i \in DOMAIN queue : Usual(queue[i])
      /\ Elements(rest) \subseteq Elements(pluginSpecs)
      /\ stack \in Seq(Frame) /\ queue \in Seq(Plugins)
  BY <1>1 DEF AliveInv, TypeOK
<1> SUFFICES /\ Queueing' => Elements(rest') \subseteq Elements(pluginSpecs)
             /\ ~Queueing' => stack' = <<>>
             /\ \A i \in DOMAIN stack' : Usual(stack'[i].spec)
             /\ \A i \in DOMAIN queue' : Usual(queue'[i])
  BY <1>1, <1>2 DEF AliveInv
<1>4. ASSUME NEW p \in Plugins, LoadQueueKnown(p)
      PROVE  /\ Elements(rest') \subseteq Elements(pluginSpecs) /\ Queueing'
             /\ \A i \in DOMAIN stack' : Usual(stack'[i].spec)
             /\ \A i \in DOMAIN queue' : Usual(queue'[i])
  <2>1. /\ queue' = queue /\ stack' = Returned(stack) /\ phase' = phase
        /\ Elements(rest') \subseteq Elements(pluginSpecs)
    BY <1>4, CalledIsListed DEF LoadQueueKnown
  <2>2. /\ DOMAIN stack' = DOMAIN stack
        /\ \A i \in DOMAIN stack : stack'[i].spec = stack[i].spec
    BY <1>3, <2>1, ReturnedFrames
  <2> QED
    BY <1>1, <1>3, <2>1, <2>2 DEF Queueing
<1>5. ASSUME NEW p \in Plugins, LoadQueueFails(p)
      PROVE  /\ Elements(rest') \subseteq Elements(pluginSpecs) /\ Queueing'
             /\ \A i \in DOMAIN stack' : Usual(stack'[i].spec)
             /\ \A i \in DOMAIN queue' : Usual(queue'[i])
  BY <1>1, <1>3, <1>5, CalledIsListed DEF LoadQueueFails, Queueing
<1>6. ASSUME NEW p \in Plugins, LoadQueueEnters(p)
      PROVE  /\ Elements(rest') \subseteq Elements(pluginSpecs) /\ Queueing'
             /\ \A i \in DOMAIN stack' : Usual(stack'[i].spec)
             /\ \A i \in DOMAIN queue' : Usual(queue'[i])
  <2>1. /\ queue' = queue /\ phase' = phase
        /\ stack' = Append(stack, [spec |-> p, next |-> 1])
        /\ Elements(rest') \subseteq Elements(pluginSpecs)
        /\ Usual(p)
    BY <1>6, CalledIsListed DEF LoadQueueEnters, Activation, Usual
  <2>2. [spec |-> p, next |-> 1] \in Frame
    BY DEF Frame
  <2>3. /\ DOMAIN stack' = 1..(Len(stack) + 1) /\ Len(stack) \in Nat
        /\ DOMAIN stack = 1..Len(stack)
        /\ \A i \in 1..Len(stack) : stack'[i] = stack[i]
        /\ stack'[Len(stack) + 1] = [spec |-> p, next |-> 1]
    BY <1>3, <2>1, <2>2, AppendProperties
  <2> QED
    BY <1>1, <1>3, <2>1, <2>3 DEF Queueing
<1>7. ASSUME LoadQueueAddsSelf
      PROVE  /\ Elements(rest') \subseteq Elements(pluginSpecs) /\ Queueing'
             /\ \A i \in DOMAIN stack' : Usual(stack'[i].spec)
             /\ \A i \in DOMAIN queue' : Usual(queue'[i])
  <2>1. /\ rest' = rest /\ phase' = phase /\ stack # <<>>
        /\ stack' = Returned(Below(stack)) /\ queue' = Append(queue, Top.spec)
    BY <1>7 DEF LoadQueueAddsSelf
  <2>2. Len(stack) \in DOMAIN stack /\ DOMAIN stack = 1..Len(stack) /\ Len(stack) \in Nat
    BY <1>3, <2>1
  <2>3. /\ DOMAIN stack' = 1..(Len(stack) - 1)
        /\ \A i \in 1..(Len(stack) - 1) : stack'[i].spec = stack[i].spec
    BY <1>3, <2>1, PoppedFrames
  <2>4. Usual(Top.spec) /\ Top.spec \in Plugins
    <3>1. Top \in Frame
      BY <1>3, <2>2 DEF Top
    <3> QED
      BY <1>3, <2>2, <3>1 DEF Top, Frame
  <2>5. \A i \in DOMAIN queue' : Usual(queue'[i])
    <3>1. /\ Len(queue') = Len(queue) + 1 /\ queue'[Len(queue) + 1] = Top.spec
          /\ \A i \in DOMAIN queue : queue'[i] = queue[i]
          /\ queue' \in Seq(Plugins)
      BY <1>3, <2>1, <2>4, ContainsAppend
    <3>2. DOMAIN queue' = 1..(Len(queue) + 1) /\ DOMAIN queue = 1..Len(queue) /\ Len(queue) \in Nat
      BY <1>3, <3>1
    <3> QED
      BY <1>3, <2>4, <3>1, <3>2
  <2>6. \A i \in DOMAIN stack' : Usual(stack'[i].spec)
    BY <1>3, <2>2, <2>3
  <2> QED
    BY <1>1, <1>3, <2>1, <2>5, <2>6 DEF Queueing
<1>8. ASSUME LoadQueueEnds
      PROVE  /\ ~Queueing' /\ stack' = <<>>
             /\ \A i \in DOMAIN queue' : Usual(queue'[i])
  BY <1>3, <1>8 DEF LoadQueueEnds, Queueing
<1> QED
  BY <1>4, <1>5, <1>6, <1>7, <1>8 DEF LoadQueue

(* The step of a loop takes no spec back to the state it was read in. *)
LEMMA LoadPluginStates ==
    ASSUME TypeOK, AliveInv, NEW p \in Plugins,
           \/ LoadPluginSkips(p) \/ LoadPluginWithoutDependencies(p)
           \/ LoadPluginUp(p) \/ LoadPluginDown(p)
    PROVE  /\ \A q \in Plugins : Unresolved(q)' <=> Unresolved(q)
           /\ \A q \in plugins' : ~Unresolved(q)'
<1>1. /\ state \in [Plugins -> State] /\ plugins \subseteq Plugins
      /\ \A q \in plugins : state[q] # "Read"
  BY DEF TypeOK, AliveInv, Unresolved
<1>2. ASSUME NEW from, NEW to, NEW fails, Advance(p, from, to, fails),
             from # "Read", to # "Read"
      PROVE  \A q \in Plugins : state'[q] = "Read" <=> state[q] = "Read"
  BY <1>1, <1>2 DEF Advance, SetState, SetError
<1>3. CASE LoadPluginSkips(p) \/ LoadPluginWithoutDependencies(p)
  BY <1>1, <1>3 DEF LoadPluginSkips, LoadPluginWithoutDependencies, Unresolved
<1>4. CASE LoadPluginUp(p)
  <2>1. CASE LoadLibrary(p)
    BY <1>1, <1>2, <2>1 DEF LoadLibrary, Unresolved
  <2>2. CASE InitializePlugin(p)
    BY <1>1, <1>2, <2>2 DEF InitializePlugin, Unresolved
  <2>3. CASE InitializeExtensions(p)
    BY <1>1, <1>2, <2>3 DEF InitializeExtensions, Unresolved
  <2> QED
    BY <1>4, <2>1, <2>2, <2>3 DEF LoadPluginUp
<1>5. CASE LoadPluginDown(p)
  BY <1>1, <1>5 DEF LoadPluginDown, Stop, Kill, SetState, Unresolved
<1> QED
  BY <1>3, <1>4, <1>5

LEMMA NextAlive == QueueInv /\ AliveInv /\ [Next]_vars => AliveInv'
<1> SUFFICES ASSUME QueueInv, AliveInv, [Next]_vars PROVE AliveInv'
  OBVIOUS
<1>0. TypeOK
  BY DEF QueueInv
<1>1. CASE SetPluginPaths \/ (\E p \in Plugins : NoLoadOption(p)) \/ ParseOptions
  BY <1>1, OptionsAlive
<1>2. CASE LoadQueue
  BY <1>2, LoadQueueAlive
<1>3. ASSUME NEW p \in Plugins,
             \/ LoadPluginSkips(p) \/ LoadPluginWithoutDependencies(p)
             \/ LoadPluginUp(p) \/ LoadPluginDown(p)
      PROVE  AliveInv'
  <2>1. NextInLoop(p)
    BY <1>3 DEF LoadPluginSkips, LoadPluginWithoutDependencies, LoadPluginUp, LoadPluginDown
  <2>2. /\ UNCHANGED <<pluginSpecs, dependencySpecs, phase, queue, stack>>
        /\ ~Queueing /\ ~Reading
    BY <2>1 DEF NextInLoop, options, Queueing, Reading
  <2>3. /\ \A q \in Plugins : Unresolved(q)' <=> Unresolved(q)
        /\ \A q \in plugins' : ~Unresolved(q)'
    BY <1>0, <1>3, LoadPluginStates
  <2>4. Elements(pluginSpecs) \subseteq Plugins
    BY <1>0, ElementsContain DEF TypeOK
  <2>5. \A q : Usual(q)' <=> Usual(q)
    BY <2>2, <2>3, <2>4 DEF Usual
  <2>6. Closed'
    BY <2>2, <2>3, <2>4 DEF AliveInv, Closed
  <2> QED
    BY <2>2, <2>3, <2>5, <2>6 DEF AliveInv, Queueing, Reading
<1>4. CASE LoopEnds \/ StopAll
  <2>1. /\ UNCHANGED <<pluginSpecs, dependencySpecs, state, plugins>>
        /\ ~Reading /\ ~Reading' /\ ~Queueing
        /\ stack' = <<>>
        /\ queue' = queue \/ queue' = <<>>
        /\ Queueing' => rest' = pluginSpecs
    BY <1>4 DEF LoopEnds, StopAll, StartLoadQueue, options, Reading, Queueing, AliveInv
  <2> QED
    BY <2>1, SameSpecs DEF AliveInv
<1>5. CASE UNCHANGED vars
  BY <1>5 DEF vars, AliveInv, Closed, Unresolved, Usual, Queueing, Reading
<1> QED
  BY <1>1, <1>2, <1>3, <1>4, <1>5 DEF Next, LoadPlugin

LEMMA SpecAliveInv == Spec => []AliveInv
<1>1. Init => AliveInv
  BY DEF Init, AliveInv, Reading, Queueing, Closed, Unresolved, Elements
<1> QED
  BY <1>1, NextAlive, InitInv, NextInv, PTL DEF Spec

(* No pointer of a spec that is in the load queue leads to one that was    *)
(* deselected and deleted.                                                 *)
THEOREM QueueOfLiving == Spec => []QueueAlive
<1>1. QueueInv /\ AliveInv => QueueAlive
  <2> SUFFICES ASSUME QueueInv, AliveInv, NEW i \in DOMAIN queue
               PROVE  /\ Contains(pluginSpecs, queue[i])
                      /\ Elements(dependencySpecs[queue[i]]) \subseteq Elements(pluginSpecs)
    BY DEF QueueAlive
  <2>1. Usual(queue[i])
    BY DEF AliveInv
  <2>2. queue # <<>>
    OBVIOUS
  <2>3. Closed
    BY <2>2 DEF QueueInv, AliveInv, Reading
  <2> QED
    BY <2>1, <2>3, ElementsContain DEF Usual, Closed
<1> QED
  BY <1>1, SpecAliveInv, InitInv, NextInv, PTL DEF Spec

-----------------------------------------------------------------------------
(* Every action keeps Listed. *)

LEMMA HeadOrTail ==
    ASSUME NEW s \in Seq(Plugins), s # <<>>, NEW q, Contains(s, q)
    PROVE  q = Head(s) \/ Contains(Tail(s), q)
<1>1. /\ Len(s) \in Nat /\ Len(s) >= 1 /\ DOMAIN s = 1..Len(s) /\ Head(s) = s[1]
      /\ Tail(s) \in Seq(Plugins) /\ Len(Tail(s)) = Len(s) - 1
      /\ \A i \in 1..Len(Tail(s)) : Tail(s)[i] = s[i + 1]
  BY HeadTailProperties
<1>2. PICK i \in 1..Len(s) : s[i] = q
  BY <1>1 DEF Contains
<1>3. CASE i = 1
  BY <1>1, <1>2, <1>3
<1>4. CASE i > 1
  <2>1. i - 1 \in DOMAIN Tail(s) /\ Tail(s)[i - 1] = q
    <3>1. i - 1 \in 1..Len(Tail(s)) /\ (i - 1) + 1 = i
      BY <1>1, <1>4
    <3>2. DOMAIN Tail(s) = 1..Len(Tail(s))
      BY <1>1
    <3> QED
      BY <1>1, <1>2, <3>1, <3>2
  <2> QED
    BY <2>1 DEF Contains
<1> QED
  BY <1>1, <1>2, <1>3, <1>4

LEMMA LoadQueueListed ==
    ASSUME QueueInv, Listed, LoadQueue
    PROVE  Listed'
<1>1. /\ TypeOK /\ Queueing /\ ~Reading /\ phase # "down" /\ ~Reading' /\ phase' # "down"
      /\ UNCHANGED pluginSpecs
      /\ rest \in Seq(Plugins) /\ stack \in Seq(Frame) /\ queue \in Seq(Plugins)
  BY DEF QueueInv, TypeOK, LoadQueue, LoadQueueKnown, LoadQueueFails, LoadQueueEnters,
         LoadQueueAddsSelf, LoadQueueEnds, Call, CallFromList, CallFromSpec, Queueing,
         Reading, options
<1>2. ASSUME NEW p \in Plugins, Call(p)
      PROVE  /\ \A q : Contains(rest, q) => Contains(rest', q) \/ q = p
             /\ stack # <<>> => rest' = rest
  BY <1>1, <1>2, HeadOrTail DEF Call, CallFromList, CallFromSpec
<1>3. Len(stack) \in Nat /\ DOMAIN stack = 1..Len(stack) /\ (stack # <<>> => Len(stack) >= 1)
  BY <1>1
<1>4. ASSUME NEW p \in Plugins, LoadQueueKnown(p) PROVE Listed'
  <2>1. /\ Contains(queue, p) /\ UNCHANGED <<queue, circularityCheckQueue, hasError, phase>>
        /\ stack' = Returned(stack)
        /\ \A q : Contains(rest, q) => Contains(rest', q) \/ q = p
    BY <1>2, <1>4 DEF LoadQueueKnown, Known
  <2>2. /\ DOMAIN stack' = DOMAIN stack /\ (stack' = <<>> <=> stack = <<>>)
        /\ \A i \in DOMAIN stack : stack'[i].spec = stack[i].spec
    BY <1>1, <2>1, ReturnedFrames
  <2>3. Queueing'
    BY <1>1, <2>1 DEF Queueing
  <2>4. stack # <<>> => stack' # <<>> /\ stack'[1].spec = stack[1].spec
    BY <1>3, <2>2
  <2>5. ASSUME NEW q \in circularityCheckQueue'
        PROVE  Contains(queue, q) \/ \E i \in DOMAIN stack' : stack'[i].spec = q
    BY <2>1, <2>2, <2>5 DEF Listed
  <2>6. ASSUME NEW q \in Elements(pluginSpecs)
        PROVE  \/ q \in hasError \/ Contains(queue, q) \/ Contains(rest', q)
               \/ stack' # <<>> /\ stack'[1].spec = q
    BY <1>1, <2>1, <2>4 DEF Listed
  <2> QED
    BY <1>1, <2>1, <2>3, <2>5, <2>6 DEF Listed, Contains
<1>5. ASSUME NEW p \in Plugins, LoadQueueFails(p) PROVE Listed'
  <2>1. /\ UNCHANGED <<queue, phase>> /\ circularityCheckQueue' = {}
        /\ hasError' = hasError \cup {p} \cup {stack[i].spec : i \in DOMAIN stack}
        /\ \A q : Contains(rest, q) => Contains(rest', q) \/ q = p
    BY <1>2, <1>5 DEF LoadQueueFails
  <2>2. stack # <<>> => stack[1].spec \in hasError'
    BY <1>3, <2>1
  <2>3. Queueing'
    BY <1>1, <2>1 DEF Queueing
  <2> QED
    BY <1>1, <2>1, <2>2, <2>3 DEF Listed, Contains
<1>6. ASSUME NEW p \in Plugins, LoadQueueEnters(p) PROVE Listed'
  <2>1. /\ UNCHANGED <<queue, phase, hasError>>
        /\ circularityCheckQueue' = circularityCheckQueue \cup {p}
        /\ stack' = Append(stack, [spec |-> p, next |-> 1])
        /\ \A q : Contains(rest, q) => Contains(rest', q) \/ q = p
        /\ stack # <<>> => rest' = rest
    BY <1>2, <1>6 DEF LoadQueueEnters, Visit, Activation
  <2>2. [spec |-> p, next |-> 1] \in Frame
    BY DEF Frame
  <2>3. /\ DOMAIN stack' = 1..(Len(stack) + 1) /\ stack' # <<>>
        /\ \A i \in 1..Len(stack) : stack'[i] = stack[i]
        /\ stack'[Len(stack) + 1].spec = p
    BY <1>1, <2>1, <2>2, AppendProperties
  <2>4. IF stack = <<>> THEN stack'[1].spec = p ELSE stack'[1] = stack[1]
    BY <1>3, <2>3
  <2>5. Queueing'
    BY <1>1, <2>1 DEF Queueing
  <2>6. ASSUME NEW q \in circularityCheckQueue'
        PROVE  Contains(queue, q) \/ \E i \in DOMAIN stack' : stack'[i].spec = q
    <3>1. CASE q = p
      BY <1>3, <2>3, <3>1
    <3>2. CASE q \in circularityCheckQueue
      BY <1>3, <2>3, <3>2 DEF Listed
    <3> QED
      BY <2>1, <2>6, <3>1, <3>2
  <2>7. ASSUME NEW q \in Elements(pluginSpecs)
        PROVE  \/ q \in hasError \/ Contains(queue, q) \/ Contains(rest', q)
               \/ stack'[1].spec = q
    BY <1>1, <2>1, <2>4 DEF Listed
  <2> QED
    BY <1>1, <2>1, <2>3, <2>5, <2>6, <2>7 DEF Listed, Contains
<1>7. ASSUME LoadQueueAddsSelf PROVE Listed'
  <2> DEFINE n == Len(stack)
  <2>0. n \in Nat /\ n >= 1 /\ DOMAIN stack = 1..n
    BY <1>3, <1>7 DEF LoadQueueAddsSelf
  <2>1. /\ UNCHANGED <<rest, phase, hasError>> /\ stack # <<>>
        /\ stack' = Returned(Below(stack)) /\ queue' = Append(queue, stack[n].spec)
        /\ circularityCheckQueue' \subseteq circularityCheckQueue
    BY <1>7 DEF LoadQueueAddsSelf, Top
  <2>2. n \in 1..n /\ stack[n].spec \in Plugins
    <3>1. n \in 1..n
      BY <2>0
    <3>2. stack[n] \in Frame
      BY <1>1, <2>0, <3>1, ElementOfSeq
    <3> QED
      BY <3>1, <3>2 DEF Frame
  <2>3. \A q : Contains(queue', q) <=> Contains(queue, q) \/ q = stack[n].spec
    BY <1>1, <2>1, <2>2, ContainsAppend
  <2>4. /\ DOMAIN stack' = 1..(n - 1) /\ stack' \in Seq(Frame)
        /\ \A i \in 1..(n - 1) : stack'[i].spec = stack[i].spec
    BY <1>1, <2>1, PoppedFrames
  <2>5. Queueing'
    BY <1>1, <2>1 DEF Queueing
  <2> HIDE DEF n
  <2>6. ASSUME NEW q \in circularityCheckQueue'
        PROVE  Contains(queue', q) \/ \E i \in DOMAIN stack' : stack'[i].spec = q
    <3>1. Contains(queue, q) \/ \E i \in 1..n : stack[i].spec = q
      BY <2>0, <2>1, <2>6 DEF Listed
    <3>2. \A i \in 1..n : i = n \/ i \in 1..(n - 1)
      BY <2>0
    <3> QED
      BY <2>3, <2>4, <3>1, <3>2
  <2>7. ASSUME NEW q \in Elements(pluginSpecs)
        PROVE  \/ q \in hasError \/ Contains(queue', q) \/ Contains(rest, q)
               \/ stack' # <<>> /\ stack'[1].spec = q
    <3>1. \/ q \in hasError \/ Contains(queue, q) \/ Contains(rest, q)
          \/ stack[1].spec = q
      BY <1>1, <2>1 DEF Listed
    <3>2. CASE n = 1
      BY <2>3, <3>1, <3>2
    <3>3. CASE n > 1
      <4>1. 1 \in 1..(n - 1)
        BY <2>0, <3>3
      <4>2. stack'[1].spec = stack[1].spec
        BY <2>4, <4>1
      <4>3. DOMAIN <<>> = {}
        OBVIOUS
      <4>4. stack' # <<>>
        BY <2>4, <4>1, <4>3
      <4> QED
        BY <2>3, <3>1, <4>2, <4>4
    <3> QED
      BY <2>0, <3>2, <3>3
  <2> QED
    BY <1>1, <2>1, <2>5, <2>6, <2>7 DEF Listed, Contains
<1>8. ASSUME LoadQueueEnds PROVE Listed'
  <2>1. UNCHANGED <<queue, hasError, circularityCheckQueue, stack>> /\ stack = <<>> /\ rest = <<>>
    BY <1>8 DEF LoadQueueEnds
  <2>2. \A q : ~Contains(rest, q)
    BY <2>1 DEF Contains
  <2> QED
    BY <1>1, <2>1, <2>2 DEF Listed, Contains
<1> QED
  BY <1>4, <1>5, <1>6, <1>7, <1>8 DEF LoadQueue

LEMMA NextListed == QueueInv /\ AliveInv /\ Listed /\ [Next]_vars => Listed'
<1> SUFFICES ASSUME QueueInv, AliveInv, Listed, [Next]_vars PROVE Listed'
  OBVIOUS
<1>1. CASE SetPluginPaths \/ \E p \in Plugins : NoLoadOption(p)
  <2>1. UNCHANGED <<queue, stack, circularityCheckQueue>> /\ Reading'
    BY <1>1 DEF SetPluginPaths, NoLoadOption, Reading
  <2> QED
    BY <2>1 DEF Listed, Contains
<1>2. CASE ParseOptions \/ StopAll
  <2>1. /\ circularityCheckQueue' = {} /\ rest' = pluginSpecs /\ pluginSpecs' = pluginSpecs
        /\ Queueing'
    BY <1>2 DEF ParseOptions, StopAll, StartLoadQueue, Queueing, options
  <2> QED
    BY <2>1, ElementsContain DEF Listed
<1>3. CASE LoadQueue
  BY <1>3, LoadQueueListed
<1>4. ASSUME NEW p \in Plugins,
             \/ LoadPluginSkips(p) \/ LoadPluginWithoutDependencies(p)
             \/ LoadPluginUp(p) \/ LoadPluginDown(p)
      PROVE  Listed'
  <2>1. NextInLoop(p)
    BY <1>4 DEF LoadPluginSkips, LoadPluginWithoutDependencies, LoadPluginUp, LoadPluginDown
  <2>2. /\ UNCHANGED <<pluginSpecs, phase, queue, stack, circularityCheckQueue>>
        /\ ~Queueing /\ ~Reading /\ phase # "down"
    BY <2>1 DEF NextInLoop, options, Queueing, Reading
  <2>3. hasError \subseteq hasError'
    BY <1>4 DEF LoadPluginSkips, LoadPluginWithoutDependencies, LoadPluginUp, LoadPluginDown,
       LoadLibrary, InitializePlugin, InitializeExtensions, Advance, SetError, Stop, Kill
  <2> QED
    BY <2>2, <2>3 DEF Listed, Contains
<1>5. CASE LoopEnds
  <2>1. /\ UNCHANGED <<pluginSpecs, queue, stack, circularityCheckQueue, hasError>>
        /\ ~Queueing /\ ~Reading /\ phase # "down"
    BY <1>5 DEF LoopEnds, options, Queueing, Reading
  <2> QED
    BY <2>1 DEF Listed, Contains
<1>6. CASE UNCHANGED vars
  BY <1>6 DEF vars, Listed, Contains, Queueing, Reading
<1> QED
  BY <1>1, <1>2, <1>3, <1>4, <1>5, <1>6 DEF Next, LoadPlugin

-----------------------------------------------------------------------------
(* The loops over the load queue, place by place. *)

(* What a loop takes next is the place after, or before, those treated. *)
LEMMA NextPlace ==
    ASSUME TypeOK, LoopInv, NEW p \in Plugins, NextInLoop(p)
    PROVE  /\ \E t \in DOMAIN queue :
                 /\ queue[t] = p
                 /\ Treated' = Treated \cup {t}
                 /\ \A i \in DOMAIN queue :
                       i \in Treated <=> IF Backwards THEN i > t ELSE i < t
           /\ LoopInv'
<1> DEFINE l == Len(queue)
           r == Len(rest)
<1>1. /\ UNCHANGED <<phase, queue>> /\ rest # <<>> /\ p = Head(rest) /\ rest' = Tail(rest)
      /\ InLoop /\ rest \in Seq(Plugins) /\ queue \in Seq(Plugins)
  BY DEF NextInLoop, TypeOK, InLoop
<1>2. /\ l \in Nat /\ r \in Nat /\ r >= 1 /\ DOMAIN queue = 1..l /\ DOMAIN rest = 1..r
      /\ p = rest[1] /\ DOMAIN rest' = 1..(r - 1) /\ Len(rest') = r - 1
      /\ \A i \in 1..(r - 1) : rest'[i] = rest[i + 1]
  <2>1. /\ Tail(rest) \in Seq(Plugins) /\ Len(Tail(rest)) = Len(rest) - 1
        /\ \A i \in 1..Len(Tail(rest)) : Tail(rest)[i] = rest[i + 1]
    BY <1>1, HeadTailProperties
  <2>2. Head(rest) = rest[1] /\ Len(rest) \in Nat /\ Len(rest) >= 1
    BY <1>1
  <2> QED
    BY <1>1, <2>1, <2>2
<1>3. /\ r <= l
      /\ \A i \in 1..r : rest[i] = IF Backwards THEN queue[r + 1 - i] ELSE queue[l - r + i]
  BY <1>1, <1>2 DEF LoopInv
<1>4. Backwards' <=> Backwards
  BY <1>1 DEF Backwards
<1> HIDE DEF l, r
<1>5. /\ Treated = IF Backwards THEN (r + 1)..l ELSE 1..(l - r)
      /\ Treated' = IF Backwards THEN (r - 1 + 1)..l ELSE 1..(l - (r - 1))
  BY <1>1, <1>2, <1>4 DEF Treated, l, r
<1>6. CASE Backwards
  <2>1. r \in DOMAIN queue /\ queue[r] = p
    BY <1>2, <1>3, <1>6
  <2>2. Treated' = Treated \cup {r}
    BY <1>2, <1>3, <1>5, <1>6
  <2>3. \A i \in DOMAIN queue : i \in Treated <=> i > r
    BY <1>2, <1>5, <1>6
  <2>4. \A i \in 1..(r - 1) : rest'[i] = queue[(r - 1) + 1 - i]
    <3> SUFFICES ASSUME NEW i \in 1..(r - 1) PROVE rest'[i] = queue[(r - 1) + 1 - i]
      OBVIOUS
    <3>1. i + 1 \in 1..r /\ r + 1 - (i + 1) = (r - 1) + 1 - i
      BY <1>2
    <3> QED
      BY <1>2, <1>3, <1>6, <3>1
  <2>5. LoopInv'
    <3>1. Len(rest') <= Len(queue')
      BY <1>1, <1>2, <1>3 DEF l
    <3>2. \A i \in DOMAIN rest' : rest'[i] = queue'[Len(rest') + 1 - i]
      BY <1>1, <1>2, <2>4
    <3> QED
      BY <1>4, <1>6, <3>1, <3>2 DEF LoopInv
  <2> QED
    BY <1>6, <2>1, <2>2, <2>3, <2>5
<1>7. CASE ~Backwards
  <2> DEFINE t == l - r + 1
  <2>1. t \in DOMAIN queue /\ queue[t] = p
    BY <1>2, <1>3, <1>7
  <2>2. Treated' = Treated \cup {t}
    BY <1>2, <1>3, <1>5, <1>7
  <2>3. \A i \in DOMAIN queue : i \in Treated <=> i < t
    BY <1>2, <1>3, <1>5, <1>7
  <2>4. \A i \in 1..(r - 1) : rest'[i] = queue[l - (r - 1) + i]
    <3> SUFFICES ASSUME NEW i \in 1..(r - 1) PROVE rest'[i] = queue[l - (r - 1) + i]
      OBVIOUS
    <3>1. i + 1 \in 1..r /\ l - r + (i + 1) = l - (r - 1) + i
      BY <1>2
    <3> QED
      BY <1>2, <1>3, <1>7, <3>1
  <2>5. LoopInv'
    <3>1. Len(rest') <= Len(queue')
      BY <1>1, <1>2, <1>3 DEF l
    <3>2. \A i \in DOMAIN rest' : rest'[i] = queue'[Len(queue') - Len(rest') + i]
      BY <1>1, <1>2, <2>4 DEF l
    <3> QED
      BY <1>4, <1>7, <3>1, <3>2 DEF LoopInv
  <2> QED
    BY <1>7, <2>1, <2>2, <2>3, <2>5
<1> QED
  BY <1>6, <1>7

(* A loop that begins has treated nothing ... *)
LEMMA LoopBegins ==
    ASSUME TypeOK, UNCHANGED queue,
           \/ ~Backwards' /\ rest' = queue
           \/ Backwards' /\ rest' = Reversed(queue)
    PROVE  LoopInv' /\ Treated' = {}
<1> DEFINE l == Len(queue)
<1>1. l \in Nat /\ DOMAIN queue = 1..l /\ queue' = queue /\ queue \in Seq(Plugins)
  BY DEF TypeOK
<1>2. CASE ~Backwards' /\ rest' = queue
  <2>1. Len(rest') = l /\ Len(queue') = l /\ DOMAIN rest' = 1..l
    BY <1>1, <1>2
  <2> HIDE DEF l
  <2>2. \A i \in 1..l : l - l + i = i
    BY <1>1
  <2>3. \A i \in 1..l : rest'[i] = queue'[l - l + i]
    BY <1>1, <1>2, <2>2
  <2>4. LoopInv'
    BY <1>1, <1>2, <2>1, <2>3 DEF LoopInv
  <2>5. Treated' = 1..(l - l)
    BY <1>2, <2>1 DEF Treated
  <2> QED
    BY <1>1, <2>4, <2>5
<1>3. CASE Backwards' /\ rest' = Reversed(queue)
  <2>1. Reversed(queue) \in Seq(Plugins) /\ DOMAIN Reversed(queue) = 1..l
    BY <1>1, ReversedType DEF Reversed
  <2>2. Len(rest') = l /\ DOMAIN rest' = 1..l
    BY <1>1, <1>3, <2>1
  <2>3. \A i \in 1..l : rest'[i] = queue[l + 1 - i]
    BY <1>1, <1>3 DEF Reversed
  <2>4. LoopInv'
    BY <1>1, <1>3, <2>2, <2>3 DEF LoopInv
  <2>5. Treated' = (l + 1)..l
    BY <1>1, <1>3, <2>2 DEF Treated
  <2> QED
    BY <1>1, <2>4, <2>5
<1> QED
  BY <1>2, <1>3

(* ... and one that ends has treated all. *)
LEMMA LoopOver ==
    ASSUME TypeOK, rest = <<>>
    PROVE  Treated = DOMAIN queue
<1>1. Len(rest) = 0 /\ Len(queue) \in Nat /\ DOMAIN queue = 1..Len(queue)
  BY DEF TypeOK
<1> QED
  BY <1>1 DEF Treated

LEMMA LoopEndsPlaces ==
    ASSUME TypeOK, LoopEnds \/ LoadQueueEnds
    PROVE  /\ LoopInv'
           /\ phase' \notin {"up", "down"} => Treated' = {}
<1>1. \/ /\ phase' \in {"Loaded", "Initialized", "Running", "Stopped", "Deleted"}
         /\ IF phase' \in {"Running", "Deleted"} THEN rest' = Reversed(queue) ELSE rest' = queue
      \/ phase' \in {"up", "down"}
  BY DEF LoopEnds, LoadQueueEnds, ExtensionsOrder, DeleteOrder, Queueing
<1>2. UNCHANGED queue
  BY DEF LoopEnds, LoadQueueEnds
<1>3. CASE phase' \in {"up", "down"}
  BY <1>3 DEF LoopInv, InLoop
<1>4. CASE phase' \notin {"up", "down"}
  BY <1>1, <1>2, <1>4, LoopBegins DEF Backwards
<1> QED
  BY <1>3, <1>4

LEMMA NextLoop == QueueInv /\ LoopInv /\ [Next]_vars => LoopInv'
<1> SUFFICES ASSUME QueueInv, LoopInv, [Next]_vars PROVE LoopInv'
  OBVIOUS
<1>0. TypeOK
  BY DEF QueueInv
<1>1. CASE \/ SetPluginPaths \/ (\E p \in Plugins : NoLoadOption(p))
           \/ ParseOptions \/ StopAll
  <2>1. phase' \in {"options", "loadQueue", "stopQueue"}
    BY <1>1 DEF SetPluginPaths, NoLoadOption, ParseOptions, StopAll, StartLoadQueue
  <2> QED
    BY <2>1 DEF LoopInv, InLoop
<1>2. CASE LoadQueue
  <2>1. CASE LoadQueueEnds
    BY <1>0, <2>1, LoopEndsPlaces
  <2>2. CASE ~LoadQueueEnds
    <3>1. Queueing'
      BY <1>2, <2>2 DEF LoadQueue, LoadQueueKnown, LoadQueueFails, LoadQueueEnters,
         LoadQueueAddsSelf, Call, CallFromList, CallFromSpec, Queueing
    <3> QED
      BY <3>1 DEF Queueing, LoopInv, InLoop
  <2> QED
    BY <2>1, <2>2
<1>3. CASE \E p \in Plugins :
             \/ LoadPluginSkips(p) \/ LoadPluginWithoutDependencies(p)
             \/ LoadPluginUp(p) \/ LoadPluginDown(p)
  <2>1. PICK p \in Plugins : NextInLoop(p)
    BY <1>3 DEF LoadPluginSkips, LoadPluginWithoutDependencies, LoadPluginUp, LoadPluginDown
  <2> QED
    BY <1>0, <2>1, NextPlace
<1>4. CASE LoopEnds
  BY <1>0, <1>4, LoopEndsPlaces
<1>5. CASE UNCHANGED vars
  BY <1>5 DEF vars, LoopInv, InLoop, Backwards
<1> QED
  BY <1>1, <1>2, <1>3, <1>4, <1>5 DEF Next, LoadPlugin

-----------------------------------------------------------------------------
(* What one step of a loop does to its plugin: nothing, an error, or the   *)
(* state that the loop is for.                                             *)

Idles(p) ==
    /\ UNCHANGED <<state, hasError, plugins>>
    /\ \/ p \in hasError
       \/ ~(phase \in {"Stopped", "Deleted"}) /\ state[p] = phase
       \/ phase \in {"Stopped", "Deleted"} /\ p \notin plugins

Blames(p) ==
    /\ p \notin hasError
    /\ SetError(p)
    /\ UNCHANGED <<state, plugins>>
    /\ \/ phase = "Loaded"
       \/ phase = "Initialized" /\ (state[p] # "Initialized" \/ ~DependenciesReached(p))
       \/ /\ phase = "Running" /\ state[p] # "Running"
          /\ state[p] # "Initialized" \/ p \notin plugins
       \/ phase = "Stopped" /\ ~DependenciesReached(p)

Moves(p) ==
    /\ p \notin hasError
    /\ SetState(p, phase)
    /\ UNCHANGED hasError
    /\ \/ /\ phase = "Loaded" /\ state[p] = "Resolved" /\ DependenciesReached(p)
          /\ plugins' = plugins \cup {p}
       \/ /\ phase = "Initialized" /\ state[p] = "Loaded" /\ DependenciesReached(p)
          /\ p \in plugins /\ UNCHANGED plugins
       \/ phase = "Running" /\ state[p] = "Initialized" /\ p \in plugins /\ UNCHANGED plugins
       \/ phase = "Stopped" /\ DependenciesReached(p) /\ p \in plugins /\ UNCHANGED plugins
       \/ phase = "Deleted" /\ p \in plugins /\ plugins' = plugins \ {p}

LEMMA Outcomes ==
    ASSUME TypeOK, NEW p \in Plugins, state[p] = "Loaded" => p \in plugins,
           \/ LoadPluginSkips(p) \/ LoadPluginWithoutDependencies(p)
           \/ LoadPluginUp(p) \/ LoadPluginDown(p)
    PROVE  NextInLoop(p) /\ (Idles(p) \/ Blames(p) \/ Moves(p))
<1>1. state \in [Plugins -> State] /\ plugins \subseteq Plugins
  BY DEF TypeOK
<1>2. CASE LoadPluginSkips(p) \/ LoadPluginWithoutDependencies(p)
  BY <1>2 DEF LoadPluginSkips, LoadPluginWithoutDependencies, Idles, Blames
<1>3. CASE LoadPluginUp(p)
  <2>1. NextInLoop(p) /\ p \notin hasError
    BY <1>3 DEF LoadPluginUp
  <2>2. CASE phase = "Loaded" /\ DependenciesReached(p) /\ LoadLibrary(p)
    <3>1. CASE state[p] = "Loaded"
      BY <2>1, <2>2, <3>1 DEF LoadLibrary, Advance, Idles
    <3>2. CASE state[p] # "Loaded" /\ (state[p] # "Resolved" \/ broken[p] = "library")
      BY <2>1, <2>2, <3>2 DEF LoadLibrary, Advance, Blames
    <3>3. CASE state[p] = "Resolved" /\ broken[p] # "library"
      <4>1. SetState(p, "Loaded") /\ UNCHANGED hasError
        BY <2>2, <3>3 DEF LoadLibrary, Advance
      <4>2. state'[p] = "Loaded"
        BY <1>1, <4>1 DEF SetState
      <4>3. plugins' = plugins \cup {p}
        BY <2>2, <4>2 DEF LoadLibrary
      <4> QED
        BY <2>1, <2>2, <3>3, <4>1, <4>3 DEF Moves
    <3> QED
      BY <3>1, <3>2, <3>3
  <2>3. CASE phase = "Initialized" /\ DependenciesReached(p) /\ InitializePlugin(p)
    BY <2>1, <2>3 DEF InitializePlugin, Advance, Idles, Blames, Moves
  <2>4. CASE phase = "Running" /\ InitializeExtensions(p)
    BY <2>1, <2>4 DEF InitializeExtensions, Advance, Idles, Blames, Moves
  <2> QED
    BY <1>3, <2>2, <2>3, <2>4 DEF LoadPluginUp
<1>4. CASE LoadPluginDown(p)
  BY <1>4 DEF LoadPluginDown, Stop, Kill, Idles, Moves
<1> QED
  BY <1>2, <1>3, <1>4

-----------------------------------------------------------------------------
(* The states of the plugins, phase by phase. *)

(* In a list that is sorted a plugin has one place, after the places of    *)
(* those it depends on.                                                    *)
LEMMA SortedPlaces ==
    ASSUME TypeOK, NEW q \in Seq(Plugins), Sorted(q)
    PROVE  /\ \A i, j \in DOMAIN q : q[i] = q[j] => i = j
           /\ \A i \in DOMAIN q : \A d \in Elements(dependencySpecs[q[i]]) :
                 \E j \in DOMAIN q : j < i /\ q[j] = d
<1>1. Len(q) \in Nat /\ DOMAIN q = 1..Len(q)
  OBVIOUS
<1>2. ASSUME NEW i \in DOMAIN q, NEW j \in DOMAIN q, i < j PROVE q[i] # q[j]
  <2>1. i \in 1..(j - 1)
    BY <1>1, <1>2
  <2> QED
    BY <2>1 DEF Sorted
<1>3. ASSUME NEW i \in DOMAIN q, NEW d \in Elements(dependencySpecs[q[i]])
      PROVE  \E j \in DOMAIN q : j < i /\ q[j] = d
  <2>1. PICK k \in DOMAIN dependencySpecs[q[i]] : d = dependencySpecs[q[i]][k]
    BY DEF Elements
  <2>2. PICK j \in 1..(i - 1) : q[j] = d
    BY <2>1 DEF Sorted
  <2>3. j \in DOMAIN q /\ j < i
    BY <1>1
  <2> QED
    BY <2>2, <2>3
<1>4. ASSUME NEW i \in DOMAIN q, NEW j \in DOMAIN q, q[i] = q[j] PROVE i = j
  <2>1. i \in Nat /\ j \in Nat
    BY <1>1
  <2> QED
    BY <1>2, <1>4, <2>1
<1> QED
  BY <1>3, <1>4

LEMMA QueuePlaces ==
    ASSUME QueueInv
    PROVE  /\ \A i, j \in DOMAIN queue : queue[i] = queue[j] => i = j
           /\ \A i \in DOMAIN queue : \A d \in Elements(dependencySpecs[queue[i]]) :
                 \E j \in DOMAIN queue : j < i /\ queue[j] = d
<1>1. TypeOK /\ queue \in Seq(Plugins) /\ Sorted(queue)
  BY DEF QueueInv, QueueSorted, Sorted, TypeOK
<1> QED
  BY <1>1, SortedPlaces

LEMMA DependencyType ==
    ASSUME TypeOK, NEW p \in Plugins, NEW d \in Elements(dependencySpecs[p])
    PROVE  d \in Plugins
BY DEF TypeOK, Elements

LEMMA LiveByPhase ==
    /\ \A ph \in {"start", "options", "loadQueue", "Loaded"} : LiveStates(ph) = {}
    /\ LiveStates("Initialized") = {"Initialized"}
    /\ LiveStates("Running") = {"Initialized", "Running"}
    /\ \A ph \in {"up", "stopQueue"} : LiveStates(ph) = {"Running"}
    /\ LiveStates("Stopped") = {"Running", "Stopped"}
    /\ \A ph \in {"Deleted", "down"} : LiveStates(ph) = {"Stopped"}
BY DEF LiveStates

(* A plugin that lives is in the queue of every loop after loadQueue(). *)
LEMMA InstancesQueued ==
    ASSUME TypeOK, AliveInv, Listed, Instances, ~Reading, ~Queueing, phase # "down",
           NEW p \in plugins, p \notin hasError
    PROVE  \E i \in DOMAIN queue : queue[i] = p
<1>1. p \in Elements(pluginSpecs) /\ stack = <<>>
  BY DEF Instances, AliveInv
<1> QED
  BY <1>1 DEF Listed, Contains

(* Most of the order between the states of a plugin and those it depends   *)
(* on follows from what the phase allows.                                  *)
LEMMA OrderByPhase ==
    TypeOK /\ Instances
    /\ (phase \notin {"Running", "up", "stopQueue", "Stopped"} \/ plugins = {})
    => LifecycleOrder
<1> SUFFICES ASSUME TypeOK, Instances,
                    phase \notin {"Running", "up", "stopQueue", "Stopped"} \/ plugins = {},
                    NEW p \in Elements(pluginSpecs), NEW d \in Elements(dependencySpecs[p])
             PROVE  /\ state[p] \in Up => state[d] \in Up \cup {"Stopped"}
                    /\ state[p] = "Stopped" => state[d] = "Stopped"
                    /\ state[d] = "Running" /\ p \notin hasError => state[p] = "Running"
  BY Zenon DEF LifecycleOrder
<1>1. p \in Plugins /\ d \in Plugins /\ phase \in Phase
  BY ElementsContain, DependencyType DEF TypeOK
<1>2. /\ Live(p) => state[p] \in LiveStates(phase) /\ Live(d)
      /\ Live(d) => state[d] \in LiveStates(phase)
      /\ Live(p) => p \in plugins
      /\ Live(d) => d \in plugins
  BY <1>1 DEF Instances
<1>3. CASE plugins = {}
  BY <1>2, <1>3 DEF Live, Up
<1>4. CASE phase \in {"start", "options", "loadQueue", "Loaded"}
  BY <1>2, <1>4, LiveByPhase DEF Live, Up
<1>5. CASE phase = "Initialized"
  BY <1>2, <1>5, LiveByPhase DEF Live, Up
<1>6. CASE phase \in {"Deleted", "down"}
  BY <1>2, <1>6, LiveByPhase DEF Live, Up
<1> QED
  BY <1>1, <1>3, <1>4, <1>5, <1>6 DEF Phase

(* extensionsInitialized() runs backwards: whoever depends on a plugin     *)
(* that runs comes after it in the queue.                                  *)
LEMMA OrderOfRunning ==
    QueueInv /\ AliveInv /\ Listed /\ LoopInv /\ Instances /\ Progress /\ phase = "Running"
    => LifecycleOrder
<1> SUFFICES ASSUME QueueInv, AliveInv, Listed, LoopInv, Instances, Progress,
                    phase = "Running",
                    NEW p \in Elements(pluginSpecs), NEW d \in Elements(dependencySpecs[p])
             PROVE  /\ state[p] \in Up => state[d] \in Up \cup {"Stopped"}
                    /\ state[p] = "Stopped" => state[d] = "Stopped"
                    /\ state[d] = "Running" /\ p \notin hasError => state[p] = "Running"
  BY Zenon DEF LifecycleOrder
<1>1. TypeOK /\ p \in Plugins /\ d \in Plugins
  BY ElementsContain, DependencyType DEF QueueInv, TypeOK
<1>2. /\ Live(p) => state[p] \in {"Initialized", "Running"} /\ Live(d)
      /\ Live(d) => state[d] \in {"Initialized", "Running"} /\ d \notin hasError
  BY <1>1, LiveByPhase DEF Instances
<1>3. ASSUME state[d] = "Running", p \notin hasError PROVE state[p] = "Running"
  <2>1. d \notin hasError
    BY <1>2, <1>3 DEF Live
  <2>2. PICK i \in DOMAIN queue : queue[i] = p
    <3>1. ~Queueing /\ ~Reading /\ stack = <<>>
      BY DEF Queueing, Reading, AliveInv
    <3> QED
      BY <1>3, <3>1 DEF Listed, Contains
  <2>3. PICK j \in DOMAIN queue : j < i /\ queue[j] = d
    BY <2>2, QueuePlaces
  <2>4. j \in Treated
    BY <1>3, <2>1, <2>3 DEF Progress
  <2>5. i \in Treated
    <3>1. DOMAIN queue = 1..Len(queue) /\ Len(queue) \in Nat /\ Len(rest) \in Nat
      BY <1>1 DEF TypeOK
    <3>2. Treated = (Len(rest) + 1)..Len(queue)
      BY DEF Treated, Backwards
    <3> QED
      BY <2>3, <2>4, <3>1, <3>2
  <2> QED
    BY <1>3, <2>2, <2>5 DEF Progress
<1> QED
  BY <1>2, <1>3 DEF Live, Up

(* The steps that change no plugin's state. *)
LEMMA SameInstances ==
    ASSUME TypeOK, Instances,
           UNCHANGED <<pluginSpecs, dependencySpecs, state, plugins>>,
           hasError \subseteq hasError', \A p \in hasError' \ hasError : ~Live(p),
           phase' \in {"start", "options", "loadQueue"} => plugins = {},
           \A p \in Plugins : Live(p) => state[p] \in LiveStates(phase'),
           phase' \notin {"Deleted", "down"} => phase \notin {"Deleted", "down"},
           phase' \in {"Running", "up", "stopQueue", "Stopped", "Deleted", "down"} =>
               \A p \in plugins \ hasError : Live(p)
    PROVE  Instances'
<1>1. \A p : Live(p)' <=> Live(p)
  BY DEF Live
<1>2. \A p \in Plugins : p \in plugins' <=> state'[p] = "Loaded" \/ Live(p)'
  BY <1>1 DEF Instances
<1>3. plugins' \subseteq Elements(pluginSpecs')
  BY DEF Instances
<1>4. ASSUME NEW p \in Plugins, Live(p)'
      PROVE  /\ state'[p] \in LiveStates(phase')
             /\ p \notin hasError'
             /\ \A d \in Elements(dependencySpecs'[p]) : Live(d)'
  BY <1>1, <1>4 DEF Instances
<1>5. phase' \notin {"Deleted", "down"} =>
          \A p \in plugins' : Elements(dependencySpecs'[p]) \subseteq plugins'
  BY DEF Instances
<1>6. phase' \in {"Running", "up", "stopQueue", "Stopped", "Deleted", "down"} =>
          \A p \in plugins' \ hasError' : Live(p)'
  BY <1>1
<1> QED
  BY <1>2, <1>3, <1>4, <1>5, <1>6 DEF Instances

LEMMA SameOrder ==
    ASSUME LifecycleOrder, UNCHANGED <<pluginSpecs, dependencySpecs, state>>,
           hasError \subseteq hasError'
    PROVE  LifecycleOrder'
<1> SUFFICES ASSUME NEW p \in Elements(pluginSpecs), NEW d \in Elements(dependencySpecs[p])
             PROVE  /\ state[p] \in Up => state[d] \in Up \cup {"Stopped"}
                    /\ state[p] = "Stopped" => state[d] = "Stopped"
                    /\ state[d] = "Running" /\ p \notin hasError' => state[p] = "Running"
  BY Zenon DEF LifecycleOrder
<1>1. /\ state[p] \in Up => state[d] \in Up \cup {"Stopped"}
      /\ state[p] = "Stopped" => state[d] = "Stopped"
      /\ state[d] = "Running" /\ p \notin hasError => state[p] = "Running"
  BY Zenon DEF LifecycleOrder
<1> QED
  BY <1>1

(* Before loadPlugins() there are no plugins. *)
LEMMA OptionsLife ==
    ASSUME QueueInv, QueueInv', AliveInv, AliveInv', LifeInv,
           \/ SetPluginPaths
           \/ \E p \in Plugins : NoLoadOption(p)
           \/ ParseOptions
    PROVE  LifeInv'
<1>1. /\ TypeOK /\ TypeOK' /\ Reading /\ plugins = {} /\ plugins' = {} /\ Instances
      /\ phase' \in {"options", "loadQueue", "stopQueue"}
      /\ phase' = "stopQueue" => queue' = <<>> /\ stack' = <<>>
  BY DEF QueueInv, AliveInv, SetPluginPaths, NoLoadOption, ParseOptions, StartLoadQueue,
         Reading, LifeInv
<1>2. ASSUME NEW p \in Plugins
      PROVE  state'[p] # "Loaded" /\ ~Live(p)'
  <2>1. state[p] # "Loaded" /\ ~Live(p)
    BY <1>1 DEF Instances
  <2>2. state'[p] \in {"Resolved", "Read", state[p]}
    <3>1. CASE UNCHANGED state
      BY <3>1
    <3>2. ASSUME NEW specs, ResolveDependencies(specs)
          PROVE  state'[p] \in {"Resolved", "Read", state[p]}
      BY <3>2 DEF ResolveDependencies
    <3> QED
      BY <3>1, <3>2 DEF SetPluginPaths, NoLoadOption, ParseOptions, RefreshDependencies
  <2> QED
    BY <2>1, <2>2 DEF Live
<1>3. Instances'
  BY <1>1, <1>2 DEF Instances
<1>4. Progress'
  BY <1>1 DEF Progress
<1>5. LifecycleOrder'
  <2>1. (phase \notin {"Running", "up", "stopQueue", "Stopped"} \/ plugins = {})'
    BY <1>1
  <2> QED
    BY <1>1, <1>3, <2>1, OrderByPhase, PTL
<1>6. Sortable'
  <2> SUFFICES ASSUME phase' = "stopQueue"
               PROVE  \E q \in Seq(Plugins) :
                         /\ Sorted(q)'
                         /\ \A p \in Plugins : Live(p)' => Contains(q, p)
                         /\ Descends(q)'
    BY DEF Sortable, SortableIn, Contains
  <2>1. <<>> \in Seq(Plugins) /\ DOMAIN <<>> = {}
    OBVIOUS
  <2>2. Sorted(<<>>)'
    BY <2>1 DEF Sorted
  <2>3. Descends(<<>>)'
    BY <1>1, <2>1 DEF Descends
  <2> QED
    BY <1>2, <2>1, <2>2, <2>3
<1> QED
  BY <1>3, <1>4, <1>5, <1>6 DEF LifeInv

(* The plugins that run go into the second queue as they do in the first:  *)
(* with one, all those above it on the stack are among them, each earlier. *)
LEMMA CallDescends ==
    ASSUME QueueInv, Instances, NEW p \in Plugins, Call(p),
           NEW q \in Seq(Plugins), Sorted(q), Descends(q),
           \A r \in Plugins : Live(r) => Contains(q, r),
           NEW i \in DOMAIN stack, Live(stack[i].spec)
    PROVE  /\ Live(p)
           /\ \A x, y \in DOMAIN q : q[x] = stack[i].spec /\ q[y] = p => y < x
<1> DEFINE n == Len(stack)
           t == stack[n].spec
<1>1. TypeOK /\ stack \in Seq(Frame)
  BY DEF QueueInv, TypeOK
<1>2. n \in Nat /\ DOMAIN stack = 1..n /\ n \in DOMAIN stack /\ stack # <<>>
  BY <1>1
<1>3. stack[n] \in Frame /\ Top = stack[n]
  BY <1>1, <1>2, ElementOfSeq DEF Top
<1>4. t \in Plugins /\ p \in Elements(dependencySpecs[t])
  BY <1>1, <1>2, <1>3, CallType DEF Elements, Frame
<1>5. /\ \A a, b \in DOMAIN q : q[a] = q[b] => a = b
      /\ \A a \in DOMAIN q : \A d \in Elements(dependencySpecs[q[a]]) :
            \E b \in DOMAIN q : b < a /\ q[b] = d
  BY <1>1, SortedPlaces
<1>6. ASSUME Live(t)
      PROVE  /\ Live(p)
             /\ \A x, y \in DOMAIN q : q[x] = t /\ q[y] = p => y < x
  <2>1. Live(p)
    BY <1>4, <1>6 DEF Instances
  <2>2. ASSUME NEW x \in DOMAIN q, NEW y \in DOMAIN q, q[x] = t, q[y] = p
        PROVE  y < x
    <3>1. p \in Elements(dependencySpecs[q[x]])
      BY <1>4, <2>2
    <3>2. PICK b \in DOMAIN q : b < x /\ q[b] = p
      BY <1>5, <3>1
    <3> QED
      BY <1>5, <2>2, <3>2
  <2> QED
    BY <2>1, <2>2
<1>7. CASE i = n
  BY <1>6, <1>7
<1>8. CASE i # n
  <2>1. i < n
    BY <1>2, <1>8
  <2>2. /\ Live(t)
        /\ \A x, y \in DOMAIN q : q[x] = stack[i].spec /\ q[y] = t => y < x
    BY <1>2, <2>1 DEF Descends
  <2>3. PICK z \in DOMAIN q : q[z] = t
    BY <1>4, <2>2 DEF Contains
  <2>4. DOMAIN q \subseteq Int
    OBVIOUS
  <2>5. ASSUME NEW x \in DOMAIN q, NEW y \in DOMAIN q, q[x] = stack[i].spec, q[y] = p
        PROVE  y < x
    <3>1. y < z /\ z < x
      BY <1>6, <2>2, <2>3, <2>5
    <3> QED
      BY <2>4, <3>1
  <2> QED
    BY <1>6, <2>2, <2>5
<1> QED
  BY <1>7, <1>8

LEMMA LoadQueueSortable ==
    ASSUME QueueInv, Listed, Instances, Sortable, NEW p \in Plugins, phase = "stopQueue",
           LoadQueueKnown(p) \/ LoadQueueFails(p) \/ LoadQueueEnters(p)
    PROVE  /\ Sortable'
           /\ \A x \in hasError' \ hasError : ~Live(x)
<1>1. /\ TypeOK /\ stack \in Seq(Frame) /\ Call(p) /\ phase' = phase
      /\ UNCHANGED <<state, dependencySpecs>>
  BY DEF QueueInv, TypeOK, LoadQueueKnown, LoadQueueFails, LoadQueueEnters, options
<1>2. PICK q \in Seq(Plugins) :
         /\ Sorted(q)
         /\ \A x \in Plugins : Live(x) => Contains(q, x)
         /\ Descends(q)
  BY DEF Sortable, SortableIn
<1>3. \A x : Live(x)' <=> Live(x)
  BY <1>1 DEF Live
<1>4. Sorted(q)'
  BY <1>1, <1>2 DEF Sorted
<1>5. ASSUME Descends(q)' PROVE Sortable'
  <2>1. \A x \in Plugins : Live(x)' => Contains(q, x)
    BY <1>2, <1>3
  <2> QED
    BY <1>4, <1>5, <2>1 DEF Sortable, SortableIn, Contains
<1>6. ASSUME NEW i \in DOMAIN stack, Live(stack[i].spec)
      PROVE  /\ Live(p)
             /\ \A x, y \in DOMAIN q : q[x] = stack[i].spec /\ q[y] = p => y < x
  BY <1>1, <1>2, <1>6, CallDescends
<1>7. CASE LoadQueueKnown(p)
  <2>1. stack' = Returned(stack) /\ hasError' = hasError
    BY <1>7 DEF LoadQueueKnown
  <2>2. /\ DOMAIN stack' = DOMAIN stack
        /\ \A i \in DOMAIN stack : stack'[i].spec = stack[i].spec
    BY <1>1, <2>1, ReturnedFrames
  <2>3. Descends(q)'
    BY <1>2, <1>3, <2>2 DEF Descends
  <2> QED
    BY <1>5, <2>1, <2>3
<1>8. CASE LoadQueueFails(p)
  <2>1. /\ stack' = <<>> /\ ~Contains(queue, p)
        /\ p \in circularityCheckQueue \/ state[p] = "Read"
        /\ hasError' = hasError \cup {p} \cup {stack[i].spec : i \in DOMAIN stack}
    BY <1>8 DEF LoadQueueFails, Known, Unresolved
  <2>2. Descends(q)'
    BY <2>1 DEF Descends
  <2>3. ~Live(p)
    <3> SUFFICES ASSUME Live(p) PROVE FALSE
      OBVIOUS
    <3>1. p \in circularityCheckQueue
      BY <2>1 DEF Live
    <3>2. PICK i \in DOMAIN stack : stack[i].spec = p
      BY <2>1, <3>1 DEF Listed
    <3>3. PICK x \in DOMAIN q : q[x] = p
      BY <1>2 DEF Contains
    <3>4. x < x /\ x \in Int
      BY <1>6, <3>2, <3>3
    <3> QED
      BY <3>4
  <2>4. \A i \in DOMAIN stack : ~Live(stack[i].spec)
    BY <1>6, <2>3
  <2> QED
    BY <1>5, <2>1, <2>2, <2>3, <2>4
<1>9. CASE LoadQueueEnters(p)
  <2>1. stack' = Append(stack, [spec |-> p, next |-> 1]) /\ hasError' = hasError
    BY <1>9 DEF LoadQueueEnters, Activation
  <2>2. [spec |-> p, next |-> 1] \in Frame
    BY DEF Frame
  <2>3. /\ DOMAIN stack' = 1..(Len(stack) + 1) /\ DOMAIN stack = 1..Len(stack)
        /\ \A i \in 1..Len(stack) : stack'[i] = stack[i]
        /\ stack'[Len(stack) + 1].spec = p /\ Len(stack) \in Nat
    BY <1>1, <2>1, <2>2, AppendProperties
  <2> SUFFICES ASSUME NEW i \in DOMAIN stack', NEW j \in DOMAIN stack', i < j,
                      Live(stack'[i].spec)
               PROVE  /\ Live(stack'[j].spec)
                      /\ \A x, y \in DOMAIN q :
                            q[x] = stack'[i].spec /\ q[y] = stack'[j].spec => y < x
    <3>1. Descends(q)'
      BY <1>3 DEF Descends
    <3> QED
      BY <1>5, <2>1, <3>1
  <2>4. i \in DOMAIN stack /\ stack'[i] = stack[i]
    BY <2>3
  <2>5. CASE j \in DOMAIN stack
    <3>1. stack'[j] = stack[j]
      BY <2>3, <2>5
    <3> QED
      BY <1>2, <2>4, <2>5, <3>1 DEF Descends
  <2>6. CASE j = Len(stack) + 1
    BY <1>6, <2>3, <2>4, <2>6
  <2> QED
    BY <2>3, <2>5, <2>6
<1> QED
  BY <1>7, <1>8, <1>9

LEMMA AddsSelfSortable ==
    ASSUME QueueInv, Sortable, LoadQueueAddsSelf
    PROVE  Sortable'
<1>1. /\ stack \in Seq(Frame) /\ stack # <<>> /\ phase' = phase
      /\ stack' = Returned(Below(stack))
      /\ UNCHANGED <<state, dependencySpecs>>
  BY DEF QueueInv, TypeOK, LoadQueueAddsSelf, options
<1> SUFFICES ASSUME phase = "stopQueue" PROVE Sortable'
  BY <1>1 DEF Sortable, SortableIn
<1>2. PICK q \in Seq(Plugins) :
         /\ Sorted(q)
         /\ \A x \in Plugins : Live(x) => Contains(q, x)
         /\ Descends(q)
  BY DEF Sortable, SortableIn
<1>3. \A x : Live(x)' <=> Live(x)
  BY <1>1 DEF Live
<1>4. Sorted(q)'
  BY <1>1, <1>2 DEF Sorted
<1>5. /\ DOMAIN stack' = 1..(Len(stack) - 1) /\ DOMAIN stack = 1..Len(stack)
      /\ \A i \in 1..(Len(stack) - 1) : stack'[i].spec = stack[i].spec
      /\ Len(stack) \in Nat
  BY <1>1, PoppedFrames
<1>6. \A i \in DOMAIN stack' : i \in DOMAIN stack /\ stack'[i].spec = stack[i].spec
  BY <1>5
<1>7. Descends(q)'
  BY <1>2, <1>3, <1>6 DEF Descends
<1> QED
  BY <1>2, <1>3, <1>4, <1>7 DEF Sortable, SortableIn, Contains

LEMMA LoadQueueLife ==
    ASSUME QueueInv, AliveInv, AliveInv', Listed, LifeInv, LoadQueue
    PROVE  LifeInv'
<1>1. /\ TypeOK /\ Instances /\ LifecycleOrder /\ Sortable /\ Queueing
      /\ UNCHANGED <<pluginSpecs, dependencySpecs, state, plugins>>
      /\ hasError \subseteq hasError'
      /\ phase' = phase \/ LoadQueueEnds
      /\ LoadQueueEnds => \/ phase = "loadQueue" /\ phase' = "Loaded"
                          \/ phase = "stopQueue" /\ phase' = "Stopped"
  BY DEF QueueInv, LifeInv, LoadQueue, LoadQueueKnown, LoadQueueFails, LoadQueueEnters,
         LoadQueueAddsSelf, LoadQueueEnds, Call, CallFromList, CallFromSpec, Queueing, options
<1>2. \A p \in Plugins : Live(p) => phase = "stopQueue" /\ state[p] = "Running"
  BY <1>1, LiveByPhase DEF Instances, Queueing
<1>3. hasError' \subseteq Plugins
  BY <1>1, NextInv DEF QueueInv, TypeOK, Next
<1>4. /\ Sortable'
      /\ \A p \in hasError' \ hasError : ~Live(p)
  <2>1. CASE LoadQueueEnds
    <3>1. phase' # "stopQueue" /\ hasError' = hasError
      BY <1>1, <2>1 DEF LoadQueueEnds
    <3> QED
      BY <3>1 DEF Sortable, SortableIn
  <2>2. CASE phase = "loadQueue" /\ ~LoadQueueEnds
    BY <1>1, <1>2, <1>3, <2>2 DEF Sortable, SortableIn
  <2>3. CASE phase = "stopQueue" /\ LoadQueueAddsSelf
    BY <1>1, <2>3, AddsSelfSortable DEF LoadQueueAddsSelf
  <2>4. CASE phase = "stopQueue" /\ ~LoadQueueEnds /\ ~LoadQueueAddsSelf
    BY <1>1, <2>4, LoadQueueSortable DEF LoadQueue
  <2> QED
    BY <1>1, <2>1, <2>2, <2>3, <2>4 DEF Queueing
<1>5. LifecycleOrder'
  BY <1>1, SameOrder
<1>6. Instances'
  <2>1. \A p \in Plugins : Live(p) => state[p] \in LiveStates(phase')
    BY <1>1, <1>2, LiveByPhase
  <2>2. phase = "loadQueue" => plugins = {}
    BY <1>1 DEF Instances
  <2>3. phase = "stopQueue" => \A p \in plugins \ hasError : Live(p)
    BY <1>1 DEF Instances
  <2> QED
    BY <1>1, <1>4, <2>1, <2>2, <2>3, SameInstances DEF Queueing
<1>7. Progress'
  <2>1. CASE phase' \in {"loadQueue", "stopQueue", "Loaded"}
    <3>1. phase' = "Loaded" => Treated' = {}
      BY <1>1, LoopEndsPlaces DEF Queueing
    <3> QED
      BY <2>1, <3>1 DEF Progress
  <2>2. CASE phase' = "Stopped"
    <3>1. LoadQueueEnds /\ queue' = queue
      BY <1>1, <2>2 DEF Queueing, LoadQueueEnds
    <3>2. Treated' = {}
      BY <1>1, <2>2, <3>1, LoopEndsPlaces
    <3>3. \A p \in Plugins : Live(p)' => state'[p] = "Running"
      BY <1>1, <1>2 DEF Live
    <3>4. \A i \in DOMAIN queue' : queue'[i] \in Plugins
      BY <1>1, <3>1 DEF TypeOK
    <3>5. \A i \in DOMAIN queue' : Live(queue[i])' => state'[queue'[i]] = "Running"
      BY <3>3, <3>4 DEF Live
    <3> QED
      BY <2>2, <3>2, <3>5 DEF Progress
  <2> QED
    BY <1>1, <2>1, <2>2 DEF Queueing
<1> QED
  BY <1>4, <1>5, <1>6, <1>7 DEF LifeInv

(* One step of a loop. *)

(* The place in the queue that the loop treats, and the plugin there.      *)
LEMMA TreatedPlace ==
    ASSUME QueueInv, AliveInv, LoopInv, NEW p \in Plugins, NextInLoop(p)
    PROVE  /\ p \in Elements(pluginSpecs)
           /\ \E t \in DOMAIN queue :
                 /\ queue[t] = p
                 /\ Treated' = Treated \cup {t}
                 /\ \A i \in DOMAIN queue : queue[i] = p => i = t
                 /\ \A i \in DOMAIN queue :
                       i \in Treated <=> IF Backwards THEN i > t ELSE i < t
<1>1. TypeOK
  BY DEF QueueInv
<1>2. PICK t \in DOMAIN queue :
         /\ queue[t] = p
         /\ Treated' = Treated \cup {t}
         /\ \A i \in DOMAIN queue :
               i \in Treated <=> IF Backwards THEN i > t ELSE i < t
  BY <1>1, NextPlace
<1>3. p \in Elements(pluginSpecs)
  BY <1>2 DEF AliveInv, Usual
<1>4. \A i \in DOMAIN queue : queue[i] = p => i = t
  BY <1>2, QueuePlaces
<1> QED
  BY <1>2, <1>3, <1>4

LEMMA IdlesLife ==
    ASSUME QueueInv, AliveInv, LoopInv, Instances, Progress, LifecycleOrder,
           NEW p \in Plugins, NextInLoop(p), Idles(p)
    PROVE  Instances' /\ Progress' /\ LifecycleOrder'
<1>1. /\ TypeOK /\ UNCHANGED <<pluginSpecs, dependencySpecs, state, plugins, hasError,
                             phase, queue>>
      /\ InLoop
  BY DEF QueueInv, NextInLoop, options, Idles, InLoop
<1>2. Instances'
  <2>1. /\ \A q \in Plugins : Live(q) => state[q] \in LiveStates(phase)
        /\ phase \in {"start", "options", "loadQueue"} => plugins = {}
        /\ phase \in {"Running", "up", "stopQueue", "Stopped", "Deleted", "down"} =>
               \A q \in plugins \ hasError : Live(q)
    BY DEF Instances
  <2> QED
    BY <1>1, <2>1, SameInstances
<1>3. LifecycleOrder'
  BY <1>1, SameOrder
<1>4. PICK t \in DOMAIN queue :
         queue[t] = p /\ Treated' = Treated \cup {t}
  BY TreatedPlace
<1>5. /\ Live(p) => p \in plugins /\ p \notin hasError
      /\ p \in hasError \/ (phase \notin {"Stopped", "Deleted"} /\ state[p] = phase)
         \/ (phase \in {"Stopped", "Deleted"} /\ p \notin plugins)
  BY DEF Instances, Idles
<1>6. Progress'
  <2>1. \A q : Live(q)' <=> Live(q)
    BY <1>1 DEF Live
  <2>2. ASSUME NEW i \in DOMAIN queue, i \notin Treated' \/ i \in Treated
        PROVE  i \in Treated' <=> i \in Treated
    BY <1>4, <2>2
  <2> SUFFICES ASSUME NEW i \in DOMAIN queue
        PROVE  /\ phase = "Loaded" /\ i \in Treated' /\ queue[i] \notin hasError =>
                     state[queue[i]] = "Loaded"
               /\ phase = "Initialized" /\ i \in Treated' /\ queue[i] \notin hasError =>
                     state[queue[i]] = "Initialized"
               /\ phase = "Running" /\ queue[i] \notin hasError =>
                     state[queue[i]] = IF i \in Treated' THEN "Running" ELSE "Initialized"
               /\ phase = "Stopped" /\ Live(queue[i]) =>
                     state[queue[i]] = IF i \in Treated' THEN "Stopped" ELSE "Running"
               /\ phase = "Deleted" /\ i \in Treated' => ~Live(queue[i])
    BY <1>1, Zenon DEF Progress, Live
  <2>3. CASE i \in Treated \/ i \notin Treated'
    BY <2>2, <2>3 DEF Progress
  <2>4. CASE i = t
    BY <1>4, <1>5, <2>4
  <2> QED
    BY <1>4, <2>3, <2>4
<1> QED
  BY <1>2, <1>3, <1>6

LEMMA BlamesLife ==
    ASSUME QueueInv, AliveInv, LoopInv, Instances, Progress, LifecycleOrder,
           NEW p \in Plugins, NextInLoop(p), Blames(p)
    PROVE  Instances' /\ Progress' /\ LifecycleOrder'
<1>1. /\ TypeOK /\ UNCHANGED <<pluginSpecs, dependencySpecs, state, plugins, phase, queue>>
      /\ hasError' = hasError \cup {p}
      /\ p \notin hasError
      /\ \/ phase = "Loaded"
         \/ phase = "Initialized" /\ (state[p] # "Initialized" \/ ~DependenciesReached(p))
         \/ /\ phase = "Running" /\ state[p] # "Running"
            /\ state[p] # "Initialized" \/ p \notin plugins
         \/ phase = "Stopped" /\ ~DependenciesReached(p)
  BY DEF QueueInv, NextInLoop, options, Blames, SetError
<1>2. PICK t \in DOMAIN queue :
         /\ queue[t] = p /\ Treated' = Treated \cup {t}
         /\ \A i \in DOMAIN queue : i \in Treated <=> IF Backwards THEN i > t ELSE i < t
  BY TreatedPlace
<1>3. ~Live(p)
  <2> SUFFICES ASSUME Live(p) PROVE FALSE
    OBVIOUS
  <2>1. /\ state[p] \in LiveStates(phase) /\ p \in plugins
        /\ \A d \in Elements(dependencySpecs[p]) : d \in Plugins /\ Live(d)
                                                   /\ state[d] \in LiveStates(phase)
    BY <1>1, DependencyType DEF Instances
  <2>2. CASE phase = "Loaded"
    BY <2>1, <2>2, LiveByPhase
  <2>3. CASE phase = "Initialized"
    BY <1>1, <2>1, <2>3, LiveByPhase DEF DependenciesReached, Elements
  <2>4. CASE phase = "Running"
    BY <1>1, <2>1, <2>4, LiveByPhase
  <2>5. CASE phase = "Stopped"
    <3>1. ASSUME NEW d \in Elements(dependencySpecs[p]) PROVE state[d] = "Stopped"
      <4>1. PICK j \in DOMAIN queue : j < t /\ queue[j] = d
        BY <1>2, QueuePlaces
      <4>2. j \in Treated
        BY <1>2, <2>5, <4>1 DEF Backwards
      <4> QED
        BY <2>1, <2>5, <4>1, <4>2 DEF Progress
    <3> QED
      BY <1>1, <2>5, <3>1 DEF DependenciesReached, Elements
  <2> QED
    BY <1>1, <2>2, <2>3, <2>4, <2>5
<1>4. Instances'
  <2>1. /\ \A q \in Plugins : Live(q) => state[q] \in LiveStates(phase)
        /\ phase \in {"start", "options", "loadQueue"} => plugins = {}
        /\ phase \in {"Running", "up", "stopQueue", "Stopped", "Deleted", "down"} =>
               \A q \in plugins \ hasError : Live(q)
    BY DEF Instances
  <2>2. hasError \subseteq hasError' /\ \A q \in hasError' \ hasError : ~Live(q)
    BY <1>1, <1>3
  <2> QED
    BY <1>1, <2>1, <2>2, SameInstances
<1>5. LifecycleOrder'
  BY <1>1, SameOrder
<1>6. Progress'
  <2> SUFFICES ASSUME NEW i \in DOMAIN queue
        PROVE  /\ phase = "Loaded" /\ i \in Treated' /\ queue[i] \notin hasError' =>
                     state[queue[i]] = "Loaded"
               /\ phase = "Initialized" /\ i \in Treated' /\ queue[i] \notin hasError' =>
                     state[queue[i]] = "Initialized"
               /\ phase = "Running" /\ queue[i] \notin hasError' =>
                     state[queue[i]] = IF i \in Treated' THEN "Running" ELSE "Initialized"
               /\ phase = "Stopped" /\ Live(queue[i]) =>
                     state[queue[i]] = IF i \in Treated' THEN "Stopped" ELSE "Running"
               /\ phase = "Deleted" /\ i \in Treated' => ~Live(queue[i])
    BY <1>1, Zenon DEF Progress, Live
  <2>1. CASE i # t
    <3>1. i \in Treated' <=> i \in Treated
      BY <1>2, <2>1
    <3>2. queue[i] \notin hasError' => queue[i] \notin hasError
      BY <1>1
    <3> QED
      BY <3>1, <3>2 DEF Progress
  <2>2. CASE i = t
    BY <1>1, <1>2, <1>3, <2>2
  <2> QED
    BY <2>1, <2>2
<1> QED
  BY <1>4, <1>5, <1>6

(* loadPlugin() succeeds: what each destState makes of the instances. *)
LEMMA MovesInstances ==
    ASSUME QueueInv, AliveInv, Listed, LoopInv, Instances, Progress,
           NEW p \in Plugins, NextInLoop(p), Moves(p)
    PROVE  Instances'
<1>1. /\ TypeOK /\ UNCHANGED <<pluginSpecs, dependencySpecs, phase, queue, hasError>>
      /\ p \notin hasError /\ state' = [state EXCEPT ![p] = phase]
      /\ state \in [Plugins -> State] /\ plugins \subseteq Plugins
  BY DEF QueueInv, NextInLoop, options, Moves, SetState, TypeOK
<1>2. /\ state'[p] = phase
      /\ \A q \in Plugins : q # p => state'[q] = state[q]
  BY <1>1
<1>3. PICK t \in DOMAIN queue :
         /\ queue[t] = p
         /\ \A i \in DOMAIN queue : queue[i] = p => i = t
         /\ \A i \in DOMAIN queue : i \in Treated <=> IF Backwards THEN i > t ELSE i < t
  BY TreatedPlace
<1>4. p \in Elements(pluginSpecs)
  BY TreatedPlace
<1>5. /\ \A q \in Plugins : q # p => (Live(q)' <=> Live(q))
      /\ Live(p)' <=> phase \in {"Initialized", "Running", "Stopped"}
  BY <1>2 DEF Live
<1>6. ASSUME NEW q \in Plugins, NEW d \in Elements(dependencySpecs[q])
      PROVE  d \in Plugins
  BY <1>1, DependencyType
<1>7. CASE phase = "Loaded"
  <2>1. /\ plugins' = plugins \cup {p} /\ DependenciesReached(p)
        /\ \A q \in Plugins : ~Live(q)
    BY <1>7, LiveByPhase DEF Moves, Instances
  <2>2. Elements(dependencySpecs[p]) \subseteq plugins
    <3> SUFFICES ASSUME NEW d \in Elements(dependencySpecs[p]) PROVE d \in plugins
      OBVIOUS
    <3>1. state[d] = "Loaded"
      BY <1>7, <2>1 DEF DependenciesReached, Elements
    <3> QED
      BY <1>6, <3>1 DEF Instances
  <2>3. \A q \in Plugins : ~Live(q)'
    BY <1>5, <1>7, <2>1
  <2>4. \A q \in Plugins : q \in plugins' <=> state'[q] = "Loaded"
    BY <1>2, <1>7, <2>1 DEF Instances
  <2>5. \A q \in plugins' : Elements(dependencySpecs'[q]) \subseteq plugins'
    BY <1>1, <1>7, <2>1, <2>2 DEF Instances
  <2>6. plugins' \subseteq Elements(pluginSpecs')
    BY <1>1, <1>4, <2>1 DEF Instances
  <2> QED
    BY <1>1, <1>7, <2>3, <2>4, <2>5, <2>6, Zenon DEF Instances
<1>8. CASE phase \in {"Initialized", "Running", "Stopped"}
  <2>1. plugins' = plugins /\ p \in plugins
    BY <1>8 DEF Moves
  <2>2. \A d \in Elements(dependencySpecs[p]) : Live(d)
    <3>1. CASE phase = "Initialized"
      BY <3>1 DEF Moves, DependenciesReached, Elements, Live
    <3>2. CASE phase \in {"Running", "Stopped"}
      <4>1. Live(p)
        BY <1>1, <2>1, <3>2 DEF Instances
      <4> QED
        BY <4>1 DEF Instances
    <3> QED
      BY <1>8, <3>1, <3>2
  <2>3. \A q \in Plugins : q \in plugins' <=> state'[q] = "Loaded" \/ Live(q)'
    BY <1>2, <1>5, <1>8, <2>1 DEF Instances
  <2>4. ASSUME NEW q \in Plugins, Live(q)'
        PROVE  /\ state'[q] \in LiveStates(phase')
               /\ q \notin hasError'
               /\ \A d \in Elements(dependencySpecs'[q]) : Live(d)'
    <3>1. \A d \in Elements(dependencySpecs[q]) : Live(d)
      BY <1>5, <2>2, <2>4 DEF Instances
    <3>2. \A d \in Elements(dependencySpecs[q]) : Live(d)'
      BY <1>5, <1>6, <1>8, <3>1
    <3>3. q \notin hasError
      BY <1>1, <1>5, <2>4 DEF Instances
    <3>4. state'[q] \in LiveStates(phase)
      <4>1. CASE q = p
        BY <1>2, <1>8, <4>1, LiveByPhase
      <4>2. CASE q # p
        BY <1>2, <1>5, <2>4, <4>2 DEF Instances
      <4> QED
        BY <4>1, <4>2
    <3> QED
      BY <1>1, <3>2, <3>3, <3>4
  <2>5. \A q \in plugins' : Elements(dependencySpecs'[q]) \subseteq plugins'
    BY <1>1, <1>8, <2>1 DEF Instances
  <2>6. plugins' \subseteq Elements(pluginSpecs')
    BY <1>1, <2>1 DEF Instances
  <2>7. phase' \in {"Running", "up", "stopQueue", "Stopped", "Deleted", "down"} =>
            \A q \in plugins' \ hasError' : Live(q)'
    BY <1>1, <1>5, <1>8, <2>1 DEF Instances
  <2>8. phase' \notin {"start", "options", "loadQueue"}
    BY <1>1, <1>8
  <2> QED
    BY <2>3, <2>4, <2>5, <2>6, <2>7, <2>8, Zenon DEF Instances
<1>9. CASE phase = "Deleted"
  <2>1. plugins' = plugins \ {p} /\ p \in plugins
    BY <1>9 DEF Moves
  <2>2. ~Live(p)'
    BY <1>5, <1>9
  <2>3. \A q \in Plugins : q \in plugins' <=> state'[q] = "Loaded" \/ Live(q)'
    BY <1>2, <1>5, <1>9, <2>1 DEF Instances
  <2>4. ASSUME NEW q \in Plugins, Live(q)'
        PROVE  /\ state'[q] \in LiveStates(phase')
               /\ q \notin hasError'
               /\ \A d \in Elements(dependencySpecs'[q]) : Live(d)'
    <3>1. q # p /\ Live(q)
      BY <1>5, <2>2, <2>4
    <3>2. /\ state[q] \in LiveStates(phase) /\ q \notin hasError /\ q \in plugins
          /\ \A d \in Elements(dependencySpecs[q]) : Live(d)
      BY <3>1 DEF Instances
    <3>3. PICK i \in DOMAIN queue : queue[i] = q
      BY <1>1, <1>9, <3>2, InstancesQueued DEF Reading, Queueing
    <3>4. i \notin Treated
      BY <1>9, <3>1, <3>3 DEF Progress
    <3>5. p \notin Elements(dependencySpecs[q])
      <4> SUFFICES ASSUME p \in Elements(dependencySpecs[q]) PROVE FALSE
        OBVIOUS
      <4>1. PICK j \in DOMAIN queue : j < i /\ queue[j] = p
        BY <3>3, QueuePlaces
      <4>2. j = t /\ i > t
        BY <1>1, <1>3, <4>1
      <4> QED
        BY <1>3, <1>9, <3>4, <4>2 DEF Backwards
    <3>6. \A d \in Elements(dependencySpecs[q]) : Live(d)'
      BY <1>5, <1>6, <3>2, <3>5
    <3> QED
      BY <1>1, <1>2, <3>1, <3>2, <3>6
  <2>5. plugins' \subseteq Elements(pluginSpecs')
    BY <1>1, <2>1 DEF Instances
  <2>6. \A q \in plugins' \ hasError' : Live(q)'
    BY <1>1, <1>5, <1>9, <2>1 DEF Instances
  <2>7. phase' = "Deleted"
    BY <1>1, <1>9
  <2> QED
    BY <2>3, <2>4, <2>5, <2>6, <2>7, Zenon DEF Instances
<1> QED
  BY <1>7, <1>8, <1>9 DEF Moves

LEMMA MovesProgress ==
    ASSUME QueueInv, AliveInv, LoopInv, Progress,
           NEW p \in Plugins, NextInLoop(p), Moves(p)
    PROVE  Progress'
<1>1. /\ TypeOK /\ UNCHANGED <<phase, queue, hasError>>
      /\ state' = [state EXCEPT ![p] = phase]
      /\ state \in [Plugins -> State] /\ \A i \in DOMAIN queue : queue[i] \in Plugins
  BY DEF QueueInv, NextInLoop, Moves, SetState, TypeOK
<1>2. /\ state'[p] = phase
      /\ \A q \in Plugins : q # p => state'[q] = state[q]
  BY <1>1
<1>3. PICK t \in DOMAIN queue :
         /\ queue[t] = p /\ Treated' = Treated \cup {t}
         /\ \A i \in DOMAIN queue : queue[i] = p => i = t
  BY TreatedPlace
<1> SUFFICES ASSUME NEW i \in DOMAIN queue
    PROVE  /\ phase = "Loaded" /\ i \in Treated' /\ queue[i] \notin hasError =>
                 state'[queue[i]] = "Loaded"
           /\ phase = "Initialized" /\ i \in Treated' /\ queue[i] \notin hasError =>
                 state'[queue[i]] = "Initialized"
           /\ phase = "Running" /\ queue[i] \notin hasError =>
                 state'[queue[i]] = IF i \in Treated' THEN "Running" ELSE "Initialized"
           /\ phase = "Stopped"
              /\ state'[queue[i]] \in {"Initialized", "Running", "Stopped"} =>
                 state'[queue[i]] = IF i \in Treated' THEN "Stopped" ELSE "Running"
           /\ phase = "Deleted" /\ i \in Treated' =>
                 state'[queue[i]] \notin {"Initialized", "Running", "Stopped"}
  BY <1>1, Zenon DEF Progress, Live
<1>4. CASE i = t
  BY <1>2, <1>3, <1>4
<1>5. CASE i # t
  <2>1. (i \in Treated' <=> i \in Treated) /\ state'[queue[i]] = state[queue[i]]
    BY <1>1, <1>2, <1>3, <1>5
  <2> QED
    BY <2>1 DEF Progress, Live
<1> QED
  BY <1>4, <1>5

LEMMA MovesOrder ==
    ASSUME QueueInv, LifecycleOrder, phase = "Stopped",
           NEW p \in Plugins, NextInLoop(p), Moves(p)
    PROVE  LifecycleOrder'
<1>1. /\ TypeOK /\ UNCHANGED <<pluginSpecs, dependencySpecs, hasError>>
      /\ state' = [state EXCEPT ![p] = "Stopped"]
      /\ state \in [Plugins -> State] /\ DependenciesReached(p)
  BY DEF QueueInv, NextInLoop, options, Moves, SetState, TypeOK
<1>2. /\ state'[p] = "Stopped"
      /\ \A q \in Plugins : q # p => state'[q] = state[q]
  BY <1>1
<1> SUFFICES ASSUME NEW q \in Elements(pluginSpecs), NEW d \in Elements(dependencySpecs[q])
             PROVE  /\ state'[q] \in Up => state'[d] \in Up \cup {"Stopped"}
                    /\ state'[q] = "Stopped" => state'[d] = "Stopped"
                    /\ state'[d] = "Running" /\ q \notin hasError => state'[q] = "Running"
  BY <1>1, Zenon DEF LifecycleOrder
<1>3. q \in Plugins /\ d \in Plugins
  BY <1>1, ElementsContain, DependencyType DEF TypeOK
<1>4. /\ state[q] \in Up => state[d] \in Up \cup {"Stopped"}
      /\ state[q] = "Stopped" => state[d] = "Stopped"
      /\ state[d] = "Running" /\ q \notin hasError => state[q] = "Running"
  BY Zenon DEF LifecycleOrder
<1>5. q = p => state[d] = "Stopped"
  BY <1>1 DEF DependenciesReached, Elements
<1> QED
  BY <1>2, <1>3, <1>4, <1>5 DEF Up

LEMMA LoadPluginLife ==
    ASSUME QueueInv, QueueInv', AliveInv, AliveInv', Listed, Listed', LoopInv, LoopInv',
           LifeInv, NEW p \in Plugins,
           \/ LoadPluginSkips(p) \/ LoadPluginWithoutDependencies(p)
           \/ LoadPluginUp(p) \/ LoadPluginDown(p)
    PROVE  LifeInv'
<1>1. /\ TypeOK /\ TypeOK' /\ Instances /\ Progress /\ LifecycleOrder
  BY DEF QueueInv, LifeInv
<1>2. NextInLoop(p) /\ (Idles(p) \/ Blames(p) \/ Moves(p))
  <2>1. state[p] = "Loaded" => p \in plugins
    BY <1>1 DEF Instances
  <2> QED
    BY <1>1, <2>1, Outcomes
<1>3. phase' = phase /\ phase \in {"Loaded", "Initialized", "Running", "Stopped", "Deleted"}
  BY <1>2 DEF NextInLoop
<1>4. Sortable'
  BY <1>3 DEF Sortable, SortableIn
<1>5. CASE Idles(p)
  BY <1>1, <1>2, <1>4, <1>5, IdlesLife DEF LifeInv
<1>6. CASE Blames(p)
  BY <1>1, <1>2, <1>4, <1>6, BlamesLife DEF LifeInv
<1>7. CASE Moves(p)
  <2>1. Instances' /\ Progress'
    BY <1>1, <1>2, <1>7, MovesInstances, MovesProgress
  <2>2. LifecycleOrder'
    <3>1. CASE phase = "Stopped"
      BY <1>1, <1>2, <1>7, <3>1, MovesOrder
    <3>2. CASE phase = "Running"
      <4>1. (phase = "Running")'
        BY <1>3, <3>2
      <4> QED
        BY <2>1, <4>1, OrderOfRunning, PTL
    <3>3. CASE phase \notin {"Running", "Stopped"}
      <4>1. (phase \notin {"Running", "up", "stopQueue", "Stopped"} \/ plugins = {})'
        BY <1>3, <3>3
      <4> QED
        BY <1>1, <2>1, <4>1, OrderByPhase, PTL
    <3> QED
      BY <3>1, <3>2, <3>3
  <2> QED
    BY <1>4, <2>1, <2>2 DEF LifeInv
<1> QED
  BY <1>2, <1>5, <1>6, <1>7

(* From one loop to the next. *)
LEMMA LoopEndsLife ==
    ASSUME QueueInv, QueueInv', AliveInv, AliveInv', Listed, Listed', LoopInv, LifeInv, LoopEnds
    PROVE  LifeInv'
<1>1. /\ TypeOK /\ TypeOK' /\ Instances /\ Progress /\ LifecycleOrder
      /\ UNCHANGED <<pluginSpecs, dependencySpecs, state, plugins, hasError, queue>>
      /\ rest = <<>> /\ phase' # "stopQueue" /\ ~Reading /\ ~Queueing /\ phase # "down"
      /\ \/ phase = "Loaded" /\ phase' = "Initialized"
         \/ phase = "Initialized" /\ phase' = "Running"
         \/ phase = "Running" /\ phase' = "up"
         \/ phase = "Stopped" /\ phase' = "Deleted"
         \/ phase = "Deleted" /\ phase' = "down"
  BY DEF QueueInv, LifeInv, LoopEnds, options, Reading, Queueing
<1>2. Treated = DOMAIN queue
  BY <1>1, LoopOver
<1>3. phase' \notin {"up", "down"} => Treated' = {}
  BY <1>1, LoopEndsPlaces
<1>4. ASSUME NEW p \in plugins, p \notin hasError
      PROVE  /\ phase = "Initialized" => state[p] = "Initialized"
             /\ phase = "Running" => state[p] = "Running"
             /\ phase = "Stopped" /\ Live(p) => state[p] = "Stopped"
  <2>1. PICK i \in DOMAIN queue : queue[i] = p
    BY <1>1, <1>4, InstancesQueued
  <2>2. i \in Treated /\ queue[i] \notin hasError
    BY <1>2, <1>4, <2>1
  <2>3. /\ phase = "Initialized" => state[queue[i]] = "Initialized"
        /\ phase = "Running" => state[queue[i]] = "Running"
        /\ phase = "Stopped" /\ Live(queue[i]) => state[queue[i]] = "Stopped"
    BY <1>1, <2>1, <2>2 DEF Progress
  <2> QED
    BY <2>1, <2>3
<1>5. Instances'
  <2>1. ASSUME NEW p \in Plugins, Live(p) PROVE state[p] \in LiveStates(phase')
    <3>1. state[p] \in LiveStates(phase) /\ p \in plugins /\ p \notin hasError
      BY <1>1, <2>1 DEF Instances
    <3> QED
      BY <1>1, <1>4, <2>1, <3>1, LiveByPhase
  <2>2. phase' \in {"Running", "up", "stopQueue", "Stopped", "Deleted", "down"} =>
            \A p \in plugins \ hasError : Live(p)
    BY <1>1, <1>4 DEF Instances, Live
  <2>3. phase' \notin {"start", "options", "loadQueue"}
    BY <1>1
  <2>4. phase' \notin {"Deleted", "down"} => phase \notin {"Deleted", "down"}
    BY <1>1
  <2> QED
    BY <1>1, <2>1, <2>2, <2>3, <2>4, SameInstances
<1>6. LifecycleOrder'
  BY <1>1, SameOrder
<1>7. Progress'
  <2>1. ASSUME NEW i \in DOMAIN queue, phase' = "Running", queue[i] \notin hasError
        PROVE  state[queue[i]] = "Initialized"
    BY <1>1, <1>2, <2>1 DEF Progress
  <2>2. phase' \in {"Initialized", "Running", "up", "Deleted", "down"}
    BY <1>1
  <2> QED
    BY <1>1, <1>3, <2>1, <2>2 DEF Progress
<1>8. Sortable'
  BY <1>1 DEF Sortable, SortableIn
<1> QED
  BY <1>5, <1>6, <1>7, <1>8 DEF LifeInv

(* The first load queue is the list that stopAll()'s can be sorted by. *)
LEMMA StopAllLife ==
    ASSUME QueueInv, AliveInv, Listed, LifeInv, StopAll
    PROVE  LifeInv'
<1>1. /\ TypeOK /\ Instances /\ LifecycleOrder
      /\ UNCHANGED <<pluginSpecs, dependencySpecs, state, plugins, hasError>>
      /\ phase = "up" /\ phase' = "stopQueue" /\ stack' = <<>> /\ queue \in Seq(Plugins)
  BY DEF QueueInv, TypeOK, LifeInv, StopAll, StartLoadQueue, options
<1>2. ASSUME NEW p \in Plugins, Live(p)
      PROVE  state[p] \in LiveStates(phase') /\ Contains(queue, p)
  <2>1. state[p] \in LiveStates(phase) /\ p \in plugins /\ p \notin hasError
    BY <1>1, <1>2 DEF Instances
  <2> QED
    BY <1>1, <2>1, InstancesQueued, LiveByPhase DEF Reading, Queueing, Contains
<1>3. Instances'
  <2>1. \A p \in plugins \ hasError : Live(p)
    BY <1>1 DEF Instances
  <2> QED
    BY <1>1, <1>2, <2>1, SameInstances
<1>4. LifecycleOrder'
  BY <1>1, SameOrder
<1>5. Progress'
  BY <1>1 DEF Progress
<1>6. Sortable'
  <2>1. Sorted(queue)
    BY DEF QueueInv, QueueSorted, Sorted
  <2> DEFINE q == queue
  <2>2. /\ q \in Seq(Plugins) /\ Sorted(q) /\ \A p \in Plugins : Live(p) => Contains(q, p)
    BY <1>1, <1>2, <2>1
  <2> SUFFICES \E r \in Seq(Plugins) :
                  /\ Sorted(r)'
                  /\ \A p \in Plugins : Live(p)' => Contains(r, p)
                  /\ Descends(r)'
    BY DEF Sortable, SortableIn, Contains
  <2>3. PICK r \in Seq(Plugins) : Sorted(r) /\ \A p \in Plugins : Live(p) => Contains(r, p)
    BY <2>2
  <2>4. Sorted(r)'
    BY <1>1, <2>3 DEF Sorted
  <2>5. Descends(r)'
    BY <1>1 DEF Descends
  <2>6. \A p \in Plugins : Live(p)' => Contains(r, p)
    BY <1>1, <2>3 DEF Live
  <2> QED
    BY <2>4, <2>5, <2>6
<1> QED
  BY <1>3, <1>4, <1>5, <1>6 DEF LifeInv

LEMMA NextLife ==
    QueueInv /\ QueueInv' /\ AliveInv /\ AliveInv' /\ Listed /\ Listed' /\ LoopInv /\ LoopInv'
    /\ LifeInv /\ [Next]_vars => LifeInv'
<1> SUFFICES ASSUME QueueInv, QueueInv', AliveInv, AliveInv', Listed, Listed',
                    LoopInv, LoopInv', LifeInv, [Next]_vars
             PROVE  LifeInv'
  OBVIOUS
<1>1. CASE SetPluginPaths \/ (\E p \in Plugins : NoLoadOption(p)) \/ ParseOptions
  BY <1>1, OptionsLife
<1>2. CASE LoadQueue
  BY <1>2, LoadQueueLife
<1>3. CASE \E p \in Plugins :
             \/ LoadPluginSkips(p) \/ LoadPluginWithoutDependencies(p)
             \/ LoadPluginUp(p) \/ LoadPluginDown(p)
  BY <1>3, LoadPluginLife
<1>4. CASE LoopEnds
  BY <1>4, LoopEndsLife
<1>5. CASE StopAll
  BY <1>5, StopAllLife
<1>6. CASE UNCHANGED vars
  <2>1. Instances'
    BY <1>6, Zenon DEF vars, LifeInv, Instances, Live
  <2>2. Progress'
    BY <1>6, Zenon DEF vars, LifeInv, Progress, Live, Treated, Backwards
  <2>3. LifecycleOrder'
    BY <1>6, Zenon DEF vars, LifeInv, LifecycleOrder
  <2>4. Sortable'
    <3>1. /\ dependencySpecs' = dependencySpecs /\ stack' = stack
          /\ \A q : Live(q)' <=> Live(q)
      BY <1>6 DEF vars, Live
    <3>2. \A q : Sorted(q)' <=> Sorted(q)
      BY <3>1 DEF Sorted
    <3>3. \A q : Descends(q)' <=> Descends(q)
      BY <3>1 DEF Descends
    <3> QED
      BY <1>6, <3>1, <3>2, <3>3 DEF vars, LifeInv, Sortable, SortableIn, Contains
  <2> QED
    BY <2>1, <2>2, <2>3, <2>4 DEF LifeInv
<1> QED
  BY <1>1, <1>2, <1>3, <1>4, <1>5, <1>6 DEF Next, LoadPlugin

LEMMA SpecLifeInv == Spec => [](QueueInv /\ AliveInv /\ LifeInv)
<1>1. Init => Listed /\ LoopInv
  BY DEF Init, Listed, LoopInv, InLoop, Reading
<1>2. Init => LifeInv
  <2> SUFFICES ASSUME Init PROVE LifeInv
    OBVIOUS
  <2>1. /\ phase = "start" /\ plugins = {} /\ \A p \in Plugins : state[p] = "Read"
        /\ pluginSpecs = <<>>
    BY DEF Init
  <2>2. Instances
    BY <2>1 DEF Instances, Live
  <2>3. Progress /\ Sortable
    BY <2>1 DEF Progress, Sortable, SortableIn
  <2>4. LifecycleOrder
    BY <2>1 DEF LifecycleOrder, Elements
  <2> QED
    BY <2>2, <2>3, <2>4 DEF LifeInv
<1> QED
  BY <1>1, <1>2, SpecAliveInv, NextListed, NextLoop, NextLife, InitInv, NextInv, PTL DEF Spec

(* A plugin is initialized after, and stopped after, those it depends on,  *)
(* and is told of it before them.                                          *)
THEOREM LifecycleOrdered == Spec => []LifecycleOrder
<1>1. LifeInv => LifecycleOrder
  BY DEF LifeInv
<1> QED
  BY <1>1, SpecLifeInv, PTL

(* The instance of a plugin without an error never outlives one that it    *)
(* depends on.  (One with an error does: loadPlugin skips it on the way    *)
(* down, a run shows it.)                                                  *)
THEOREM DependenciesOutlive == Spec => []DeletedInReverse
<1>1. QueueInv /\ LifeInv => DeletedInReverse
  <2> SUFFICES ASSUME QueueInv, LifeInv, NEW p \in plugins, p \notin hasError,
                      NEW d \in Elements(dependencySpecs[p])
               PROVE  d \in plugins
    BY DEF DeletedInReverse
  <2>1. TypeOK /\ Instances /\ p \in Plugins
    BY DEF QueueInv, LifeInv, TypeOK
  <2>2. d \in Plugins
    BY <2>1, DependencyType
  <2>3. CASE phase \notin {"Deleted", "down"}
    BY <2>1, <2>3 DEF Instances
  <2>4. CASE phase \in {"Deleted", "down"}
    <3>1. Live(p)
      BY <2>1, <2>4 DEF Instances
    <3>2. Live(d)
      BY <2>1, <3>1 DEF Instances
    <3> QED
      BY <2>1, <2>2, <3>2 DEF Instances
  <2> QED
    BY <2>3, <2>4
<1> QED
  BY <1>1, SpecLifeInv, PTL

-----------------------------------------------------------------------------
(* The plugins that ought to run. *)

(* Those that could run if these did. *)
Ready(specs, x) ==
    {p \in Elements(specs) : broken[p] = "nothing" /\ Elements(dependencies[p]) \subseteq x}

(* Usable(specs) is the least set that has whatever could run with it: in  *)
(* every round that adds to it there is one more plugin, so after as many  *)
(* rounds as there are plugins nothing is left to add.                     *)
LEMMA UsableIsLeast ==
    ASSUME NEW specs \in Seq(Plugins)
    PROVE  /\ Usable(specs) \subseteq Elements(specs)
           /\ Usable(specs) = Ready(specs, Usable(specs))
           /\ \A x \in SUBSET Plugins : Ready(specs, x) \subseteq x => Usable(specs) \subseteq x
<1> DEFINE N == Cardinality(Plugins)
           S == SUBSET Elements(specs)
           R(x) == Ready(specs, x)
           F == [n \in Nat |-> [x \in S |-> R(x)]]
           IsUsable(g) == g = [n \in 0..N |-> IF n = 0 THEN {} ELSE R(g[n - 1])]
           usable[n \in 0..N] ==
               IF n = 0 THEN {}
               ELSE {p \in Elements(specs) :
                        /\ broken[p] = "nothing"
                        /\ Elements(dependencies[p]) \subseteq usable[n - 1]}
<1>1. N \in Nat /\ Elements(specs) \subseteq Plugins /\ {} \in S /\ IsFiniteSet(Plugins)
  BY PluginsFinite, FS_CardinalityType, ElementsContain
<1>2. Usable(specs) = usable[N]
  BY Zenon DEF Usable
<1>3. \A x : R(x) \in S
  BY DEF Ready
<1>4. \A x, y : x \subseteq y => R(x) \subseteq R(y)
  BY DEF Ready
<1>5. \E g : IsUsable(g)
  <2>1. F \in [Nat -> [S -> S]]
    BY <1>3
  <2> HIDE DEF F
  <2>2. PICK g \in [0..N -> S] : Iterates(g, {}, F, N)
    <3> HIDE DEF N, S
    <3> QED
      BY <1>1, <2>1, Iteration
  <2>3. ASSUME NEW n \in 0..N
        PROVE  g[n] = IF n = 0 THEN {} ELSE R(g[n - 1])
    <3>1. CASE n = 0
      BY <2>2, <3>1 DEF Iterates
    <3>2. CASE n # 0
      <4> HIDE DEF N
      <4>1. n \in 1..N /\ n \in Nat /\ n - 1 \in 0..N
        BY <1>1, <3>2
      <4>2. g[n] = F[n][g[n - 1]] /\ g[n - 1] \in S
        BY <2>2, <4>1 DEF Iterates
      <4> QED
        BY <3>2, <4>1, <4>2 DEF F
    <3> QED
      BY <3>1, <3>2
  <2> HIDE DEF N, R
  <2>4. g = [n \in 0..N |-> g[n]]
    BY <2>2
  <2>5. g = [n \in 0..N |-> IF n = 0 THEN {} ELSE R(g[n - 1])]
    BY <2>3, <2>4
  <2> QED
    BY <2>5
<1>6. IsUsable(usable)
  BY <1>5, Zenon DEF Ready
<1> HIDE DEF usable, F
<1>7. /\ usable[0] = {}
      /\ \A n \in 0..N : n # 0 => usable[n] = R(usable[n - 1])
  <2> HIDE DEF N, R
  <2>1. ASSUME NEW n \in 0..N
        PROVE  usable[n] = IF n = 0 THEN {} ELSE R(usable[n - 1])
    BY <1>6
  <2>2. 0 \in 0..N
    BY <1>1
  <2> QED
    BY <2>1, <2>2
<1> HIDE DEF N, R
<1> DEFINE G == [x \in SUBSET Plugins |-> R(x)]
           P == {n \in Nat : usable[n] \in SUBSET Plugins}
<1>8. 0..N \subseteq P
  <2>1. 0 \in P
    BY <1>7
  <2>2. ASSUME NEW n \in Nat, n < N, n \in P PROVE n + 1 \in P
    <3>1. n + 1 \in 0..N /\ n + 1 # 0 /\ (n + 1) - 1 = n /\ n + 1 \in Nat
      BY <1>1, <2>2
    <3>2. usable[n + 1] \in S
      BY <1>3, <1>7, <3>1
    <3> QED
      BY <1>1, <3>1, <3>2
  <2> HIDE DEF P
  <2> QED
    BY <1>1, <2>1, <2>2, UpTo
<1>9. Repeated(usable, {}, G, Cardinality(Plugins))
  <2>1. ASSUME NEW n \in 1..N PROVE usable[n] = G[usable[n - 1]]
    <3>1. n \in 0..N /\ n # 0 /\ n - 1 \in 0..N
      BY <1>1
    <3>2. usable[n] = R(usable[n - 1]) /\ usable[n - 1] \in SUBSET Plugins
      BY <1>7, <1>8, <3>1
    <3> QED
      BY <3>2
  <2> QED
    BY <1>7, <2>1 DEF Repeated, N
<1>10. Grows({}, G, Plugins)
  BY <1>1, <1>3, <1>4 DEF Grows
<1>11. IsLeast(usable[N], {}, G, Plugins)
  <2> HIDE DEF G
  <2> QED
    BY <1>1, <1>9, <1>10, LeastFixedPoint DEF N
<1>12. /\ usable[N] = R(usable[N])
       /\ \A x \in SUBSET Plugins : R(x) \subseteq x => usable[N] \subseteq x
  BY <1>11 DEF IsLeast
<1> QED
  BY <1>2, <1>3, <1>12 DEF R

(* Of plugins that each depend on one of them, or on one that ought not to *)
(* run, none ought to run.                                                 *)
LEMMA NoneUsable ==
    ASSUME NEW specs \in Seq(Plugins), NEW c,
           \A p \in c : p \notin Usable(specs) \/
               \E d \in Elements(dependencies[p]) : d \in c \/ d \notin Usable(specs)
    PROVE  c \cap Usable(specs) = {}
<1> DEFINE u == Usable(specs)
           x == u \ c
<1>1. /\ u \subseteq Plugins
      /\ u = Ready(specs, u)
      /\ \A y \in SUBSET Plugins : Ready(specs, y) \subseteq y => u \subseteq y
  BY UsableIsLeast, ElementsContain
<1> HIDE DEF u
<1>2. Ready(specs, x) \subseteq Ready(specs, u)
  BY DEF Ready
<1>3. ASSUME NEW p \in Ready(specs, x) PROVE p \notin c
  <2>1. Elements(dependencies[p]) \subseteq x /\ p \in u
    BY <1>1, <1>2 DEF Ready
  <2>2. p \in c => \E d \in Elements(dependencies[p]) : d \in c \/ d \notin u
    BY <2>1 DEF u
  <2> QED
    BY <2>1, <2>2
<1>4. u \subseteq x
  BY <1>1, <1>2, <1>3
<1> QED
  BY <1>4 DEF u

(* Fewer specs, fewer that ought to run. *)
LEMMA UsableFewer ==
    ASSUME NEW specs \in Seq(Plugins), NEW fewer \in Seq(Plugins),
           Elements(fewer) \subseteq Elements(specs)
    PROVE  Usable(fewer) \subseteq Usable(specs)
<1>1. Usable(specs) \in SUBSET Plugins
  BY UsableIsLeast, ElementsContain
<1>2. Ready(fewer, Usable(specs)) \subseteq Ready(specs, Usable(specs))
  BY DEF Ready
<1> QED
  BY <1>1, <1>2, UsableIsLeast

LEMMA UsableSame ==
    ASSUME UNCHANGED inputs, NEW specs
    PROVE  Usable(specs)' = Usable(specs)
BY DEF Usable, inputs

-----------------------------------------------------------------------------
(* No plugin that ought to run ever gets an error on the way up.           *)

GoingUp == phase \in {"start", "options", "loadQueue", "Loaded", "Initialized", "Running", "up"}

BlameInv ==
    /\ phase = "start" => hasError = {}
    /\ \A p \in Plugins : ~Unresolved(p) => dependencySpecs[p] = dependencies[p]
    /\ \A p \in Elements(pluginSpecs) : Unresolved(p) => p \in hasError
    /\ GoingUp => hasError \cap Usable(pluginSpecs) = {}

(* How far the plugins have come in each phase, and that those that have   *)
(* come so far can be loaded and initialized.                              *)
StageInv ==
    /\ phase \in {"start", "options", "loadQueue"} =>
          \A p \in Plugins : state[p] \in {"Read", "Resolved"}
    /\ phase = "Loaded" =>
          \A p \in Plugins : state[p] \in {"Read", "Resolved", "Loaded"}
    /\ \A p \in Plugins : state[p] = "Loaded" => broken[p] # "library"
    /\ \A p \in Plugins : Live(p) => broken[p] = "nothing"
    /\ \A i \in DOMAIN queue : queue[i] \notin hasError =>
          /\ phase = "Initialized" /\ i \notin Treated => state[queue[i]] = "Loaded"
          /\ phase = "up" => state[queue[i]] = "Running"

(* A plugin that ought to run is not broken, and all it depends on ought   *)
(* to run.                                                                 *)
LEMMA UsableReady ==
    ASSUME TypeOK, NEW p \in Usable(pluginSpecs)
    PROVE  /\ p \in Elements(pluginSpecs) /\ p \in Plugins
           /\ broken[p] = "nothing"
           /\ Elements(dependencies[p]) \subseteq Usable(pluginSpecs)
<1>1. pluginSpecs \in Seq(Plugins)
  BY DEF TypeOK
<1>2. p \in Ready(pluginSpecs, Usable(pluginSpecs))
  BY <1>1, UsableIsLeast
<1> QED
  BY <1>1, <1>2, ElementsContain DEF Ready

(* Resolving blames those that miss a dependency. *)
LEMMA ResolveBlames ==
    ASSUME TypeOK, BlameInv, NEW specs \in Seq(Plugins), ResolveDependencies(specs),
           hasError \cap Usable(specs) = {}
    PROVE  /\ \A p \in Plugins : ~Unresolved(p)' => dependencySpecs'[p] = dependencies[p]
           /\ \A p \in Elements(specs) : Unresolved(p)' => p \in hasError'
           /\ hasError' \cap Usable(specs) = {}
<1> DEFINE resolved == {p \in Resolving(specs) : Provided(p, specs)}
           failed == Resolving(specs) \ resolved
<1>1. /\ state' = [p \in Plugins |-> IF p \in resolved THEN "Resolved"
                        ELSE IF p \in failed THEN "Read" ELSE state[p]]
      /\ hasError' = hasError \cup failed
      /\ dependencySpecs' = [p \in Plugins |->
                IF p \in resolved THEN dependencies[p] ELSE dependencySpecs[p]]
  BY DEF ResolveDependencies
<1>2. /\ Elements(specs) \subseteq Plugins
      /\ \A p \in Elements(specs) : p \in resolved \/ p \in failed \/ p \in hasError
      /\ resolved \subseteq Plugins
  BY ElementsContain DEF Resolving
<1>3. ASSUME NEW p \in failed PROVE p \notin Usable(specs)
  <2>1. PICK i \in DOMAIN dependencies[p] : ~Contains(specs, dependencies[p][i])
    BY <1>3 DEF Provided
  <2>2. dependencies[p][i] \in Elements(dependencies[p]) \ Elements(specs)
    BY <2>1, ElementsContain DEF Elements
  <2>3. /\ Usable(specs) = Ready(specs, Usable(specs))
        /\ Usable(specs) \subseteq Elements(specs)
    BY UsableIsLeast
  <2> HIDE DEF failed
  <2> QED
    BY <2>2, <2>3 DEF Ready
<1> HIDE DEF resolved, failed
<1>4. ASSUME NEW p \in Plugins, ~Unresolved(p)' PROVE dependencySpecs'[p] = dependencies[p]
  <2>1. CASE p \in resolved
    BY <1>1, <2>1
  <2>2. CASE p \notin resolved
    <3>1. state'[p] = state[p] /\ dependencySpecs'[p] = dependencySpecs[p]
      BY <1>1, <1>4, <2>2 DEF Unresolved
    <3> QED
      BY <1>4, <3>1 DEF BlameInv, Unresolved
  <2> QED
    BY <2>1, <2>2
<1>5. ASSUME NEW p \in Elements(specs), Unresolved(p)' PROVE p \in hasError'
  <2>1. p \notin resolved
    BY <1>1, <1>2, <1>5 DEF Unresolved
  <2> QED
    BY <1>1, <1>2, <2>1
<1> QED
  BY <1>1, <1>3, <1>4, <1>5

LEMMA OptionsBlame ==
    ASSUME QueueInv, QueueInv', BlameInv,
           SetPluginPaths \/ (\E p \in Plugins : NoLoadOption(p)) \/ ParseOptions
    PROVE  BlameInv'
<1>1. /\ TypeOK /\ TypeOK' /\ UNCHANGED inputs
      /\ pluginSpecs \in Seq(Plugins) /\ pluginSpecs' \in Seq(Plugins)
      /\ phase' # "start"
  BY DEF QueueInv, TypeOK, SetPluginPaths, NoLoadOption, ParseOptions, StartLoadQueue
<1>2. /\ dependencies' = dependencies
      /\ \A s : Usable(s)' = Usable(s)
  BY <1>1, UsableSame DEF inputs
<1>3. Usable(pluginSpecs)' = Usable(pluginSpecs')
  BY <1>1 DEF Usable, inputs
<1>4. CASE SetPluginPaths
  <2>1. /\ hasError = {} /\ ResolveDependencies(PluginSpecs) /\ pluginSpecs' = PluginSpecs
        /\ PluginSpecs \in Seq(Plugins)
    BY <1>4, PluginsAssumption DEF SetPluginPaths, BlameInv
  <2>2. /\ \A p \in Plugins : ~Unresolved(p)' => dependencySpecs'[p] = dependencies[p]
        /\ \A p \in Elements(PluginSpecs) : Unresolved(p)' => p \in hasError'
        /\ hasError' \cap Usable(PluginSpecs) = {}
    BY <1>1, <2>1, ResolveBlames
  <2> QED
    BY <1>1, <1>2, <1>3, <2>1, <2>2 DEF BlameInv
<1>5. CASE \E p \in Plugins : NoLoadOption(p)
  <2>1. PICK i \in DOMAIN pluginSpecs : pluginSpecs' = Removed(pluginSpecs, i)
    BY <1>5 DEF NoLoadOption
  <2>2. UNCHANGED <<state, hasError, dependencySpecs>> /\ phase = "options"
    BY <1>5 DEF NoLoadOption
  <2>3. Elements(pluginSpecs') \subseteq Elements(pluginSpecs)
    BY <1>1, <2>1 DEF Removed, Elements
  <2>4. Usable(pluginSpecs') \subseteq Usable(pluginSpecs)
    BY <1>1, <2>3, UsableFewer
  <2> QED
    BY <1>1, <1>2, <1>3, <2>2, <2>3, <2>4 DEF BlameInv, Unresolved, GoingUp
<1>6. CASE ParseOptions
  <2>1. pluginSpecs' = pluginSpecs /\ hasError \cap Usable(pluginSpecs) = {}
    BY <1>6 DEF ParseOptions, BlameInv, GoingUp
  <2>2. CASE refresh
    <3>1. ResolveDependencies(pluginSpecs)
      BY <1>6, <2>2 DEF ParseOptions, RefreshDependencies
    <3>2. /\ \A p \in Plugins : ~Unresolved(p)' => dependencySpecs'[p] = dependencies[p]
          /\ \A p \in Elements(pluginSpecs) : Unresolved(p)' => p \in hasError'
          /\ hasError' \cap Usable(pluginSpecs) = {}
      BY <1>1, <2>1, <3>1, ResolveBlames
    <3> QED
      BY <1>1, <1>2, <1>3, <2>1, <3>2 DEF BlameInv
  <2>3. CASE ~refresh
    <3>1. UNCHANGED <<state, hasError, dependencySpecs>>
      BY <1>6, <2>3 DEF ParseOptions, RefreshDependencies
    <3> QED
      BY <1>1, <1>2, <1>3, <2>1, <3>1 DEF BlameInv, Unresolved
  <2> QED
    BY <2>2, <2>3
<1> QED
  BY <1>4, <1>5, <1>6

(* loadQueue() blames a plugin with an error, or circle, and all that wait *)
(* for it.                                                                 *)
LEMMA FailsBlame ==
    ASSUME QueueInv, AliveInv, Listed, BlameInv, phase = "loadQueue",
           NEW p \in Plugins, LoadQueueFails(p)
    PROVE  hasError' \cap Usable(pluginSpecs) = {}
<1> DEFINE c == {p} \cup {stack[i].spec : i \in DOMAIN stack}
<1>1. /\ TypeOK /\ Call(p) /\ hasError' = hasError \cup c
      /\ ~Contains(queue, p) /\ (p \in circularityCheckQueue \/ Unresolved(p))
      /\ hasError \cap Usable(pluginSpecs) = {}
      /\ pluginSpecs \in Seq(Plugins)
      /\ stack \in Seq(Frame) /\ Len(stack) \in Nat /\ DOMAIN stack = 1..Len(stack)
  BY DEF QueueInv, TypeOK, LoadQueueFails, Known, BlameInv, GoingUp
<1>2. /\ p \in Elements(pluginSpecs)
      /\ stack # <<>> => p \in Elements(dependencySpecs[Top.spec])
  BY <1>1, CalledIsListed
<1>3. ASSUME NEW i \in DOMAIN stack
      PROVE  \E d \in Elements(dependencies[stack[i].spec]) : d \in c
  <2>1. dependencySpecs[stack[i].spec] = dependencies[stack[i].spec]
    <3>1. stack[i].spec \in Plugins /\ ~Unresolved(stack[i].spec)
      <4>1. stack[i] \in Frame
        BY <1>1, ElementOfSeq
      <4> QED
        BY <4>1 DEF Frame, AliveInv, Usual
    <3> QED
      BY <3>1 DEF BlameInv
  <2>2. CASE i = Len(stack)
    <3>1. stack # <<>>
      BY <1>3
    <3> QED
      BY <1>2, <2>1, <2>2, <3>1 DEF Top
  <2>3. CASE i # Len(stack)
    <3>1. i \in 1..(Len(stack) - 1) /\ i + 1 \in DOMAIN stack
      BY <1>1, <2>3
    <3>2. stack[i + 1].spec \in Elements(dependencySpecs[stack[i].spec])
      BY <3>1 DEF QueueInv, StackWaits, Elements
    <3> QED
      BY <2>1, <3>1, <3>2
  <2> QED
    BY <2>2, <2>3
<1>4. \/ p \notin Usable(pluginSpecs)
      \/ \E d \in Elements(dependencies[p]) : d \in c
  <2>1. CASE Unresolved(p)
    BY <1>1, <1>2, <2>1 DEF BlameInv
  <2>2. CASE p \in circularityCheckQueue
    <3>1. PICK i \in DOMAIN stack : stack[i].spec = p
      BY <1>1, <2>2 DEF Listed
    <3> QED
      BY <1>3, <3>1
  <2> QED
    BY <1>1, <2>1, <2>2
<1>5. \A q \in c : q = p \/ \E i \in DOMAIN stack : q = stack[i].spec
  OBVIOUS
<1> HIDE DEF c
<1>6. \A q \in c : q \notin Usable(pluginSpecs) \/
          \E d \in Elements(dependencies[q]) : d \in c \/ d \notin Usable(pluginSpecs)
  BY <1>3, <1>4, <1>5
<1>7. c \cap Usable(pluginSpecs) = {}
  BY <1>1, <1>6, NoneUsable
<1> QED
  BY <1>1, <1>7

(* Loading, initializing and telling a plugin that ought to run succeeds.  *)
LEMMA LoopBlames ==
    ASSUME QueueInv, AliveInv, LoopInv, Instances, Progress, BlameInv, StageInv,
           phase \in {"Loaded", "Initialized", "Running"},
           NEW p \in Plugins, p \in Usable(pluginSpecs),
           LoadPluginSkips(p) \/ LoadPluginWithoutDependencies(p) \/ LoadPluginUp(p)
    PROVE  UNCHANGED hasError
<1>1. /\ TypeOK /\ p \notin hasError /\ NextInLoop(p) /\ broken[p] = "nothing"
      /\ hasError \cap Usable(pluginSpecs) = {}
      /\ Elements(dependencies[p]) \subseteq Usable(pluginSpecs)
  BY UsableReady DEF QueueInv, BlameInv, GoingUp, LoadPluginSkips,
     LoadPluginWithoutDependencies, LoadPluginUp
<1>2. PICK t \in DOMAIN queue :
         /\ queue[t] = p
         /\ \A i \in DOMAIN queue : i \in Treated <=> IF Backwards THEN i > t ELSE i < t
  BY <1>1, TreatedPlace
<1>3. ~Unresolved(p) /\ t \notin Treated /\ DOMAIN queue = 1..Len(queue) /\ Len(queue) \in Nat
  <2>1. Usual(p)
    BY <1>2 DEF AliveInv
  <2>2. DOMAIN queue = 1..Len(queue) /\ Len(queue) \in Nat
    BY <1>1 DEF TypeOK
  <2>3. ~(t < t) /\ ~(t > t)
    BY <2>2
  <2> QED
    BY <1>2, <2>1, <2>2, <2>3 DEF Usual
<1>4. phase # "Running" => DependenciesReached(p)
  <2> SUFFICES ASSUME phase # "Running", NEW i \in DOMAIN dependencySpecs[p]
               PROVE  state[dependencySpecs[p][i]] = phase
    BY DEF DependenciesReached
  <2> DEFINE d == dependencySpecs[p][i]
  <2>1. d \in Elements(dependencySpecs[p]) /\ dependencySpecs[p] = dependencies[p]
    BY <1>3 DEF Elements, BlameInv
  <2>2. d \notin hasError
    BY <1>1, <2>1
  <2> HIDE DEF d
  <2>3. PICK j \in DOMAIN queue : j < t /\ queue[j] = d
    BY <1>2, <2>1, QueuePlaces
  <2>4. j \in Treated
    BY <1>2, <2>3 DEF Backwards
  <2>5. state[d] = phase
    BY <2>2, <2>3, <2>4 DEF Progress
  <2> QED
    BY <2>5 DEF d
<1>5. /\ phase = "Loaded" => state[p] \in {"Resolved", "Loaded"}
      /\ phase = "Initialized" => state[p] = "Loaded" /\ p \in plugins
      /\ phase = "Running" => state[p] = "Initialized" /\ p \in plugins
  BY <1>1, <1>2, <1>3 DEF StageInv, Unresolved, Progress, Instances, Live
<1>6. CASE phase = "Loaded"
  BY <1>1, <1>4, <1>5, <1>6 DEF LoadPluginSkips, LoadPluginWithoutDependencies,
     LoadPluginUp, LoadLibrary, Advance
<1>7. CASE phase = "Initialized"
  BY <1>1, <1>4, <1>5, <1>7 DEF LoadPluginSkips, LoadPluginWithoutDependencies,
     LoadPluginUp, InitializePlugin, Advance
<1>8. CASE phase = "Running"
  BY <1>1, <1>5, <1>8 DEF LoadPluginSkips, LoadPluginWithoutDependencies,
     LoadPluginUp, InitializeExtensions, Advance
<1> QED
  BY <1>6, <1>7, <1>8

LEMMA LoadQueueBlame ==
    ASSUME QueueInv, AliveInv, Listed, BlameInv, LoadQueue
    PROVE  BlameInv'
<1>1. /\ Queueing /\ UNCHANGED <<inputs, pluginSpecs, dependencySpecs, state>>
      /\ phase' # "start" /\ hasError \subseteq hasError'
      /\ GoingUp' => phase = "loadQueue"
      /\ (\E p \in Plugins : LoadQueueFails(p)) \/ hasError' = hasError
  BY DEF LoadQueue, LoadQueueKnown, LoadQueueFails, LoadQueueEnters, LoadQueueAddsSelf,
         LoadQueueEnds, Call, CallFromList, CallFromSpec, Queueing, options, GoingUp
<1>2. Usable(pluginSpecs)' = Usable(pluginSpecs)
  BY <1>1 DEF Usable, inputs
<1>3. phase = "loadQueue" => hasError' \cap Usable(pluginSpecs) = {}
  BY <1>1, FailsBlame DEF BlameInv, GoingUp
<1>4. /\ \A p : Unresolved(p)' <=> Unresolved(p)
      /\ dependencies' = dependencies
  BY <1>1 DEF Unresolved, inputs
<1> QED
  BY <1>1, <1>2, <1>3, <1>4 DEF BlameInv

LEMMA LoadPluginBlame ==
    ASSUME QueueInv, AliveInv, LoopInv, Instances, Progress, BlameInv, StageInv,
           NEW p \in Plugins,
           \/ LoadPluginSkips(p) \/ LoadPluginWithoutDependencies(p)
           \/ LoadPluginUp(p) \/ LoadPluginDown(p)
    PROVE  BlameInv'
<1>1. /\ TypeOK /\ NextInLoop(p) /\ (Idles(p) \/ Blames(p) \/ Moves(p))
      /\ state \in [Plugins -> State]
  <2>1. TypeOK /\ (state[p] = "Loaded" => p \in plugins)
    BY DEF QueueInv, Instances
  <2> QED
    BY <2>1, Outcomes DEF TypeOK
<1>2. /\ UNCHANGED <<inputs, pluginSpecs, dependencySpecs, phase>> /\ phase # "start"
      /\ phase \in {"Loaded", "Initialized", "Running", "Stopped", "Deleted"}
  BY <1>1 DEF NextInLoop, options
<1>3. hasError \subseteq hasError' /\ hasError' \subseteq hasError \cup {p}
  BY <1>1 DEF Idles, Blames, Moves, SetError
<1>4. \A q \in Plugins : Unresolved(q)' => Unresolved(q)
  <2>1. \A q \in Plugins : state'[q] = state[q] \/ state'[q] = phase
    BY <1>1 DEF Idles, Blames, Moves, SetState
  <2> QED
    BY <1>2, <2>1 DEF Unresolved
<1>5. Usable(pluginSpecs)' = Usable(pluginSpecs)
  BY <1>2 DEF Usable, inputs
<1>6. ASSUME GoingUp PROVE hasError' \cap Usable(pluginSpecs) = {}
  <2>1. hasError \cap Usable(pluginSpecs) = {}
    BY <1>6 DEF BlameInv
  <2>2. CASE p \in Usable(pluginSpecs)
    <3>1. phase \in {"Loaded", "Initialized", "Running"} /\ ~LoadPluginDown(p)
      BY <1>2, <1>6 DEF GoingUp, LoadPluginDown
    <3> QED
      BY <2>1, <2>2, <3>1, LoopBlames
  <2>3. CASE p \notin Usable(pluginSpecs)
    BY <1>3, <2>1, <2>3
  <2> QED
    BY <2>2, <2>3
<1>7. \A q \in Plugins : ~Unresolved(q)' => dependencySpecs[q] = dependencies[q]
  <2>1. \A q \in Plugins : ~Unresolved(q) => dependencySpecs[q] = dependencies[q]
    BY DEF BlameInv
  <2>2. ASSUME Unresolved(p) PROVE Unresolved(p)'
    <3>1. \E t \in DOMAIN queue : queue[t] = p
      BY <1>1, TreatedPlace
    <3> QED
      BY <2>2, <3>1 DEF AliveInv, Usual
  <2>3. \A q \in Plugins : q # p => state'[q] = state[q]
    BY <1>1 DEF Idles, Blames, Moves, SetState
  <2> QED
    BY <2>1, <2>2, <2>3 DEF Unresolved
<1>8. Elements(pluginSpecs) \subseteq Plugins
  BY <1>1, ElementsContain DEF TypeOK
<1> QED
  BY <1>2, <1>3, <1>4, <1>5, <1>6, <1>7, <1>8 DEF BlameInv, GoingUp, inputs

LEMMA NextBlame ==
    QueueInv /\ QueueInv' /\ AliveInv /\ Listed /\ LoopInv /\ LifeInv
    /\ BlameInv /\ StageInv /\ [Next]_vars => BlameInv'
<1> SUFFICES ASSUME QueueInv, QueueInv', AliveInv, Listed, LoopInv, LifeInv,
                    BlameInv, StageInv, [Next]_vars
             PROVE  BlameInv'
  OBVIOUS
<1>0. Instances /\ Progress
  BY DEF LifeInv
<1>1. CASE SetPluginPaths \/ (\E p \in Plugins : NoLoadOption(p)) \/ ParseOptions
  BY <1>1, OptionsBlame
<1>2. CASE LoadQueue
  BY <1>2, LoadQueueBlame
<1>3. CASE \E p \in Plugins :
             \/ LoadPluginSkips(p) \/ LoadPluginWithoutDependencies(p)
             \/ LoadPluginUp(p) \/ LoadPluginDown(p)
  BY <1>0, <1>3, LoadPluginBlame
<1>4. CASE LoopEnds \/ StopAll \/ UNCHANGED vars
  <2>1. UNCHANGED <<inputs, pluginSpecs, dependencySpecs, state, hasError>>
    BY <1>4 DEF LoopEnds, StopAll, vars, options, inputs
  <2>2. Usable(pluginSpecs)' = Usable(pluginSpecs)
    BY <2>1 DEF Usable, inputs
  <2>3. (phase' = "start" => phase = "start") /\ (GoingUp' => GoingUp)
    BY <1>4 DEF LoopEnds, StopAll, StartLoadQueue, vars, GoingUp
  <2> QED
    BY <2>1, <2>2, <2>3 DEF BlameInv, Unresolved, inputs
<1> QED
  BY <1>1, <1>2, <1>3, <1>4 DEF Next, LoadPlugin

LEMMA LoadPluginStage ==
    ASSUME QueueInv, AliveInv, LoopInv, Instances, StageInv, NEW p \in Plugins,
           \/ LoadPluginSkips(p) \/ LoadPluginWithoutDependencies(p)
           \/ LoadPluginUp(p) \/ LoadPluginDown(p)
    PROVE  StageInv'
<1>1. /\ TypeOK /\ NextInLoop(p) /\ (Idles(p) \/ Blames(p) \/ Moves(p))
      /\ state \in [Plugins -> State]
      /\ broken \in [Plugins -> {"nothing", "library", "initialize"}]
  <2>1. TypeOK /\ (state[p] = "Loaded" => p \in plugins)
    BY DEF QueueInv, Instances
  <2> QED
    BY <2>1, Outcomes DEF TypeOK
<1>2. /\ UNCHANGED <<broken, pluginSpecs, dependencySpecs, phase, queue>>
      /\ phase \in {"Loaded", "Initialized", "Running", "Stopped", "Deleted"}
      /\ hasError \subseteq hasError'
  BY <1>1 DEF NextInLoop, options, inputs, Idles, Blames, Moves, SetError
<1>3. /\ \A q \in Plugins : q # p => state'[q] = state[q]
      /\ state'[p] # state[p] => state'[p] = phase /\ Moves(p)
  BY <1>1 DEF Idles, Blames, Moves, SetState
<1>4. PICK t \in DOMAIN queue : /\ queue[t] = p
                                /\ Treated' = Treated \cup {t}
  BY <1>1, TreatedPlace
<1>5. ASSUME state'[p] = "Loaded" PROVE broken[p] # "library"
  <2>1. CASE state[p] = "Loaded"
    BY <2>1 DEF StageInv
  <2>2. CASE state[p] # "Loaded"
    <3>1. phase = "Loaded" /\ p \notin hasError /\ hasError' = hasError
      BY <1>3, <1>5, <2>2 DEF Moves
    <3>2. LoadPluginUp(p) /\ LoadLibrary(p)
      BY <1>3, <1>5, <2>2, <3>1 DEF LoadPluginSkips, LoadPluginWithoutDependencies,
         LoadPluginUp, LoadPluginDown
    <3> QED
      BY <1>5, <2>2, <3>1, <3>2 DEF LoadLibrary, Advance, SetError
  <2> QED
    BY <2>1, <2>2
<1>6. ASSUME Live(p)' PROVE broken[p] = "nothing"
  <2>1. CASE Live(p)
    BY <2>1 DEF StageInv
  <2>2. CASE ~Live(p)
    <3>1. state'[p] # state[p]
      BY <1>6, <2>2 DEF Live
    <3>2. Moves(p) /\ state'[p] = phase /\ phase # "Loaded"
      BY <1>3, <1>6, <3>1 DEF Live
    <3>3. phase = "Initialized" /\ state[p] = "Loaded"
      <4>1. phase \in {"Running", "Stopped"} /\ p \in plugins => Live(p)
        BY <3>2 DEF Instances, Moves
      <4> QED
        BY <1>2, <1>6, <2>2, <3>2, <4>1 DEF Moves, Live
    <3>4. broken[p] # "library" /\ p \notin hasError
      BY <3>2, <3>3 DEF StageInv, Moves
    <3>5. LoadPluginUp(p) /\ InitializePlugin(p)
      BY <3>1, <3>3, <3>4 DEF LoadPluginSkips, LoadPluginWithoutDependencies,
         LoadPluginUp, LoadPluginDown
    <3>6. broken[p] # "initialize"
      BY <3>1, <3>3, <3>5 DEF InitializePlugin, Advance
    <3> QED
      BY <1>1, <3>4, <3>6
  <2> QED
    BY <2>1, <2>2
<1>7. phase = "Loaded" => \A q \in Plugins : state'[q] \in {"Read", "Resolved", "Loaded"}
  BY <1>3 DEF StageInv
<1>8. ASSUME NEW i \in DOMAIN queue, queue[i] \notin hasError', phase = "Initialized",
             i \notin Treated'
      PROVE  state'[queue[i]] = "Loaded"
  <2>1. i \notin Treated /\ queue[i] \notin hasError /\ queue[i] \in Plugins
    BY <1>1, <1>2, <1>4, <1>8 DEF TypeOK
  <2>2. queue[i] # p
    <3>1. \A j \in DOMAIN queue : queue[j] = p => j = t
      BY <1>4, QueuePlaces
    <3> QED
      BY <1>4, <1>8, <3>1
  <2> QED
    BY <1>3, <1>8, <2>1, <2>2 DEF StageInv
<1>9. \A q \in Plugins : q # p => (Live(q)' <=> Live(q))
  BY <1>3 DEF Live
<1>10. /\ \A q \in Plugins : state'[q] = "Loaded" => broken[q] # "library"
       /\ \A q \in Plugins : Live(q)' => broken[q] = "nothing"
  BY <1>3, <1>5, <1>6, <1>9 DEF StageInv
<1> QED
  BY <1>2, <1>7, <1>8, <1>10 DEF StageInv

LEMMA NextStage ==
    QueueInv /\ AliveInv /\ LoopInv /\ LifeInv /\ StageInv /\ [Next]_vars => StageInv'
<1> SUFFICES ASSUME QueueInv, AliveInv, LoopInv, LifeInv, StageInv, [Next]_vars
             PROVE  StageInv'
  OBVIOUS
<1>0. Instances /\ Progress /\ TypeOK
  BY DEF LifeInv, QueueInv
<1>1. CASE SetPluginPaths \/ (\E p \in Plugins : NoLoadOption(p)) \/ ParseOptions
  <2>1. /\ phase \in {"start", "options"} /\ UNCHANGED broken
        /\ phase' \in {"options", "loadQueue", "stopQueue"}
    BY <1>1 DEF SetPluginPaths, NoLoadOption, ParseOptions, StartLoadQueue, inputs
  <2>2. \A p \in Plugins : state'[p] \in {"Read", "Resolved"}
    <3>1. \A p \in Plugins : state[p] \in {"Read", "Resolved"}
      BY <2>1 DEF StageInv
    <3>2. CASE UNCHANGED state
      BY <3>1, <3>2
    <3>3. CASE \E specs : ResolveDependencies(specs)
      BY <3>1, <3>3 DEF ResolveDependencies
    <3> QED
      BY <1>1, <3>2, <3>3 DEF SetPluginPaths, NoLoadOption, ParseOptions, RefreshDependencies
  <2>3. \A p \in Plugins : ~Live(p)' /\ state'[p] # "Loaded"
    BY <2>2 DEF Live
  <2> QED
    BY <2>1, <2>2, <2>3 DEF StageInv
<1>2. CASE LoadQueue \/ StopAll
  <2>1. /\ UNCHANGED <<broken, state>>
        /\ phase' \in {"loadQueue", "stopQueue", "Loaded", "Stopped"}
        /\ phase' \in {"loadQueue", "Loaded"} => phase = "loadQueue"
    BY <1>2 DEF LoadQueue, LoadQueueKnown, LoadQueueFails, LoadQueueEnters, LoadQueueAddsSelf,
       LoadQueueEnds, Call, CallFromList, CallFromSpec, StopAll, StartLoadQueue, Queueing,
       inputs
  <2>2. \A p \in Plugins : Live(p)' <=> Live(p)
    BY <2>1 DEF Live
  <2> QED
    BY <2>1, <2>2 DEF StageInv
<1>3. CASE \E p \in Plugins :
             \/ LoadPluginSkips(p) \/ LoadPluginWithoutDependencies(p)
             \/ LoadPluginUp(p) \/ LoadPluginDown(p)
  BY <1>0, <1>3, LoadPluginStage
<1>4. CASE LoopEnds
  <2>1. /\ UNCHANGED <<broken, state, hasError, queue>> /\ rest = <<>>
        /\ phase' \in {"Initialized", "Running", "up", "Deleted", "down"}
        /\ phase' = "Initialized" => phase = "Loaded"
        /\ phase' = "up" => phase = "Running"
    BY <1>4 DEF LoopEnds, inputs
  <2>2. Treated = DOMAIN queue
    BY <1>0, <2>1, LoopOver
  <2>3. ASSUME NEW i \in DOMAIN queue, queue[i] \notin hasError
        PROVE  /\ phase' = "Initialized" => state[queue[i]] = "Loaded"
               /\ phase' = "up" => state[queue[i]] = "Running"
    BY <1>0, <2>1, <2>2, <2>3 DEF Progress
  <2>4. \A p \in Plugins : Live(p)' <=> Live(p)
    BY <2>1 DEF Live
  <2> QED
    BY <2>1, <2>3, <2>4 DEF StageInv
<1>5. CASE UNCHANGED vars
  BY <1>5, Zenon DEF vars, StageInv, Live, Treated, Backwards
<1> QED
  BY <1>1, <1>2, <1>3, <1>4, <1>5 DEF Next, LoadPlugin

(* Once the application is up, the plugins that run are the least set that *)
(* has, with a plugin, all it depends on, and none that is broken.  None   *)
(* has run early: were there one that ought not to, take the one that is   *)
(* first in the queue.                                                     *)
LEMMA UpIsUsable ==
    ASSUME QueueInv, AliveInv, Listed, LifeInv, BlameInv, StageInv
    PROVE  RunningIsUsable
<1> SUFFICES ASSUME phase = "up"
             PROVE  {p \in Plugins : state[p] = "Running"} = Usable(pluginSpecs)
  BY DEF RunningIsUsable
<1>1. /\ TypeOK /\ Instances /\ ~Reading /\ ~Queueing /\ phase # "down"
      /\ pluginSpecs \in Seq(Plugins) /\ Len(queue) \in Nat /\ DOMAIN queue = 1..Len(queue)
      /\ hasError \cap Usable(pluginSpecs) = {} /\ stack = <<>>
      /\ \A i \in DOMAIN queue : queue[i] \in Plugins
  BY DEF QueueInv, TypeOK, LifeInv, BlameInv, GoingUp, AliveInv, Reading, Queueing
<1>2. ASSUME NEW p \in Usable(pluginSpecs) PROVE p \in Plugins /\ state[p] = "Running"
  <2>1. p \in Elements(pluginSpecs) /\ p \in Plugins /\ p \notin hasError
    BY <1>1, UsableReady
  <2>2. PICK i \in DOMAIN queue : queue[i] = p
    BY <1>1, <2>1 DEF Listed, Contains
  <2> QED
    BY <2>1, <2>2 DEF StageInv
<1>3. ASSUME NEW p \in Plugins, state[p] = "Running"
      PROVE  /\ p \in Elements(pluginSpecs) /\ broken[p] = "nothing"
             /\ \E i \in DOMAIN queue : queue[i] = p
             /\ Elements(dependencies[p]) = Elements(dependencySpecs[p])
             /\ \A d \in Elements(dependencies[p]) : d \in Plugins /\ state[d] = "Running"
  <2>1. Live(p) /\ ~Unresolved(p)
    BY <1>3 DEF Live, Unresolved
  <2>2. p \in plugins /\ p \notin hasError /\ p \in Elements(pluginSpecs)
    BY <1>1, <2>1 DEF Instances
  <2>3. \E i \in DOMAIN queue : queue[i] = p
    BY <1>1, <2>2, InstancesQueued
  <2>4. broken[p] = "nothing" /\ dependencySpecs[p] = dependencies[p]
    BY <2>1 DEF StageInv, BlameInv
  <2>5. ASSUME NEW d \in Elements(dependencySpecs[p])
        PROVE  d \in Plugins /\ state[d] = "Running"
    <3>1. d \in Plugins
      BY <1>1, DependencyType
    <3>2. Live(d)
      BY <1>1, <2>1 DEF Instances
    <3>3. state[d] \in LiveStates("up")
      BY <1>1, <3>1, <3>2 DEF Instances
    <3> QED
      BY <3>1, <3>3, LiveByPhase
  <2> QED
    BY <2>2, <2>3, <2>4, <2>5
<1>4. ASSUME NEW p \in Plugins, state[p] = "Running" PROVE p \in Usable(pluginSpecs)
  <2> DEFINE T == {i \in DOMAIN queue :
                      state[queue[i]] = "Running" /\ queue[i] \notin Usable(pluginSpecs)}
  <2> SUFFICES ASSUME p \notin Usable(pluginSpecs) PROVE FALSE
    OBVIOUS
  <2>1. T \in SUBSET Nat /\ T # {}
    BY <1>1, <1>3, <1>4
  <2> HIDE DEF T
  <2>2. PICK i \in T : \A j \in T : i <= j
    BY <2>1, Smallest
  <2>3. i \in DOMAIN queue /\ state[queue[i]] = "Running" /\ queue[i] \notin Usable(pluginSpecs)
    BY <2>2 DEF T
  <2> DEFINE q == queue[i]
  <2>4. /\ q \in Plugins /\ q \in Elements(pluginSpecs) /\ broken[q] = "nothing"
        /\ \A d \in Elements(dependencies[q]) : /\ d \in Elements(dependencySpecs[q])
                                                /\ state[d] = "Running"
    BY <1>1, <1>3, <2>3
  <2>5. ASSUME NEW d \in Elements(dependencies[q]) PROVE d \in Usable(pluginSpecs)
    <3>1. PICK j \in DOMAIN queue : j < i /\ queue[j] = d
      BY <2>3, <2>4, QueuePlaces
    <3>2. j \notin T
      BY <1>1, <2>2, <2>3, <3>1
    <3> QED
      BY <2>4, <3>1, <3>2 DEF T
  <2>6. q \in Ready(pluginSpecs, Usable(pluginSpecs))
    BY <2>4, <2>5 DEF Ready
  <2>7. q \in Usable(pluginSpecs)
    BY <1>1, <2>6, UsableIsLeast
  <2> QED
    BY <2>3, <2>7
<1> QED
  BY <1>2, <1>4

(* Exactly those plugins run whose dependencies all run and that do not    *)
(* fail by themselves.                                                     *)
THEOREM UsableRun == Spec => []RunningIsUsable
<1>1. Init => BlameInv
  <2> SUFFICES ASSUME Init PROVE BlameInv
    OBVIOUS
  <2>1. /\ hasError = {} /\ pluginSpecs = <<>> /\ \A p \in Plugins : Unresolved(p)
    BY DEF Init, Unresolved
  <2> QED
    BY <2>1 DEF BlameInv, Elements
<1>2. Init => StageInv
  BY DEF Init, StageInv, Live
<1>3. Init => Listed /\ LoopInv
  BY DEF Init, Listed, LoopInv, InLoop, Reading
<1>4. QueueInv /\ AliveInv /\ Listed /\ LifeInv /\ BlameInv /\ StageInv => RunningIsUsable
  BY UpIsUsable
<1> QED
  BY <1>1, <1>2, <1>3, <1>4, NextBlame, NextStage, NextListed, NextLoop, SpecLifeInv,
     SpecAliveInv, InitInv, NextInv, PTL DEF Spec
=============================================================================
