SPECIFICATION MCSpec
CONSTANTS
    a = a
    b = b
    c = c
    Missing = Missing
    Plugins <- MCPlugins
    PluginSpecs <- MCPluginSpecs
    Dependencies <- MCDependencies
CHECK_DEADLOCK FALSE
INVARIANTS
    TypeOK
    QueueSorted
    LifecycleOrder
    QueueAlive
    RunningIsUsable
    DeletedInReverse
