--------------------------- MODULE MCPluginManager ---------------------------
(* Three plugins in every dependency graph with at most two dependencies   *)
(* each, circular and unresolvable ones included.                          *)
EXTENDS PluginManager

CONSTANTS a, b, c

MCPlugins == {a, b, c}
MCPluginSpecs == <<a, b, c>>

MCDependencies ==
    {<<>>, <<a>>, <<b>>, <<c>>, <<Missing>>, <<a, b>>, <<c, a>>, <<b, c>>,
     <<b, Missing>>}

(* At most one plugin fails by itself. *)
MCInit ==
    /\ Init
    /\ Cardinality({p \in Plugins : broken[p] # "nothing"}) <= 1

MCSpec == MCInit /\ [][Next]_vars
=============================================================================
