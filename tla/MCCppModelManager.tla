------------------------- MODULE MCCppModelManager -------------------------
(* CppModelManager for TLC: a source file that includes a header, or alone. *)
EXTENDS CppModelManager, TLC

CONSTANTS source, header

MCFileLists == {<<source>>, <<header, source>>}
MCIncludes == [f \in Files |-> IF f = source THEN <<header>> ELSE <<>>]
AloneFileLists == {<<source>>}
AloneIncludes == [f \in Files |-> <<>>]
MCSymmetry == Permutations(Projects)
=============================================================================
