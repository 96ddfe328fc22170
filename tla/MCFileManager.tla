---------------------------- MODULE MCFileManager ----------------------------
(* Instances of FileManager for TLC: two documents and two paths.  The file *)
(* of the start and the first writing have the same time stamp.             *)
EXTENDS FileManager, TLC

CONSTANTS d1, d2, n1, n2

MCLastModified == [v \in 0..MaxVersion |-> (v + 1) \div 2]

Symmetry == Permutations({d1, d2}) \cup Permutations({n1, n2})
=============================================================================
