------------------------------ MODULE MCSession ------------------------------
(* Three project files and three sessions to take from. *)
EXTENDS Session

CONSTANTS a, b, c, s, t

(* Without editors and other startup projects, for what is about the       *)
(* dependencies of three projects.                                         *)
NextWithoutEditors ==
    Next /\ ~openedEditors' /\ m_file'.startupProject \in {None, a}
SpecWithoutEditors == Init /\ [][NextWithoutEditors]_vars
=============================================================================
