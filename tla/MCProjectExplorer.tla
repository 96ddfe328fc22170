-------------------------- MODULE MCProjectExplorer --------------------------
(* Two projects, of which one is an application that has a clean step. *)
EXTENDS ProjectExplorer

CONSTANTS p1, p2, s1, s2, s3, c1, r1, r2

MCProjects == {p1, p2}
MCSteps == {s1, s2, s3}
MCConfigs == {c1}
MCProjectOf == [s \in MCSteps |-> IF s = s2 THEN p2 ELSE p1]
Of(s) == [step |-> s, config |-> c1]
MCBuildSteps == [p \in MCProjects |-> IF p = p1 THEN <<Of(s1)>> ELSE <<Of(s2)>>]
MCCleanSteps == [p \in MCProjects |-> IF p = p1 THEN <<Of(s3)>> ELSE <<>>]
MCProjectOrder == <<p1, p2>>

Symmetry == Permutations(Controls)

(* What is of no account any more: the last report, and of a build that is *)
(* over its current step and its progress.                                 *)
View == <<queue, configurations, running, active, canceling, maxProgress,
          progressFuture, watched, orphans, events, gui, seen, explorer,
          IF running THEN <<current, progress>> ELSE <<>> >>

(* The user unloads no project that is being built or is to be run, and    *)
(* goes to no other session then.                                          *)
CarefulNext ==
    \/ LoadSession /\ ProjectsInUse = {}
    \/ /\ \/ ProjectAction
          \/ BuildAction
          \/ CallBuildManager
          \/ ControlAction
          \/ BuildManagerStep
       /\ StepsAlive'
CarefulSpec == ExplorerInit /\ [][CarefulNext]_allVars

(* Only projects come and go, in one session. *)
ProjectsSpec == ExplorerInit /\ [][ProjectAction]_allVars
=============================================================================
