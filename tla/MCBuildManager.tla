--------------------------- MODULE MCBuildManager ---------------------------
(* Two projects, three build steps and two configurations for TLC. *)
EXTENDS BuildManager

CONSTANTS p1, p2, s1, s2, s3, c1, c2

MCProjects == {p1, p2}
MCSteps == {s1, s2, s3}
MCConfigs == {c1, c2}
MCProjectOf == [s \in MCSteps |-> IF s = s3 THEN p2 ELSE p1]

E(s, c) == [step |-> s, config |-> c]

(* Nothing to do, a project of two steps, its rebuild in another            *)
(* configuration, a session of both projects, a single appended step.      *)
MCRequests == { <<>>, <<E(s1, c1), E(s2, c1)>>, <<E(s1, c2)>>, <<E(s3, c1)>>,
                <<E(s3, c2), E(s1, c1)>> }
=============================================================================
