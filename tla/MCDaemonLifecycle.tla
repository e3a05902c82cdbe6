------------------------- MODULE MCDaemonLifecycle -------------------------
(* Two lanes: one of the "main" kind, which runs one task at a time and is *)
(* what the resumes of a workspace use, and one of the "subagent" kind,    *)
(* which runs two.  Three tasks share the main lane, so that two can wait  *)
(* in it and their order shows; the fourth is alone in its lane.           *)
EXTENDS DaemonLifecycle

MCLanes == {"main", "subagent"}
MCMaxConcurrent == [k \in MCLanes |-> IF k = "main" THEN 1 ELSE 2]

MCTasks == {"m1", "m2", "m3", "s1"}
MCLaneOf == [t \in MCTasks |-> IF t = "s1" THEN "subagent" ELSE "main"]

\* Smaller, for the runs whose counterexample needs few tasks: the main lane queues.
FewTasks == {"m1", "m2", "s1"}
FewLaneOf == [t \in FewTasks |-> IF t \in {"m1", "m2"} THEN "main" ELSE "subagent"]
=============================================================================
