---------------------------- MODULE CycleVerdict ----------------------------
(***************************************************************************)
(* What hasCircularDependency (dockerfile2llb/convert.go) promises its     *)
(* caller: one answer, and the right one for the dependency graph.  The    *)
(* depth-first search that computes it is in CircularCheck.                *)
(***************************************************************************)
EXTENDS StageDigraph

CONSTANT Node                  \* the dispatch states

VARIABLES graph,               \* what each state depends on
          verdict              \* "running", then "cyclic" or "acyclic"

Init == /\ graph \in [Node -> SUBSET Node]
        /\ verdict = "running"

Answer == /\ verdict = "running"
          /\ verdict' = IF Cyclic(graph) THEN "cyclic" ELSE "acyclic"
          /\ UNCHANGED graph

Spec == Init /\ [][Answer]_<<graph, verdict>>
=============================================================================
