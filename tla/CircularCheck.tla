---------------------------- MODULE CircularCheck ---------------------------
(***************************************************************************)
(* hasCircularDependency of dockerfile2llb/convert.go: a depth-first       *)
(* search over the `deps' maps of the dispatch states, started from every  *)
(* state in list order.  A Go map is ranged over in an unspecified order,  *)
(* so the next dependency of a frame is any one not visited by that frame  *)
(* yet.                                                                    *)
(***************************************************************************)
EXTENDS Integers, Sequences, StageDigraph

CONSTANT N                     \* number of dispatch states

ASSUME NAssumption == N \in Nat

Node == 1 .. N

VARIABLES deps,                \* the graph, an input the search never writes
          root,                \* index of the `for _, state := range states' loop
          stack,               \* frames of `visit': a state and its deps left to range over
          visited, path,       \* the two maps of the closure
          verdict,             \* "running", "cyclic", "acyclic"
          reported             \* the state the error message names, 0 for none

vars == <<deps, root, stack, visited, path, verdict, reported>>

Frame == [node : Node, todo : SUBSET Node]

Top == stack[Len(stack)]

Init == /\ deps \in [Node -> SUBSET Node]
        /\ root = 0
        /\ stack = <<>>
        /\ visited = {} /\ path = {}
        /\ verdict = "running"
        /\ reported = 0

-----------------------------------------------------------------------------
\* entering `visit' on a state that was not visited before
Enter(n, frames) ==
    /\ visited' = visited \cup {n}
    /\ path' = path \cup {n}
    /\ stack' = Append(frames, [node |-> n, todo |-> deps[n]])

\* the top frame, with dependency m ranged over
Ranged(m) == [stack EXCEPT ![Len(stack)].todo = @ \ {m}]

\* the outer loop calls visit on the next state
NextRoot ==
    /\ verdict = "running" /\ stack = <<>> /\ root < N
    /\ root' = root + 1
    /\ IF root + 1 \in visited THEN UNCHANGED <<stack, visited, path>>
                               ELSE Enter(root + 1, stack)
    /\ UNCHANGED <<deps, verdict, reported>>

\* mutation of CloseCycle: the message names the stage the cycle was found at
CloseCycleAtDep(m) ==
    /\ verdict = "running" /\ stack # <<>> /\ m \in Top.todo \cap path
    /\ verdict' = "cyclic" /\ reported' = m
    /\ UNCHANGED <<deps, root, stack, visited, path>>

\* a dependency that is on the current path closes a cycle: every frame returns true
CloseCycle(m) ==
    /\ verdict = "running" /\ stack # <<>> /\ m \in Top.todo
    /\ m \in path
    /\ verdict' = "cyclic"
    /\ reported' = root
    /\ UNCHANGED <<deps, root, stack, visited, path>>

\* visit(dep) returns false at once
SkipVisited(m) ==
    /\ verdict = "running" /\ stack # <<>> /\ m \in Top.todo
    /\ m \in visited \ path
    /\ stack' = Ranged(m)
    /\ UNCHANGED <<deps, root, visited, path, verdict, reported>>

\* visit(dep) recurs
VisitDep(m) ==
    /\ verdict = "running" /\ stack # <<>> /\ m \in Top.todo
    /\ m \notin visited /\ m \notin path
    /\ Enter(m, Ranged(m))
    /\ UNCHANGED <<deps, root, verdict, reported>>

\* mutation of Return: the state is not deleted from the path
ReturnOnPath ==
    /\ verdict = "running" /\ stack # <<>> /\ Top.todo = {}
    /\ stack' = SubSeq(stack, 1, Len(stack) - 1)
    /\ UNCHANGED <<deps, root, visited, path, verdict, reported>>

\* delete(path, state); return false
Return ==
    /\ verdict = "running" /\ stack # <<>> /\ Top.todo = {}
    /\ path' = path \ {Top.node}
    /\ stack' = SubSeq(stack, 1, Len(stack) - 1)
    /\ UNCHANGED <<deps, root, visited, verdict, reported>>

\* mutations of NoCycle: a state too many is waited for, or those not visited yet are forgotten
NoCyclePastEnd ==
    /\ verdict = "running" /\ stack = <<>> /\ root > N
    /\ verdict' = "acyclic"
    /\ UNCHANGED <<deps, root, stack, visited, path, reported>>
NoCycleEarly ==
    /\ verdict = "running" /\ stack = <<>>
    /\ verdict' = "acyclic"
    /\ UNCHANGED <<deps, root, stack, visited, path, reported>>

\* the outer loop is over
NoCycle ==
    /\ verdict = "running" /\ stack = <<>> /\ root = N
    /\ verdict' = "acyclic"
    /\ UNCHANGED <<deps, root, stack, visited, path, reported>>

Next == \/ NextRoot \/ Return \/ NoCycle
        \/ \E m \in Node : CloseCycle(m) \/ SkipVisited(m) \/ VisitDep(m)

\* the search is sequential code: it takes a step whenever it has one
Spec == Init /\ [][Next]_vars /\ WF_vars(Next)

-----------------------------------------------------------------------------
TypeOK == /\ deps \in [Node -> SUBSET Node]
          /\ root \in 0 .. N
          /\ stack \in Seq(Frame)
          /\ visited \in SUBSET Node /\ path \in SUBSET Node
          /\ verdict \in {"running", "cyclic", "acyclic"}
          /\ reported \in 0 .. N

\* left for good by the search
Finished == visited \ path

(* The map `path' is the call stack, each call made from a dependency of   *)
(* its caller and no state twice on it: a stale entry would turn a diamond *)
(* of COPY --from into a reported cycle.                                   *)
PathIsStack ==
    verdict = "running" =>
        /\ path = {stack[i].node : i \in 1 .. Len(stack)}
        /\ \A i \in 1 .. Len(stack) :
             /\ \A j \in 1 .. Len(stack) : stack[i].node = stack[j].node => i = j
             /\ i < Len(stack) => stack[i + 1].node \in deps[stack[i].node]

(* A state the search has left depends only on states it has left, and     *)
(* nothing it has left lies on a cycle.                                    *)
FinishedIsAcyclic ==
    /\ Closed(Finished, deps)
    /\ \A S \in SUBSET Finished : ~Recurrent(S, deps)

(* hasCircularDependency is exact: it answers "cyclic" only if the deps    *)
(* form a cycle and "acyclic" only if they do not, whatever the order the  *)
(* maps are ranged over in.                                                *)
VerdictExact ==
    /\ verdict = "cyclic" => Cyclic(deps)
    /\ verdict = "acyclic" => ~Cyclic(deps)

(* The stage named in "circular dependency detected on stage" leads to the *)
(* cycle and is the first of the Dockerfile that does: the message does    *)
(* not depend on map order.                                                *)
ReportedIsFirst ==
    verdict = "cyclic" =>
        /\ reported \in Node
        /\ ReachesCycle(deps, reported)
        /\ \A n \in 1 .. reported - 1 : ~ReachesCycle(deps, n)

(* The search gives its answer: the recursion ends on every graph, cyclic  *)
(* ones included.                                                          *)
Terminates == <>(verdict # "running")

(* The search implements the one-step answer of CycleVerdict. *)
Abstract == INSTANCE CycleVerdict WITH graph <- deps
ImplementsVerdict == Abstract!Spec
=============================================================================
