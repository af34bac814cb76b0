---------------------------- MODULE StageDigraph ----------------------------
(***************************************************************************)
(* The graph a Dockerfile's stages form: `succ' maps a dispatch state to   *)
(* the set of dispatch states it names.  The definitions are the           *)
(* mathematical ones; what the converter computes (hasCircularDependency,  *)
(* isReachable in dockerfile2llb/convert.go) is compared with them.        *)
(***************************************************************************)
EXTENDS Naturals

Closed(S, succ) == \A n \in S : succ[n] \subseteq S

(***************************************************************************)
(* A finite graph has a cycle iff some nonempty set of nodes gives each of *)
(* its members a successor inside the set.                                 *)
(***************************************************************************)
Recurrent(S, succ) == S # {} /\ \A n \in S : succ[n] \cap S # {}

Cyclic(succ) == \E S \in SUBSET DOMAIN succ : Recurrent(S, succ)

\* m belongs to every closed set that contains n
Reaches(succ, n, m) ==
    \A S \in SUBSET DOMAIN succ : (n \in S /\ Closed(S, succ)) => m \in S

\* n reaches a node that lies on a cycle
ReachesCycle(succ, n) ==
    \E S \in SUBSET DOMAIN succ :
        Recurrent(S, succ) /\ \A m \in S : Reaches(succ, n, m)
=============================================================================
