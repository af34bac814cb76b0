--------------------------- MODULE ImageMetadata ----------------------------
(***************************************************************************)
(* What the parallel resolution of base images (dockerfile2llb/convert.go) *)
(* promises the dispatch loop behind it: either every state that needs a   *)
(* base has one and nothing writes to it any more, or the build failed.    *)
(* ImageResolve shows the goroutines to implement it.                      *)
(***************************************************************************)
CONSTANT Node                  \* the dispatch states

VARIABLES needed,              \* the states to be given a base
          ready,               \* the states that have one
          outcome              \* "pending", then "ready" or "failed"

Init == needed \in SUBSET Node /\ ready = {} /\ outcome = "pending"

Resolve(d) == /\ outcome = "pending" /\ d \in needed \ ready
              /\ ready' = ready \cup {d}
              /\ UNCHANGED <<needed, outcome>>

Succeed == /\ outcome = "pending" /\ ready = needed
           /\ outcome' = "ready"
           /\ UNCHANGED <<needed, ready>>

Fail == /\ outcome = "pending"
        /\ outcome' = "failed"
        /\ UNCHANGED <<needed, ready>>

Next == (\E d \in Node : Resolve(d)) \/ Succeed \/ Fail

Spec == Init /\ [][Next]_<<needed, ready, outcome>>
=============================================================================
