---------------------------- MODULE Reachability ----------------------------
(***************************************************************************)
(* isReachable of dockerfile2llb/convert.go: the recursive walk that       *)
(* decides which stages are resolved and dispatched for a target.  It goes *)
(* to the base first, then to the dependencies in the unspecified order of *)
(* a Go map, and it keeps no record of where it has been: on a cycle it    *)
(* calls itself until the stack of its goroutine is full.                  *)
(***************************************************************************)
EXTENDS Integers, Sequences, FiniteSets, StageDigraph

CONSTANTS N,                   \* number of dispatch states
          MaxDepth             \* calls a goroutine's stack has room for

ASSUME NAssumption == N \in Nat \ {0}

\* Go lets a stack grow to a gigabyte: room for millions of calls, more than there are stages
ASSUME MaxDepthAssumption == MaxDepth \in Nat /\ MaxDepth >= N

Node == 1 .. N

VARIABLES base, deps,          \* the edges of the stage graph, base 0 for none
          from, to,            \* the arguments of the call
          stack,               \* calls in progress: a state and the edges left to follow
          answer               \* "running", "yes", "no", "overflow"

vars == <<base, deps, from, to, stack, answer>>

Edges == [n \in Node |-> deps[n] \cup ({base[n]} \ {0})]

\* a call has its base to follow (base # 0), then its deps
Frame == [node : Node, base : 0 .. N, todo : SUBSET Node]

Call(n) == [node |-> n, base |-> base[n], todo |-> deps[n]]

Top == stack[Len(stack)]

(* The graphs the converter hands over: a base is an earlier state         *)
(* (StageGraph's BaseIsEarlier) and the dependencies alone have no cycle,  *)
(* which is what hasCircularDependency has looked for.  A base and a       *)
(* dependency on a later stage may still close one.                        *)
Init == /\ base \in [Node -> 0 .. N] /\ \A n \in Node : base[n] < n
        /\ deps \in [Node -> SUBSET Node]
        /\ ~Cyclic(deps)
        /\ from \in Node /\ to \in Node
        /\ stack = <<Call(from)>>
        /\ answer = "running"

-----------------------------------------------------------------------------
Running == answer = "running" /\ stack # <<>>

\* one more call fits on the stack
Room == Len(stack) < MaxDepth

\* from == to: every caller returns true
Hit ==
    /\ Running /\ Top.node = to
    /\ answer' = "yes"
    /\ UNCHANGED <<base, deps, from, to, stack>>

\* mutation of FollowBase: the dependencies are not followed after it
FollowBaseOnly ==
    /\ Running /\ Room /\ Top.node # to /\ Top.base # 0
    /\ stack' = Append([stack EXCEPT ![Len(stack)].base = 0, ![Len(stack)].todo = {}], Call(Top.base))
    /\ UNCHANGED <<base, deps, from, to, answer>>

\* the base is followed before any dependency
FollowBase ==
    /\ Running /\ Room /\ Top.node # to /\ Top.base # 0
    /\ stack' = Append([stack EXCEPT ![Len(stack)].base = 0], Call(Top.base))
    /\ UNCHANGED <<base, deps, from, to, answer>>

\* mutation of FollowDep: the call is made with the state itself
FollowDepFromSame(m) ==
    /\ Running /\ Room /\ Top.node # to /\ Top.base = 0 /\ m \in Top.todo
    /\ stack' = Append([stack EXCEPT ![Len(stack)].todo = @ \ {m}], Call(Top.node))
    /\ UNCHANGED <<base, deps, from, to, answer>>

FollowDep(m) ==
    /\ Running /\ Room /\ Top.node # to /\ Top.base = 0
    /\ m \in Top.todo
    /\ stack' = Append([stack EXCEPT ![Len(stack)].todo = @ \ {m}], Call(m))
    /\ UNCHANGED <<base, deps, from, to, answer>>

\* a call the stack has no room for: the runtime ends the program
Overflow ==
    /\ Running /\ ~Room /\ Top.node # to
    /\ Top.base # 0 \/ Top.todo # {}
    /\ answer' = "overflow"
    /\ UNCHANGED <<base, deps, from, to, stack>>

\* return false to the caller
Return ==
    /\ Running /\ Top.node # to /\ Top.base = 0 /\ Top.todo = {}
    /\ stack' = SubSeq(stack, 1, Len(stack) - 1)
    /\ UNCHANGED <<base, deps, from, to, answer>>

NotFound ==
    /\ answer = "running" /\ stack = <<>>
    /\ answer' = "no"
    /\ UNCHANGED <<base, deps, from, to, stack>>

Next == Hit \/ FollowBase \/ (\E m \in Node : FollowDep(m)) \/ Overflow \/ Return \/ NotFound

Spec == Init /\ [][Next]_vars

-----------------------------------------------------------------------------
TypeOK == /\ base \in [Node -> 0 .. N] /\ deps \in [Node -> SUBSET Node]
          /\ from \in Node /\ to \in Node
          /\ stack \in Seq(Frame)
          /\ answer \in {"running", "yes", "no", "overflow"}

(* The walk answers whether `to' is the target itself or reached from it   *)
(* through bases and dependencies, in whatever order the map is ranged     *)
(* over: a stage left out would never be dispatched, and one let in would  *)
(* pull an image nobody needs.                                             *)
AnswerExact ==
    /\ answer = "yes" => Reaches(Edges, from, to)
    /\ answer = "no" => ~Reaches(Edges, from, to)

(* What a cycle that the check of the dependencies has let through does to *)
(* the walk.  The stack overflows only when there is one below the state   *)
(* the walk begins at: without one the recursion stays as shallow as there *)
(* are states, although it marks nothing as visited.  And with one the     *)
(* walk can answer yes when it happens to meet `to' first, but never no: a *)
(* target with a cycle below it is asked about every stage, and one that   *)
(* it does not need ends the program instead of being left out.            *)
CycleOverflows ==
    /\ answer = "overflow" => ReachesCycle(Edges, from)
    /\ answer = "no" => ~ReachesCycle(Edges, from)

=============================================================================
