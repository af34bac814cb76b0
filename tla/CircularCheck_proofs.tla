------------------------ MODULE CircularCheck_proofs ------------------------
(***************************************************************************)
(* The search of hasCircularDependency gives the exact answer on every     *)
(* finite graph of stages, whatever the order the maps are ranged over in. *)
(***************************************************************************)
EXTENDS CircularCheck, TLAPS

\* the stack is one path of the graph that visits no state twice
PathInv ==
    /\ path = {stack[i].node : i \in 1 .. Len(stack)}
    /\ \A i, j \in 1 .. Len(stack) : stack[i].node = stack[j].node => i = j
    /\ \A i \in 1 .. Len(stack) - 1 : stack[i + 1].node \in deps[stack[i].node]

\* what a frame has ranged over is finished, or is the call in progress
RangedInv ==
    \A i \in 1 .. Len(stack) :
        /\ stack[i].todo \subseteq deps[stack[i].node]
        /\ \A m \in deps[stack[i].node] \ stack[i].todo :
             m \in Finished \/ (i < Len(stack) /\ m = stack[i + 1].node)

VisitedInv == path \subseteq visited /\ 1 .. root \subseteq visited

IInv == TypeOK /\ PathInv /\ RangedInv /\ VisitedInv /\ FinishedIsAcyclic /\ VerdictExact

-----------------------------------------------------------------------------
\* One more node whose successors all lie in an acyclic closed set: the set stays
\* acyclic and closed.
LEMMA FinishOne ==
    ASSUME NEW succ \in [Node -> SUBSET Node], NEW F \in SUBSET Node, NEW n \in Node,
           n \notin F, succ[n] \subseteq F, Closed(F, succ),
           \A S \in SUBSET F : ~Recurrent(S, succ)
    PROVE  /\ Closed(F \cup {n}, succ)
           /\ \A S \in SUBSET (F \cup {n}) : ~Recurrent(S, succ)
<1>1. Closed(F \cup {n}, succ)
  BY DEF Closed
<1>2. ASSUME NEW S \in SUBSET (F \cup {n}), Recurrent(S, succ) PROVE FALSE
  <2>1. S \ {n} # {}
    BY <1>2 DEF Recurrent
  <2>2. \A m \in S \ {n} : succ[m] \cap (S \ {n}) # {}
    BY <1>2 DEF Recurrent, Closed
  <2>3. S \ {n} \in SUBSET F
    OBVIOUS
  <2> QED BY <2>1, <2>2, <2>3 DEF Recurrent
<1> QED BY <1>1, <1>2

\* pushing a frame for a node that is new to the search preserves the invariant
LEMMA EnterInv ==
    ASSUME IInv, NEW frames \in Seq(Frame), NEW n \in Node, n \notin visited,
           Len(frames) = Len(stack),
           \A i \in 1 .. Len(frames) : frames[i].node = stack[i].node,
           \A i \in 1 .. Len(frames) : i < Len(stack) => frames[i] = stack[i],
           frames # <<>> => /\ n \in deps[frames[Len(frames)].node]
                            /\ frames[Len(frames)].todo = stack[Len(stack)].todo \ {n},
           Enter(n, frames), UNCHANGED <<deps, verdict, reported>>,
           root' \in 0 .. N, 1 .. root' \subseteq visited'
    PROVE  IInv'
<1> DEFINE L == Len(stack)
<1>0. /\ stack' = Append(frames, [node |-> n, todo |-> deps[n]])
      /\ visited' = visited \cup {n} /\ path' = path \cup {n}
      /\ L \in Nat /\ stack \in Seq(Frame) /\ deps \in [Node -> SUBSET Node]
      /\ path \subseteq visited
  BY DEF IInv, TypeOK, VisitedInv, Enter
<1>1. [node |-> n, todo |-> deps[n]] \in Frame
  BY <1>0 DEF Frame
<1>2. /\ stack' \in Seq(Frame) /\ Len(stack') = L + 1
      /\ stack'[L + 1] = [node |-> n, todo |-> deps[n]]
      /\ \A i \in 1 .. L : stack'[i] = frames[i]
  BY <1>0, <1>1
<1>3. TypeOK'
  BY <1>0, <1>2 DEF IInv, TypeOK
<1>4. Finished' = Finished
  BY <1>0 DEF Finished
<1>5. PathInv'
  <2>1. path' = {stack'[i].node : i \in 1 .. Len(stack')}
    <3>1. path = {stack[i].node : i \in 1 .. L} /\ path' = path \cup {n}
      BY <1>0 DEF IInv, PathInv
    <3>2. \A i \in 1 .. L : stack'[i].node = stack[i].node
      BY <1>2
    <3>3. stack'[L + 1].node = n
      BY <1>2
    <3>4. 1 .. L + 1 = (1 .. L) \cup {L + 1}
      BY <1>0
    <3>5. ASSUME NEW x \in path' PROVE x \in {stack'[i].node : i \in 1 .. L + 1}
      <4>1. CASE x = n
        BY ONLY <4>1, <3>3, <3>4
      <4>2. CASE x \in path
        <5>1. PICK i \in 1 .. L : x = stack[i].node
          BY ONLY <4>2, <3>1
        <5> QED BY ONLY <5>1, <3>2, <3>4
      <4> QED BY ONLY <4>1, <4>2, <3>1, <3>5
    <3>6. ASSUME NEW i \in 1 .. L + 1 PROVE stack'[i].node \in path'
      <4>1. CASE i = L + 1
        BY ONLY <4>1, <3>1, <3>3
      <4>2. CASE i \in 1 .. L
        BY ONLY <4>2, <3>1, <3>2
      <4> QED BY ONLY <4>1, <4>2, <3>4, <3>6
    <3>7. Len(stack') = L + 1
      BY <1>2
    <3> QED BY ONLY <3>5, <3>6, <3>7
  <2>2. \A i, j \in 1 .. Len(stack') : stack'[i].node = stack'[j].node => i = j
    <3>1. \A i \in 1 .. L : stack'[i].node = stack[i].node /\ stack[i].node # n
      <4>1. \A i \in 1 .. L : stack'[i].node = stack[i].node
        BY <1>2
      <4>2. path = {stack[i].node : i \in 1 .. L} /\ n \notin path
        BY <1>0 DEF IInv, PathInv
      <4>3. \A i \in 1 .. L : stack[i].node # n
        BY ONLY <4>2
      <4> QED BY ONLY <4>1, <4>3
    <3>2. \A i, j \in 1 .. L : stack[i].node = stack[j].node => i = j
      BY DEF IInv, PathInv
    <3>3. stack'[L + 1].node = n
      BY <1>2
    <3>4. SUFFICES ASSUME NEW i \in 1 .. L + 1, NEW j \in 1 .. L + 1,
                          stack'[i].node = stack'[j].node
                   PROVE  i = j
      BY ONLY <3>4, <1>2
    <3>5. CASE i = L + 1 /\ j = L + 1
      BY ONLY <3>5
    <3>6. CASE i \in 1 .. L /\ j \in 1 .. L
      BY ONLY <3>1, <3>2, <3>4, <3>6
    <3>7. CASE i \in 1 .. L /\ j = L + 1
      BY ONLY <3>1, <3>3, <3>4, <3>7
    <3>8. CASE i = L + 1 /\ j \in 1 .. L
      BY ONLY <3>1, <3>3, <3>4, <3>8
    <3>9. \A k \in 1 .. L + 1 : k = L + 1 \/ k \in 1 .. L
      BY <1>0
    <3> QED BY ONLY <3>5, <3>6, <3>7, <3>8, <3>9
  <2>3. \A i \in 1 .. Len(stack') - 1 : stack'[i + 1].node \in deps'[stack'[i].node]
    <3>1. ASSUME NEW i \in 1 .. L PROVE stack'[i + 1].node \in deps[stack'[i].node]
      <4>1. CASE i = L
        BY <4>1, <1>0, <1>2
      <4>2. CASE i < L
        BY <4>2, <1>0, <1>2 DEF IInv, PathInv
      <4> QED BY <4>1, <4>2, <1>0
    <3> QED BY <3>1, <1>0, <1>2
  <2> QED BY <2>1, <2>2, <2>3 DEF PathInv
<1>6. RangedInv'
  <2>1. ASSUME NEW i \in 1 .. Len(stack')
        PROVE  /\ stack'[i].todo \subseteq deps[stack'[i].node]
               /\ \A m \in deps[stack'[i].node] \ stack'[i].todo :
                    m \in Finished \/ (i < Len(stack') /\ m = stack'[i + 1].node)
    <3>1. CASE i = L + 1
      BY <3>1, <1>2
    <3>2. CASE i = L /\ L > 0
      <4>1. /\ stack'[i].todo = stack[L].todo \ {n} /\ stack'[i].node = stack[L].node
            /\ stack'[i + 1].node = n
        BY <3>2, <1>0, <1>2
      <4> QED BY <4>1, <3>2, <1>0, <1>2 DEF IInv, RangedInv
    <3>3. CASE i < L
      <4>1. stack'[i] = stack[i] /\ stack'[i + 1].node = stack[i + 1].node
        BY <3>3, <1>0, <1>2
      <4> QED BY <4>1, <3>3, <1>0, <1>2 DEF IInv, RangedInv
    <3> QED BY <3>1, <3>2, <3>3, <1>0, <1>2
  <2> QED BY <2>1, <1>4 DEF RangedInv
<1>7. VisitedInv'
  BY <1>0 DEF VisitedInv
<1>8. FinishedIsAcyclic' /\ VerdictExact'
  BY <1>4 DEF IInv, FinishedIsAcyclic, VerdictExact
<1> QED BY <1>3, <1>5, <1>6, <1>7, <1>8 DEF IInv

-----------------------------------------------------------------------------
\* nothing is visited, so nothing is finished and no call is in progress
LEMMA InitIInv == Init => IInv
<1> SUFFICES ASSUME Init PROVE IInv
  OBVIOUS
<1> USE NAssumption
<1>1. TypeOK
  BY DEF Init, TypeOK
<1>2. PathInv /\ RangedInv /\ VisitedInv
  BY DEF Init, PathInv, RangedInv, VisitedInv
<1>3. FinishedIsAcyclic
  BY DEF Init, FinishedIsAcyclic, Finished, Closed, Recurrent
<1>4. VerdictExact
  BY DEF Init, VerdictExact
<1> QED BY <1>1, <1>2, <1>3, <1>4 DEF IInv

\* every step of the search keeps the invariant, one action after the other
LEMMA NextIInv == IInv /\ [Next]_vars => IInv'
<1> SUFFICES ASSUME IInv, [Next]_vars PROVE IInv'
  OBVIOUS
<1> USE NAssumption
<1> DEFINE L == Len(stack)
<1>0. /\ stack \in Seq(Frame) /\ L \in Nat /\ deps \in [Node -> SUBSET Node]
      /\ \A i \in 1 .. L : stack[i] \in Frame
      /\ root \in 0 .. N /\ path \subseteq visited /\ 1 .. root \subseteq visited
  BY DEF IInv, TypeOK, VisitedInv
<1>1. CASE NextRoot
  <2>1. CASE root + 1 \in visited
    <3>1. /\ root' = root + 1 /\ root' \in 0 .. N /\ stack = <<>>
          /\ UNCHANGED <<deps, stack, visited, path, verdict, reported>>
      BY <1>1, <2>1, <1>0 DEF NextRoot
    <3>2. 1 .. root' \subseteq visited'
      BY <3>1, <2>1, <1>0
    <3> QED BY <3>1, <3>2 DEF IInv, TypeOK, PathInv, RangedInv, VisitedInv,
               FinishedIsAcyclic, VerdictExact, Finished
  <2>2. CASE root + 1 \notin visited
    <3>1. /\ Enter(root + 1, stack) /\ UNCHANGED <<deps, verdict, reported>>
          /\ stack = <<>> /\ root' = root + 1 /\ root + 1 \in Node /\ root' \in 0 .. N
      BY <1>1, <2>2, <1>0 DEF NextRoot, Node
    <3>2. 1 .. root' \subseteq visited'
      BY <3>1, <1>0 DEF Enter
    <3> QED BY <3>1, <3>2, <2>2, <1>0, EnterInv
  <2> QED BY <2>1, <2>2
<1>2. ASSUME NEW m \in Node, CloseCycle(m) PROVE IInv'
  <2>0. /\ m \in Top.todo /\ m \in path /\ stack # <<>> /\ L \in 1 .. L
        /\ UNCHANGED <<deps, root, stack, visited, path>>
        /\ verdict' = "cyclic" /\ reported' = root
    BY <1>2, <1>0 DEF CloseCycle
  <2>1. PICK k \in 1 .. L : stack[k].node = m
    BY <2>0 DEF IInv, PathInv
  <2> DEFINE S == {stack[i].node : i \in k .. L}
  <2>2. S \in SUBSET Node /\ m \in S
    BY <1>0, <2>1 DEF Frame
  <2>3. ASSUME NEW i \in k .. L PROVE deps[stack[i].node] \cap S # {}
    <3>1. CASE i = L
      BY <3>1, <2>0, <2>2 DEF Top, IInv, RangedInv
    <3>2. CASE i < L
      <4>1. i \in 1 .. L - 1 /\ i + 1 \in k .. L
        BY <3>2, <1>0, <2>1
      <4>2. stack[i + 1].node \in deps[stack[i].node]
        BY <4>1 DEF IInv, PathInv
      <4> QED BY <4>1, <4>2
    <3> QED BY <3>1, <3>2, <1>0
  <2>4. Recurrent(S, deps)
    BY <2>2, <2>3 DEF Recurrent
  <2>5. DOMAIN deps = Node
    BY <1>0
  <2>6. Cyclic(deps)
    BY <2>2, <2>4, <2>5 DEF Cyclic
  <2>7. VerdictExact'
    BY <2>6, <2>0 DEF VerdictExact
  <2> QED BY <2>0, <2>7, <1>0 DEF IInv, TypeOK, PathInv, RangedInv, VisitedInv,
             FinishedIsAcyclic, Finished
<1>3. ASSUME NEW m \in Node, SkipVisited(m) PROVE IInv'
  <2>0. /\ m \in Top.todo /\ m \in Finished /\ stack # <<>> /\ L \in 1 .. L
        /\ stack' = Ranged(m)
        /\ UNCHANGED <<deps, root, visited, path, verdict, reported>>
    BY <1>3, <1>0 DEF SkipVisited, Finished
  <2>1. /\ stack' \in Seq(Frame) /\ Len(stack') = L
        /\ \A i \in 1 .. L : stack'[i].node = stack[i].node
        /\ \A i \in 1 .. L : i # L => stack'[i] = stack[i]
        /\ stack'[L].todo = stack[L].todo \ {m}
    BY <2>0, <1>0 DEF Ranged, Frame
  <2>2. TypeOK'
    BY <2>0, <2>1 DEF IInv, TypeOK
  <2>3. PathInv'
    <3>1. path' = {stack'[i].node : i \in 1 .. Len(stack')}
      BY <2>0, <2>1 DEF IInv, PathInv
    <3> QED BY <3>1, <2>0, <2>1, <1>0 DEF IInv, PathInv
  <2>4. Finished' = Finished
    BY <2>0 DEF Finished
  <2>5. RangedInv'
    <3>1. ASSUME NEW i \in 1 .. L
          PROVE  /\ stack'[i].todo \subseteq deps[stack'[i].node]
                 /\ \A d \in deps[stack'[i].node] \ stack'[i].todo :
                      d \in Finished \/ (i < L /\ d = stack'[i + 1].node)
      <4>1. CASE i = L
        BY <4>1, <2>0, <2>1 DEF IInv, RangedInv
      <4>2. CASE i < L
        BY <4>2, <2>1, <1>0 DEF IInv, RangedInv
      <4> QED BY <4>1, <4>2, <1>0
    <3> QED BY <3>1, <2>0, <2>1, <2>4 DEF RangedInv
  <2> QED BY <2>0, <2>2, <2>3, <2>4, <2>5
      DEF IInv, VisitedInv, FinishedIsAcyclic, VerdictExact
<1>4. ASSUME NEW m \in Node, VisitDep(m) PROVE IInv'
  <2>0. /\ m \in Top.todo /\ m \notin visited /\ stack # <<>> /\ L \in 1 .. L
        /\ Enter(m, Ranged(m)) /\ UNCHANGED <<deps, root, verdict, reported>>
    BY <1>4, <1>0 DEF VisitDep
  <2>1. /\ Ranged(m) \in Seq(Frame) /\ Len(Ranged(m)) = L
        /\ \A i \in 1 .. L : Ranged(m)[i].node = stack[i].node
        /\ \A i \in 1 .. L : i < L => Ranged(m)[i] = stack[i]
        /\ Ranged(m)[L].todo = stack[L].todo \ {m}
    BY <2>0, <1>0 DEF Ranged, Frame
  <2>2. m \in deps[stack[L].node]
    BY <2>0 DEF Top, IInv, RangedInv
  <2>3. root' \in 0 .. N /\ 1 .. root' \subseteq visited'
    BY <2>0, <1>0 DEF Enter
  <2> QED BY <2>0, <2>1, <2>2, <2>3, EnterInv
<1>5. CASE Return
  <2>0. /\ stack # <<>> /\ L \in 1 .. L /\ Top = stack[L] /\ Top.todo = {} /\ Top \in Frame
        /\ path' = path \ {Top.node} /\ stack' = SubSeq(stack, 1, L - 1)
        /\ UNCHANGED <<deps, root, visited, verdict, reported>>
    BY <1>5, <1>0 DEF Return, Top
  <2>1. /\ stack' \in Seq(Frame) /\ Len(stack') = L - 1
        /\ \A i \in 1 .. L - 1 : stack'[i] = stack[i]
    <3>1. ASSUME NEW k \in Nat, k < L
          PROVE  /\ SubSeq(stack, 1, k) \in Seq(Frame) /\ Len(SubSeq(stack, 1, k)) = k
                 /\ \A i \in 1 .. k : SubSeq(stack, 1, k)[i] = stack[i]
      <4>1. \A i \in 1 .. k : stack[i] \in Frame
        BY <3>1, <1>0
      <4> QED BY <3>1, <4>1, <1>0
    <3>2. L - 1 \in Nat /\ L - 1 < L
      BY <2>0, <1>0
    <3> QED BY <3>1, <3>2, <2>0
  <2>2. Top.node \in path /\ Top.node \in Node
    BY <2>0 DEF IInv, PathInv, Frame
  <2>3. Finished' = Finished \cup {Top.node} /\ Top.node \notin Finished
    BY <2>0, <2>2, <1>0 DEF Finished
  <2>4. deps[Top.node] \subseteq Finished
    BY <2>0, <1>0 DEF IInv, RangedInv
  <2>5. FinishedIsAcyclic'
    <3>1. Finished \in SUBSET Node
      BY DEF Finished, IInv, TypeOK
    <3>2. Closed(Finished, deps) /\ \A S \in SUBSET Finished : ~Recurrent(S, deps)
      BY DEF IInv, FinishedIsAcyclic
    <3>3. /\ Closed(Finished \cup {Top.node}, deps)
          /\ \A S \in SUBSET (Finished \cup {Top.node}) : ~Recurrent(S, deps)
      BY <3>1, <3>2, <2>2, <2>3, <2>4, <1>0, FinishOne
    <3> QED BY <3>3, <2>3, <2>0 DEF FinishedIsAcyclic
  <2>6. PathInv'
    <3>1. path' = {stack'[i].node : i \in 1 .. Len(stack')}
      BY <2>0, <2>1, <1>0 DEF IInv, PathInv
    <3> QED BY <3>1, <2>0, <2>1, <1>0 DEF IInv, PathInv
  <2>7. RangedInv'
    <3>1. ASSUME NEW i \in 1 .. L - 1
          PROVE  /\ stack'[i].todo \subseteq deps[stack'[i].node]
                 /\ \A m \in deps[stack'[i].node] \ stack'[i].todo :
                      m \in Finished' \/ (i < L - 1 /\ m = stack'[i + 1].node)
      <4>1. stack'[i] = stack[i] /\ i \in 1 .. L /\ i < L
        BY <2>1, <1>0
      <4>2. CASE i = L - 1
        BY <4>1, <4>2, <2>0, <2>3, <1>0 DEF IInv, RangedInv
      <4>3. CASE i < L - 1
        <5>1. stack'[i + 1] = stack[i + 1]
          BY <4>3, <2>1, <1>0
        <5> QED BY <5>1, <4>1, <4>3, <2>3, <1>0 DEF IInv, RangedInv
      <4> QED BY <4>2, <4>3, <1>0
    <3> QED BY <3>1, <2>0, <2>1 DEF RangedInv
  <2>8. TypeOK'
    BY <2>0, <2>1 DEF IInv, TypeOK
  <2> QED BY <2>0, <2>5, <2>6, <2>7, <2>8 DEF IInv, VisitedInv, VerdictExact
<1>6. CASE NoCycle
  <2>0. /\ stack = <<>> /\ root = N /\ verdict' = "acyclic"
        /\ UNCHANGED <<deps, root, stack, visited, path, reported>>
    BY <1>6 DEF NoCycle
  <2>1. path = {}
    BY <2>0 DEF IInv, PathInv
  <2>2. Finished = Node
    BY <2>0, <2>1, <1>0 DEF Finished, Node, IInv, TypeOK
  <2>3. ~Cyclic(deps)
    BY <2>2, <1>0 DEF Cyclic, IInv, FinishedIsAcyclic
  <2>4. VerdictExact'
    BY <2>0, <2>3 DEF VerdictExact
  <2> QED BY <2>0, <2>4 DEF IInv, TypeOK, PathInv, RangedInv, VisitedInv,
             FinishedIsAcyclic, Finished
<1>7. CASE UNCHANGED vars
  BY <1>7 DEF vars, IInv, TypeOK, PathInv, RangedInv, VisitedInv, FinishedIsAcyclic,
     Finished, VerdictExact
<1> QED BY <1>1, <1>2, <1>3, <1>4, <1>5, <1>6, <1>7 DEF Next

\* The inductive invariant: the stack is a path of the graph, every dependency ranged
\* over is finished or being visited, what is finished is closed and acyclic.
THEOREM Invariance == Spec => []IInv
<1> QED BY InitIInv, NextIInv, PTL DEF Spec

\* The variables of the search keep their types (hasCircularDependency's maps hold only
\* dispatch states of the list).
THEOREM TypeCorrect == Spec => []TypeOK
<1>1. IInv => TypeOK
  BY DEF IInv
<1> QED BY <1>1, Invariance, PTL

\* hasCircularDependency is exact for every number of stages and every graph: it reports
\* a cycle only if the deps form one, and accepts only if they do not.
THEOREM Exact == Spec => []VerdictExact
<1>1. IInv => VerdictExact
  BY DEF IInv
<1> QED BY <1>1, Invariance, PTL

\* The `path' map is always the set of states on the call stack, which is a simple path
\* of the graph: no stale entry can turn a diamond into a reported cycle.
THEOREM PathCorrect == Spec => []PathIsStack
<1>1. IInv => PathIsStack
  BY DEF IInv, PathInv, PathIsStack, TypeOK
<1> QED BY <1>1, Invariance, PTL

\* The depth-first search implements the one-step answer its caller relies on.
THEOREM Refinement == Spec => ImplementsVerdict
<1>1. Init => Abstract!Init
  BY DEF Init, Abstract!Init
<1>2. IInv /\ IInv' /\ [Next]_vars => [Abstract!Answer]_<<deps, verdict>>
  <2> SUFFICES ASSUME IInv, IInv', [Next]_vars
               PROVE  [Abstract!Answer]_<<deps, verdict>>
    OBVIOUS
  <2>0. /\ Cyclic(deps) <=> Abstract!Cyclic(deps)
        /\ verdict' = "cyclic" => Cyclic(deps')
        /\ verdict' = "acyclic" => ~Cyclic(deps')
    BY DEF IInv, VerdictExact, Cyclic, Recurrent, Abstract!Cyclic, Abstract!Recurrent
  <2>1. ASSUME NEW m \in Node, CloseCycle(m) PROVE Abstract!Answer
    BY <2>0, <2>1 DEF CloseCycle, Abstract!Answer
  <2>2. CASE NoCycle
    BY <2>0, <2>2 DEF NoCycle, Abstract!Answer
  <2>3. CASE NextRoot \/ Return \/ UNCHANGED vars
    BY <2>3 DEF NextRoot, Return, vars
  <2>4. ASSUME NEW m \in Node, SkipVisited(m) \/ VisitDep(m) PROVE UNCHANGED <<deps, verdict>>
    BY <2>4 DEF SkipVisited, VisitDep
  <2> QED BY <2>1, <2>2, <2>3, <2>4 DEF Next
<1> QED BY <1>1, <1>2, Invariance, PTL DEF Spec, ImplementsVerdict, Abstract!Spec

-----------------------------------------------------------------------------
\* the search in progress began at the state of the loop; all before it are finished
RootInv ==
    /\ stack # <<>> => stack[1].node = root
    /\ \A i \in 1 .. Len(stack) : Reaches(deps, root, stack[i].node)
    /\ 1 .. root - 1 \subseteq Finished

\* Whatever reaches a state reaches its dependencies.
LEMMA ReachesNext ==
    ASSUME NEW succ \in [Node -> SUBSET Node], NEW a \in Node, NEW n \in Node, NEW m \in succ[n],
           Reaches(succ, a, n)
    PROVE  Reaches(succ, a, m)
  BY DEF Reaches, Closed

\* Nothing the search has left leads to a cycle.
LEMMA FinishedReachesNone ==
    ASSUME IInv, NEW n \in Finished
    PROVE  ~ReachesCycle(deps, n)
<1>1. /\ Finished \in SUBSET Node /\ DOMAIN deps = Node /\ Closed(Finished, deps)
      /\ \A S \in SUBSET Finished : ~Recurrent(S, deps)
  BY DEF IInv, TypeOK, Finished, FinishedIsAcyclic
<1>2. ASSUME NEW S \in SUBSET DOMAIN deps, Recurrent(S, deps), \A m \in S : Reaches(deps, n, m)
      PROVE  FALSE
  <2>1. S \subseteq Finished
    BY ONLY <1>1, <1>2 DEF Reaches
  <2> QED BY ONLY <1>1, <1>2, <2>1
<1> QED BY ONLY <1>2 DEF ReachesCycle

\* A call for a state the search has not visited keeps RootInv, in a search from root'.
LEMMA EnterRoot ==
    ASSUME IInv, NEW frames \in Seq(Frame), NEW n \in Node, n \notin visited, root' \in Node,
           Len(frames) = Len(stack),
           \A i \in 1 .. Len(frames) : frames[i].node = stack[i].node,
           Enter(n, frames), UNCHANGED deps, 1 .. root' - 1 \subseteq Finished,
           IF stack = <<>> THEN n = root'
           ELSE /\ stack[1].node = root' /\ n \in deps[stack[Len(stack)].node]
                /\ \A i \in 1 .. Len(stack) : Reaches(deps, root', stack[i].node)
    PROVE  RootInv'
<1> DEFINE L == Len(stack)
<1>1. L \in Nat /\ stack \in Seq(Frame) /\ deps \in [Node -> SUBSET Node] /\ path \subseteq visited
  BY DEF IInv, TypeOK, VisitedInv
<1>2. /\ Len(stack') = L + 1 /\ stack'[L + 1].node = n
      /\ \A i \in 1 .. L : stack'[i].node = stack[i].node
  BY <1>1 DEF Enter
<1>3. \A i \in 1 .. L : stack[i].node \in Node
  <2>1. \A i \in 1 .. L : stack[i] \in Frame
    BY <1>1
  <2> QED BY ONLY <2>1 DEF Frame
<1>4. Finished' = Finished
  BY <1>1 DEF Enter, Finished
<1>5. CASE stack = <<>>
  <2>1. L = 0 /\ n = root'
    BY <1>5
  <2>2. Reaches(deps, n, n)
    BY DEF Reaches
  <2>3. stack'[1].node = root' /\ \A i \in 1 .. Len(stack') : Reaches(deps, root', stack'[i].node)
    BY ONLY <1>2, <2>1, <2>2
  <2> QED BY <1>4, <2>3 DEF RootInv
<1>6. CASE stack # <<>>
  <2>1. L \in 1 .. L /\ 1 \in 1 .. L
    BY <1>1, <1>6
  <2>2. Reaches(deps, root', stack[L].node)
    BY <1>6, <2>1
  <2>3. Reaches(deps, root', n)
    BY <1>1, <1>3, <1>6, <2>1, <2>2, ReachesNext
  <2>4. ASSUME NEW i \in 1 .. L + 1 PROVE Reaches(deps, root', stack'[i].node)
    <3>1. i \in 1 .. L \/ i = L + 1
      BY <1>1
    <3> QED BY <1>2, <1>6, <2>3, <3>1
  <2>5. stack'[1].node = root'
    BY <1>2, <1>6, <2>1
  <2> QED BY ONLY <1>2, <1>4, <2>4, <2>5, UNCHANGED deps, 1 .. root' - 1 \subseteq Finished DEF RootInv
<1> QED BY <1>5, <1>6

\* Every step keeps RootInv, and names the right state if it reports a cycle.
LEMMA NextRootInv == IInv /\ RootInv /\ ReportedIsFirst /\ [Next]_vars => RootInv' /\ ReportedIsFirst'
<1> SUFFICES ASSUME IInv, RootInv, ReportedIsFirst, [Next]_vars PROVE RootInv' /\ ReportedIsFirst'
  OBVIOUS
<1> DEFINE L == Len(stack)
<1>0. /\ stack \in Seq(Frame) /\ L \in Nat /\ root \in 0 .. N /\ N \in Nat
      /\ deps \in [Node -> SUBSET Node] /\ path \subseteq visited
  BY NAssumption DEF IInv, TypeOK, VisitedInv
<1>1. ASSUME UNCHANGED <<deps, verdict, reported>> PROVE ReportedIsFirst'
  BY ONLY <1>1, ReportedIsFirst DEF ReportedIsFirst
<1>2. CASE NextRoot
  <2>1. /\ stack = <<>> /\ root' = root + 1 /\ root' \in Node /\ UNCHANGED <<deps, verdict, reported>>
    BY <1>0, <1>2 DEF NextRoot, Node
  <2>2. 1 .. root' - 1 \subseteq Finished
    <3>1. path = {}
      BY <2>1 DEF IInv, PathInv
    <3>2. 1 .. root \subseteq visited
      BY DEF IInv, VisitedInv
    <3> QED BY <1>0, <2>1, <3>1, <3>2 DEF Finished
  <2>3. CASE root + 1 \in visited
    <3>1. UNCHANGED <<stack, visited, path>>
      BY <1>2, <2>3 DEF NextRoot
    <3> QED BY <1>1, <2>1, <2>2, <3>1 DEF RootInv, Finished
  <2>4. CASE root + 1 \notin visited
    <3>1. Enter(root', stack)
      BY <1>2, <2>1, <2>4 DEF NextRoot
    <3>2. PICK n \in Node : n = root'
      BY <2>1
    <3>3. RootInv'
      BY ONLY IInv, <1>0, <2>1, <2>2, <2>4, <3>1, <3>2, EnterRoot
    <3> QED BY <1>1, <2>1, <3>3
  <2> QED BY <2>3, <2>4
<1>3. ASSUME NEW m \in Node, CloseCycle(m) PROVE RootInv' /\ ReportedIsFirst'
  <2>0. /\ m \in Top.todo /\ m \in path /\ stack # <<>> /\ L \in 1 .. L
        /\ UNCHANGED <<deps, root, stack, visited, path>>
        /\ verdict' = "cyclic" /\ reported' = root
    BY <1>3, <1>0 DEF CloseCycle
  <2>1. PICK k \in 1 .. L : stack[k].node = m
    BY <2>0 DEF IInv, PathInv
  <2> DEFINE S == {stack[i].node : i \in k .. L}
  <2>2. \A i \in 1 .. L : stack[i].node \in Node
    <3>1. \A i \in 1 .. L : stack[i] \in Frame
      BY <1>0
    <3> QED BY ONLY <3>1 DEF Frame
  <2>3. S \in SUBSET Node /\ m \in S /\ DOMAIN deps = Node
    BY <1>0, <2>1, <2>2
  <2>4. ASSUME NEW i \in k .. L PROVE deps[stack[i].node] \cap S # {}
    <3>1. CASE i = L
      BY <3>1, <2>0, <2>3 DEF Top, IInv, RangedInv
    <3>2. CASE i < L
      <4>1. i \in 1 .. L - 1 /\ i + 1 \in k .. L
        BY <3>2, <1>0, <2>1
      <4>2. stack[i + 1].node \in deps[stack[i].node]
        BY <4>1 DEF IInv, PathInv
      <4> QED BY <4>1, <4>2
    <3> QED BY <3>1, <3>2, <1>0
  <2>5. Recurrent(S, deps)
    BY <2>3, <2>4 DEF Recurrent
  <2>6. \A i \in k .. L : Reaches(deps, root, stack[i].node)
    BY <1>0, <2>1 DEF RootInv
  <2>7. ReachesCycle(deps, root)
    BY ONLY <2>3, <2>5, <2>6 DEF ReachesCycle
  <2>8. \A n \in 1 .. root - 1 : ~ReachesCycle(deps, n)
    BY FinishedReachesNone DEF RootInv
  <2>9. root \in Node
    <3>1. 1 \in 1 .. L /\ stack[1].node = root
      BY <1>0, <2>0 DEF RootInv
    <3> QED BY ONLY <2>2, <3>1
  <2>10. ReportedIsFirst'
    BY ONLY <2>0, <2>7, <2>8, <2>9 DEF ReportedIsFirst
  <2> QED BY <2>0, <2>10 DEF RootInv, Finished
<1>4. ASSUME NEW m \in Node, SkipVisited(m) PROVE RootInv' /\ ReportedIsFirst'
  <2>1. /\ stack # <<>> /\ L \in 1 .. L /\ stack' = Ranged(m)
        /\ UNCHANGED <<deps, root, visited, path, verdict, reported>>
    BY <1>4, <1>0 DEF SkipVisited
  <2>2. Len(stack') = L /\ stack' # <<>> /\ \A i \in 1 .. L : stack'[i].node = stack[i].node
    BY <2>1, <1>0 DEF Ranged, Frame
  <2>3. RootInv'
    BY <2>1, <2>2, <1>0 DEF RootInv, Finished
  <2> QED BY <1>1, <2>1, <2>3
<1>5. ASSUME NEW m \in Node, VisitDep(m) PROVE RootInv' /\ ReportedIsFirst'
  <2>0. /\ m \in Top.todo /\ m \notin visited /\ stack # <<>> /\ L \in 1 .. L /\ 1 \in 1 .. L
        /\ Enter(m, Ranged(m)) /\ UNCHANGED <<deps, root, verdict, reported>>
    BY <1>5, <1>0 DEF VisitDep
  <2>1. /\ Ranged(m) \in Seq(Frame) /\ Len(Ranged(m)) = L
        /\ \A i \in 1 .. L : Ranged(m)[i].node = stack[i].node
    <3>1. stack[L] \in Frame
      BY <1>0, <2>0
    <3>2. [stack[L] EXCEPT !.todo = @ \ {m}] \in Frame /\ [stack[L] EXCEPT !.todo = @ \ {m}].node = stack[L].node
      BY ONLY <3>1 DEF Frame
    <3>3. Ranged(m) = [stack EXCEPT ![L] = [stack[L] EXCEPT !.todo = @ \ {m}]]
      BY DEF Ranged
    <3> HIDE DEF Frame
    <3> QED BY ONLY <1>0, <2>0, <3>2, <3>3
  <2>2. m \in deps[stack[L].node]
    BY <2>0 DEF Top, IInv, RangedInv
  <2>3. root \in Node /\ stack[1].node = root
    <3>1. stack[1] \in Frame /\ stack[1].node = root
      BY <1>0, <2>0 DEF RootInv
    <3> QED BY ONLY <3>1 DEF Frame
  <2>4. /\ 1 .. root - 1 \subseteq Finished
        /\ \A i \in 1 .. L : Reaches(deps, root, stack[i].node)
    BY DEF RootInv
  <2>5. RootInv'
    BY ONLY IInv, <2>0, <2>1, <2>2, <2>3, <2>4, EnterRoot
  <2> QED BY <1>1, <2>0, <2>5
<1>6. CASE Return
  <2>0. /\ stack # <<>> /\ L \in 1 .. L /\ stack' = SubSeq(stack, 1, L - 1)
        /\ path' \subseteq path /\ UNCHANGED <<deps, root, visited, verdict, reported>>
    BY <1>6, <1>0 DEF Return
  <2>1. Len(stack') = L - 1 /\ \A i \in 1 .. L - 1 : stack'[i] = stack[i]
    <3>1. ASSUME NEW k \in Nat, k < L
          PROVE  /\ Len(SubSeq(stack, 1, k)) = k
                 /\ \A i \in 1 .. k : SubSeq(stack, 1, k)[i] = stack[i]
      BY <3>1, <1>0
    <3>2. L - 1 \in Nat /\ L - 1 < L
      BY <2>0, <1>0
    <3> QED BY <3>1, <3>2, <2>0
  <2>2. Finished \subseteq Finished'
    BY <2>0 DEF Finished
  <2>3. stack' # <<>> => stack'[1].node = root
    <3>1. stack' # <<>> => 1 \in 1 .. L - 1
      BY <1>0, <2>0, <2>1
    <3> QED BY <2>0, <2>1, <3>1 DEF RootInv
  <2>4. \A i \in 1 .. L - 1 : Reaches(deps, root, stack[i].node)
    BY <1>0 DEF RootInv
  <2>5. RootInv'
    <3>1. 1 .. root - 1 \subseteq Finished
      BY DEF RootInv
    <3>2. \A i \in 1 .. Len(stack') : Reaches(deps, root, stack'[i].node)
      BY ONLY <2>1, <2>4
    <3> QED BY ONLY <2>0, <2>2, <2>3, <3>1, <3>2 DEF RootInv
  <2> QED BY <1>1, <2>0, <2>5
<1>7. CASE NoCycle
  <2>1. verdict' = "acyclic" /\ UNCHANGED <<deps, root, stack, visited, path, reported>>
    BY <1>7 DEF NoCycle
  <2> QED BY <2>1 DEF RootInv, Finished, ReportedIsFirst
<1>8. CASE UNCHANGED vars
  <2>1. UNCHANGED <<deps, root, stack, visited, path, verdict, reported>>
    BY <1>8 DEF vars
  <2> QED BY <1>1, <2>1 DEF RootInv, Finished
<1> QED BY <1>2, <1>3, <1>4, <1>5, <1>6, <1>7, <1>8 DEF Next

\* The stage the error message names leads to the cycle and is the first of the Dockerfile
\* that does, for every graph and every order of its maps.
THEOREM Reported == Spec => []ReportedIsFirst
<1>1. Init => RootInv /\ ReportedIsFirst
  BY NAssumption DEF Init, RootInv, ReportedIsFirst
<1> QED BY <1>1, Invariance, NextRootInv, PTL DEF Spec
=============================================================================
