------------------------ MODULE Reachability_proofs -------------------------
(***************************************************************************)
(* The walk of isReachable, over every graph the converter hands to it and *)
(* in every order of the deps: its answers are exact, it overflows the     *)
(* stack only when there is a cycle below it, and with one it never        *)
(* answers no.                                                             *)
(***************************************************************************)
EXTENDS Reachability, FiniteSetTheorems, TLAPS

\* the calls in progress are a path from the state the walk began at
PathInv ==
    /\ stack # <<>> => stack[1].node = from
    /\ \A i \in 1 .. Len(stack) : Reaches(Edges, from, stack[i].node)
    /\ \A i \in 1 .. Len(stack) - 1 : stack[i + 1].node \in Edges[stack[i].node]

\* what a call has left to follow are edges of its state
FrameInv ==
    \A i \in 1 .. Len(stack) :
        /\ stack[i].base # 0 => stack[i].base \in Edges[stack[i].node]
        /\ stack[i].todo \subseteq Edges[stack[i].node]

\* nothing is to be found from m: neither the state looked for nor a cycle
Fruitless(m) == ~Reaches(Edges, m, to) /\ ~ReachesCycle(Edges, m)

\* an edge is left to follow, or being followed, or leads nowhere
LeftInv ==
    \A i \in 1 .. Len(stack) :
        /\ i < Len(stack) => stack[i].node # to
        /\ \A m \in Edges[stack[i].node] :
             \/ m \in stack[i].todo
             \/ m = stack[i].base
             \/ i < Len(stack) /\ m = stack[i + 1].node
             \/ Fruitless(m)

EmptyInv == stack = <<>> => Fruitless(from)

IInv == TypeOK /\ PathInv /\ FrameInv /\ LeftInv /\ EmptyInv /\ AnswerExact /\ CycleOverflows

-----------------------------------------------------------------------------
\* Whatever reaches a state reaches its successors.
LEMMA ReachesNext ==
    ASSUME NEW succ \in [Node -> SUBSET Node], NEW a \in Node, NEW n \in Node, NEW m \in succ[n],
           Reaches(succ, a, n)
    PROVE  Reaches(succ, a, m)
  BY DEF Reaches, Closed

\* A state none of whose successors reaches t, and which is not t, does not reach it.
LEMMA DeadEnd ==
    ASSUME NEW succ \in [Node -> SUBSET Node], NEW n \in Node, NEW t \in Node, n # t,
           \A m \in succ[n] : ~Reaches(succ, m, t)
    PROVE  ~Reaches(succ, n, t)
<1> DEFINE U == {x \in Node : ~Reaches(succ, x, t)} \cup {n}
<1>1. U \in SUBSET DOMAIN succ /\ n \in U
  OBVIOUS
<1>2. t \notin U
  BY DEF Reaches
<1>3. ASSUME NEW x \in U, NEW y \in succ[x] PROVE y \in U
  <2>0. x \in Node /\ y \in Node
    BY <1>1
  <2>1. CASE x = n
    BY <2>0, <2>1
  <2>2. CASE ~Reaches(succ, x, t)
    <3>1. PICK S \in SUBSET DOMAIN succ : x \in S /\ Closed(S, succ) /\ t \notin S
      BY <2>2 DEF Reaches
    <3>2. y \in S
      BY <3>1 DEF Closed
    <3>3. ~Reaches(succ, y, t)
      BY <3>1, <3>2 DEF Reaches
    <3> QED BY <2>0, <3>3
  <2> QED BY <2>1, <2>2
<1>4. Closed(U, succ)
  BY <1>3 DEF Closed
<1> QED BY ONLY <1>1, <1>2, <1>4 DEF Reaches

\* The members of a recurrent set that one of them leads to lie on a cycle below that one.
LEMMA CycleFrom ==
    ASSUME NEW succ \in [Node -> SUBSET Node], NEW S \in SUBSET Node, Recurrent(S, succ),
           NEW m \in Node, NEW s \in S, Reaches(succ, m, s)
    PROVE  ReachesCycle(succ, m)
<1> DEFINE T == {x \in S : Reaches(succ, m, x)}
<1>1. T \in SUBSET DOMAIN succ /\ T # {} /\ \A x \in T : Reaches(succ, m, x)
  OBVIOUS
<1>2. ASSUME NEW x \in T PROVE succ[x] \cap T # {}
  <2>1. PICK y \in S : y \in succ[x]
    BY DEF Recurrent
  <2>2. Reaches(succ, m, y)
    BY <2>1, ReachesNext
  <2> QED BY <2>1, <2>2
<1>3. Recurrent(T, succ)
  BY ONLY <1>1, <1>2 DEF Recurrent
<1> QED BY ONLY <1>1, <1>3 DEF ReachesCycle

\* A state none of whose successors leads to a cycle does not lead to one.
LEMMA NoCycleBelow ==
    ASSUME NEW succ \in [Node -> SUBSET Node], NEW n \in Node,
           \A m \in succ[n] : ~ReachesCycle(succ, m)
    PROVE  ~ReachesCycle(succ, n)
<1> SUFFICES ASSUME ReachesCycle(succ, n) PROVE FALSE
  OBVIOUS
<1>1. PICK S \in SUBSET Node : Recurrent(S, succ) /\ \A x \in S : Reaches(succ, n, x)
  BY DEF ReachesCycle
<1>2. PICK s \in S : TRUE
  BY <1>1 DEF Recurrent
<1>3. CASE n \in S
  <2>1. PICK m \in S : m \in succ[n]
    BY <1>1, <1>3 DEF Recurrent
  <2>2. m \in Node /\ Reaches(succ, m, m)
    BY <2>1 DEF Reaches
  <2>3. ReachesCycle(succ, m)
    BY ONLY <1>1, <2>1, <2>2, CycleFrom, succ \in [Node -> SUBSET Node], S \in SUBSET Node
  <2> QED BY <2>1, <2>3
<1>4. CASE n \notin S
  <2>1. s \in Node /\ n # s /\ Reaches(succ, n, s)
    BY <1>1, <1>2, <1>4
  <2>2. PICK m \in succ[n] : Reaches(succ, m, s)
    BY ONLY <2>1, DeadEnd, succ \in [Node -> SUBSET Node], n \in Node
  <2>3. m \in Node
    BY <2>2
  <2>4. ReachesCycle(succ, m)
    BY ONLY <1>1, <1>2, <2>2, <2>3, CycleFrom, succ \in [Node -> SUBSET Node], S \in SUBSET Node
  <2> QED BY <2>2, <2>4
<1> QED BY <1>3, <1>4

\* The graph is one of sets of states.
LEMMA EdgesType ==
    ASSUME TypeOK
    PROVE  Edges \in [Node -> SUBSET Node]
<1>1. ASSUME NEW n \in Node PROVE deps[n] \cup ({base[n]} \ {0}) \in SUBSET Node
  <2>1. base[n] \in 0 .. N /\ deps[n] \in SUBSET Node
    BY DEF TypeOK
  <2>2. base[n] # 0 => base[n] \in Node
    BY <2>1, NAssumption DEF Node
  <2> QED BY <2>1, <2>2
<1> QED BY <1>1 DEF Edges

\* A call for the other end of an edge keeps the invariant: the state is new to the path.
LEMMA EnterInv ==
    ASSUME IInv, stack # <<>>, NEW f \in Frame, NEW m \in Node,
           Top.node # to, m \in Edges[Top.node],
           f.node = Top.node, f.base \in {0, Top.base}, f.todo \subseteq Top.todo,
           \A k \in Edges[Top.node] : k = Top.base \/ k \in Top.todo =>
               k = f.base \/ k \in f.todo \/ k = m,
           stack' = Append([stack EXCEPT ![Len(stack)] = f], Call(m)),
           UNCHANGED <<base, deps, from, to, answer>>
    PROVE  IInv'
<1> DEFINE L == Len(stack)
<1>0. /\ stack \in Seq(Frame) /\ L \in Nat /\ L > 0 /\ TypeOK /\ from \in Node /\ to \in Node
      /\ Top = stack[L] /\ Edges \in [Node -> SUBSET Node] /\ Edges' = Edges
      /\ from' = from /\ to' = to
      /\ \A i \in 1 .. L : stack[i] \in Frame /\ stack[i].node \in Node
  <2>1. stack \in Seq(Frame) /\ TypeOK /\ from \in Node /\ to \in Node
    BY DEF IInv, TypeOK
  <2>2. \A i \in 1 .. Len(stack) : stack[i] \in Frame /\ stack[i].node \in Node
    <3>1. \A i \in 1 .. Len(stack) : stack[i] \in Frame
      <4> HIDE DEF Frame
      <4> QED BY ONLY <2>1
    <3>2. \A c \in Frame : c.node \in Node
      BY DEF Frame
    <3> QED BY ONLY <3>1, <3>2
  <2>3. Edges' = Edges
    BY DEF Edges
  <2> QED BY <2>1, <2>2, <2>3, EdgesType DEF Top
<1>1. Call(m) \in Frame /\ Call(m).node = m /\ Call(m).base = base[m] /\ Call(m).todo = deps[m]
  BY <1>0 DEF Call, Frame, TypeOK
<1>2. /\ stack' \in Seq(Frame) /\ Len(stack') = L + 1
      /\ stack'[L + 1] = Call(m) /\ stack'[L] = f
      /\ \A i \in 1 .. L - 1 : stack'[i] = stack[i]
  <2> HIDE DEF Frame
  <2> QED BY <1>0, <1>1
<1>3. \A i \in 1 .. L : stack'[i].node = stack[i].node
  BY <1>0, <1>2
<1>4. TypeOK'
  BY <1>0, <1>2 DEF TypeOK
<1>7. PathInv'
  <2>1. stack'[1].node = from
    BY <1>0, <1>3 DEF IInv, PathInv
  <2>2. ASSUME NEW i \in 1 .. L + 1 PROVE Reaches(Edges, from, stack'[i].node)
    <3>1. CASE i \in 1 .. L
      BY <1>3, <3>1 DEF IInv, PathInv
    <3>2. CASE i = L + 1
      <4>1. Reaches(Edges, from, Top.node) /\ Top.node \in Node
        BY <1>0 DEF IInv, PathInv
      <4>2. Reaches(Edges, from, m)
        BY ONLY <1>0, <4>1, m \in Edges[Top.node], ReachesNext
      <4> QED BY <1>1, <1>2, <3>2, <4>2
    <3> QED BY <1>0, <3>1, <3>2
  <2>3. ASSUME NEW i \in 1 .. L PROVE stack'[i + 1].node \in Edges[stack'[i].node]
    <3>1. CASE i = L
      BY <1>0, <1>1, <1>2, <1>3, <3>1
    <3>2. CASE i \in 1 .. L - 1
      <4>1. i + 1 \in 1 .. L
        BY <1>0, <3>2
      <4> QED BY <1>3, <3>2, <4>1 DEF IInv, PathInv
    <3> QED BY <1>0, <3>1, <3>2
  <2>4. Len(stack') - 1 = L /\ stack' # <<>>
    BY <1>0, <1>2
  <2> QED BY ONLY <1>0, <1>2, <2>1, <2>2, <2>3, <2>4 DEF PathInv
<1>8. FrameInv'
  <2>1. ASSUME NEW i \in 1 .. L + 1
        PROVE  /\ stack'[i].base # 0 => stack'[i].base \in Edges[stack'[i].node]
               /\ stack'[i].todo \subseteq Edges[stack'[i].node]
    <3>1. CASE i = L + 1
      BY <1>1, <1>2, <3>1 DEF Edges
    <3>2. CASE i = L
      BY <1>0, <1>2, <3>2 DEF IInv, FrameInv
    <3>3. CASE i \in 1 .. L - 1
      BY <1>0, <1>2, <3>3 DEF IInv, FrameInv
    <3> QED BY <1>0, <3>1, <3>2, <3>3
  <2> QED BY ONLY <1>0, <1>2, <2>1 DEF FrameInv
<1>9. LeftInv'
  <2>1. ASSUME NEW i \in 1 .. L + 1
        PROVE  /\ i < L + 1 => stack'[i].node # to
               /\ \A k \in Edges[stack'[i].node] :
                    \/ k \in stack'[i].todo
                    \/ k = stack'[i].base
                    \/ i < L + 1 /\ k = stack'[i + 1].node
                    \/ Fruitless(k)
    <3>1. CASE i = L + 1
      BY <1>0, <1>1, <1>2, <3>1 DEF Edges
    <3>2. CASE i = L
      <4>1. stack'[i] = f /\ stack'[i].node = Top.node /\ stack'[i + 1].node = m /\ i < L + 1
        BY <1>0, <1>1, <1>2, <3>2
      <4>2. \A k \in Edges[Top.node] : k \in Top.todo \/ k = Top.base \/ Fruitless(k)
        BY <1>0 DEF IInv, LeftInv
      <4> QED BY <4>1, <4>2
    <3>3. CASE i \in 1 .. L - 1
      <4>1. stack'[i] = stack[i] /\ stack'[i + 1].node = stack[i + 1].node /\ i < L /\ i < L + 1 /\ i \in 1 .. L
        BY <1>0, <1>2, <1>3, <3>3
      <4>2. /\ stack[i].node # to
            /\ \A k \in Edges[stack[i].node] :
                 k \in stack[i].todo \/ k = stack[i].base \/ k = stack[i + 1].node \/ Fruitless(k)
        BY <4>1 DEF IInv, LeftInv
      <4> QED BY ONLY <4>1, <4>2
    <3> QED BY <1>0, <3>1, <3>2, <3>3
  <2> QED BY ONLY <1>0, <1>2, <2>1 DEF LeftInv, Fruitless
<1>10. EmptyInv' /\ AnswerExact' /\ CycleOverflows'
  <2>1. stack' # <<>>
    BY <1>0, <1>2
  <2>2. AnswerExact /\ CycleOverflows
    BY DEF IInv
  <2> QED BY <1>0, <2>1, <2>2 DEF EmptyInv, AnswerExact, CycleOverflows
<1> QED BY ONLY <1>0, <1>4, <1>7, <1>8, <1>9, <1>10 DEF IInv

-----------------------------------------------------------------------------
\* The walk begins with one call, which has all its edges to follow.
LEMMA InitInv == Init => IInv
<1> SUFFICES ASSUME Init PROVE IInv
  OBVIOUS
<1>1. Call(from) \in Frame
  BY DEF Init, Call, Frame
<1>2. stack = <<Call(from)>> /\ Len(stack) = 1 /\ stack[1] = Call(from) /\ stack # <<>>
  BY DEF Init
<1>3. TypeOK
  <2> HIDE DEF Frame
  <2>1. stack \in Seq(Frame)
    BY <1>1, <1>2
  <2> QED BY <2>1 DEF Init, TypeOK
<1>4. stack[1].node = from /\ stack[1].base = base[from] /\ stack[1].todo = deps[from]
  BY <1>2 DEF Call
<1>5. \A i \in 1 .. Len(stack) : i = 1
  BY <1>2
<1>6. Reaches(Edges, from, from)
  BY DEF Reaches
<1>7. PathInv /\ FrameInv /\ LeftInv
  <2>1. Edges[from] = deps[from] \cup ({base[from]} \ {0})
    BY <1>3 DEF Edges, TypeOK
  <2>2. PathInv
    BY <1>2, <1>4, <1>5, <1>6 DEF PathInv
  <2>3. FrameInv
    BY <1>4, <1>5, <2>1 DEF FrameInv
  <2>4. LeftInv
    BY <1>2, <1>4, <1>5, <2>1 DEF LeftInv
  <2> QED BY <2>2, <2>3, <2>4
<1>8. EmptyInv /\ AnswerExact /\ CycleOverflows
  BY <1>2 DEF Init, EmptyInv, AnswerExact, CycleOverflows
<1> QED BY <1>3, <1>7, <1>8 DEF IInv

\* A call that returns false did not reach the state looked for.
LEMMA ReturnInv ==
    ASSUME IInv, Return
    PROVE  IInv'
<1> DEFINE L == Len(stack)
<1>0. /\ stack \in Seq(Frame) /\ L \in Nat /\ L > 0 /\ TypeOK /\ from \in Node /\ to \in Node
      /\ Top = stack[L] /\ Top.node \in Node /\ Top.node # to /\ Top.base = 0 /\ Top.todo = {}
      /\ stack' = SubSeq(stack, 1, L - 1)
      /\ UNCHANGED <<base, deps, from, to, answer>>
      /\ Edges \in [Node -> SUBSET Node] /\ Edges' = Edges
  <2>1. stack \in Seq(Frame) /\ stack # <<>> /\ TypeOK /\ from \in Node /\ to \in Node
    BY DEF IInv, TypeOK, Return, Running
  <2>2. Top.node \in Node
    <3>1. Top \in Frame
      <4> HIDE DEF Frame
      <4> QED BY ONLY <2>1 DEF Top
    <3> QED BY ONLY <3>1 DEF Frame
  <2>3. Edges' = Edges
    BY DEF Edges, Return
  <2> QED BY <2>1, <2>2, <2>3, EdgesType DEF Top, Return
<1>1. /\ stack' \in Seq(Frame) /\ Len(stack') = L - 1
      /\ \A i \in 1 .. L - 1 : stack'[i] = stack[i]
  <2>1. ASSUME NEW k \in Nat, k <= L
        PROVE  /\ SubSeq(stack, 1, k) \in Seq(Frame) /\ Len(SubSeq(stack, 1, k)) = k
               /\ \A i \in 1 .. k : SubSeq(stack, 1, k)[i] = stack[i]
    <3>1. \A i \in 1 .. k : stack[i] \in Frame
      BY <2>1, <1>0
    <3> QED BY <2>1, <3>1, <1>0
  <2>2. L - 1 \in Nat /\ L - 1 <= L
    BY <1>0
  <2> QED BY <2>1, <2>2, <1>0
<1>2. Fruitless(Top.node)
  <2>1. \A m \in Edges[Top.node] : Fruitless(m)
    <3>1. \A m \in Edges[Top.node] : m \in Top.todo \/ m = Top.base \/ Fruitless(m)
      BY <1>0 DEF IInv, LeftInv
    <3>2. 0 \notin Edges[Top.node]
      BY <1>0 DEF Node
    <3> QED BY <1>0, <3>1, <3>2
  <2>2. ~Reaches(Edges, Top.node, to)
    BY ONLY <1>0, <2>1, DeadEnd DEF Fruitless
  <2>3. ~ReachesCycle(Edges, Top.node)
    BY ONLY <1>0, <2>1, NoCycleBelow DEF Fruitless
  <2> QED BY ONLY <2>2, <2>3 DEF Fruitless
<1>3. TypeOK'
  BY <1>0, <1>1 DEF TypeOK
<1>5. PathInv'
  <2>1. \A i \in 1 .. L - 1 : Reaches(Edges, from, stack[i].node)
    BY <1>0 DEF IInv, PathInv
  <2>2. \A i \in 1 .. L - 2 : stack[i + 1].node \in Edges[stack[i].node]
    BY <1>0 DEF IInv, PathInv
  <2>3. \A i \in 1 .. L - 2 : i \in 1 .. L - 1 /\ i + 1 \in 1 .. L - 1
    BY <1>0
  <2>4. stack' # <<>> => stack'[1].node = from
    <3>1. stack' # <<>> => 1 \in 1 .. L - 1
      BY <1>0, <1>1
    <3> QED BY <1>0, <1>1, <3>1 DEF IInv, PathInv
  <2>5. Len(stack') - 1 = L - 2
    BY <1>0, <1>1
  <2>6. \A i \in 1 .. Len(stack') : Reaches(Edges', from', stack'[i].node)
    BY ONLY <1>0, <1>1, <2>1
  <2>7. \A i \in 1 .. Len(stack') - 1 : stack'[i + 1].node \in Edges'[stack'[i].node]
    BY ONLY <1>0, <1>1, <2>2, <2>3, <2>5
  <2> QED BY ONLY <1>0, <2>4, <2>6, <2>7 DEF PathInv
<1>6. FrameInv'
  <2>1. \A i \in 1 .. L - 1 : /\ stack[i].base # 0 => stack[i].base \in Edges[stack[i].node]
                              /\ stack[i].todo \subseteq Edges[stack[i].node]
    BY <1>0 DEF IInv, FrameInv
  <2> QED BY ONLY <1>0, <1>1, <2>1 DEF FrameInv
<1>7. LeftInv'
  <2>1. ASSUME NEW i \in 1 .. L - 1
        PROVE  /\ stack[i].node # to
               /\ \A m \in Edges[stack[i].node] :
                    \/ m \in stack[i].todo
                    \/ m = stack[i].base
                    \/ i < L - 1 /\ m = stack[i + 1].node
                    \/ Fruitless(m)
    <3>1. /\ stack[i].node # to
          /\ \A m \in Edges[stack[i].node] :
               m \in stack[i].todo \/ m = stack[i].base \/ m = stack[i + 1].node \/ Fruitless(m)
      BY <1>0 DEF IInv, LeftInv
    <3>2. i < L - 1 \/ stack[i + 1].node = Top.node
      BY <1>0
    <3> QED BY ONLY <1>2, <3>1, <3>2
  <2>2. \A i \in 1 .. L - 1 : i < L - 1 => i + 1 \in 1 .. L - 1
    BY <1>0
  <2>3. \A m \in Node : Fruitless(m)' <=> Fruitless(m)
    BY ONLY <1>0 DEF Fruitless
  <2>4. \A i \in 1 .. L - 1 : Edges[stack[i].node] \subseteq Node
    <3>1. \A i \in 1 .. L - 1 : stack[i] \in Frame
      BY <1>0
    <3>2. \A c \in Frame : c.node \in Node
      BY DEF Frame
    <3> QED BY <1>0, <3>1, <3>2
  <2> QED BY ONLY <1>0, <1>1, <2>1, <2>2, <2>3, <2>4 DEF LeftInv
<1>8. EmptyInv'
  <2>1. CASE L = 1
    <3>1. stack # <<>> => stack[1].node = from
      BY DEF IInv, PathInv
    <3>2. stack # <<>>
      BY <1>0
    <3>3. Top.node = from
      BY ONLY <1>0, <2>1, <3>1, <3>2
    <3> QED BY ONLY <1>0, <1>2, <3>3 DEF EmptyInv, Fruitless
  <2>2. CASE L > 1
    <3>1. Len(stack') = L - 1 /\ L \in Nat
      BY <1>0, <1>1
    <3>2. Len(stack') # 0
      <4> HIDE DEF L
      <4> QED BY ONLY <2>2, <3>1
    <3>3. Len(<<>>) = 0
      OBVIOUS
    <3> QED BY ONLY <3>2, <3>3 DEF EmptyInv
  <2>3. L = 1 \/ L > 1
    <3>1. L \in Nat /\ L > 0
      BY <1>0
    <3> HIDE DEF L
    <3> QED BY ONLY <3>1
  <2> QED BY ONLY <2>1, <2>2, <2>3
<1>9. AnswerExact' /\ CycleOverflows'
  BY <1>0 DEF IInv, AnswerExact, CycleOverflows
<1> QED BY ONLY <1>3, <1>5, <1>6, <1>7, <1>8, <1>9 DEF IInv

\* A path of more states than there are meets one of them twice, and so runs along a cycle.
LEMMA LongPath ==
    ASSUME NEW succ \in [Node -> SUBSET Node], NEW L \in Nat, L >= N,
           NEW p \in [1 .. L + 1 -> Node], \A i \in 1 .. L : p[i + 1] \in succ[p[i]]
    PROVE  \E S \in SUBSET Node : Recurrent(S, succ) /\ \A x \in S : \E i \in 1 .. L + 1 : x = p[i]
<1>1. PICK j, k \in 1 .. L + 1 : j < k /\ p[j] = p[k]
  <2>1. /\ IsFiniteSet(1 .. L + 1) /\ Cardinality(1 .. L + 1) = L + 1
        /\ IsFiniteSet(Node) /\ Cardinality(Node) = N
    <3>1. 1 \in Int /\ L + 1 \in Int /\ N \in Int /\ ~(1 > L + 1) /\ ~(1 > N)
      BY NAssumption
    <3>2. IsFiniteSet(1 .. L + 1) /\ Cardinality(1 .. L + 1) = (L + 1) - 1 + 1
      BY ONLY <3>1, FS_Interval
    <3>3. IsFiniteSet(1 .. N) /\ Cardinality(1 .. N) = N - 1 + 1
      BY ONLY <3>1, FS_Interval
    <3> QED BY <3>2, <3>3, NAssumption DEF Node
  <2>2. Cardinality(Node) < Cardinality(1 .. L + 1)
    BY <2>1, NAssumption
  <2>3. \E x, y \in 1 .. L + 1 : x # y /\ p[x] = p[y]
    BY ONLY <2>1, <2>2, FS_PigeonHole, p \in [1 .. L + 1 -> Node]
  <2>4. \A x, y \in 1 .. L + 1 : x # y => x < y \/ y < x
    OBVIOUS
  <2> QED BY <2>3, <2>4
<1> DEFINE S == {p[i] : i \in j .. k - 1}
<1>2. S \in SUBSET Node /\ p[j] \in S /\ \A x \in S : \E i \in 1 .. L + 1 : x = p[i]
  BY <1>1
<1>3. ASSUME NEW x \in S PROVE succ[x] \cap S # {}
  <2>1. PICK i \in j .. k - 1 : x = p[i]
    OBVIOUS
  <2>2. p[i + 1] \in succ[x]
    BY <1>1, <2>1
  <2>3. p[i + 1] \in S
    <3>1. CASE i + 1 = k
      BY <1>1, <1>2, <3>1
    <3>2. CASE i + 1 # k
      BY <1>1, <2>1, <3>2
    <3> QED BY <3>1, <3>2
  <2> QED BY <2>2, <2>3
<1>4. Recurrent(S, succ)
  BY ONLY <1>2, <1>3 DEF Recurrent
<1> QED BY ONLY <1>2, <1>4

\* The stack overflows on a path that has met a state twice.
LEMMA OverflowInv ==
    ASSUME IInv, Overflow
    PROVE  IInv'
<1> DEFINE L == Len(stack)
<1>0. /\ stack \in Seq(Frame) /\ L \in Nat /\ L >= N /\ L > 0 /\ from \in Node
      /\ Top = stack[L] /\ answer' = "overflow"
      /\ UNCHANGED <<base, deps, from, to, stack>>
      /\ Edges \in [Node -> SUBSET Node] /\ Edges' = Edges
  <2>1. /\ stack \in Seq(Frame) /\ stack # <<>> /\ TypeOK /\ from \in Node /\ ~(Len(stack) < MaxDepth)
        /\ UNCHANGED <<base, deps, from, to, stack>> /\ answer' = "overflow"
    BY DEF IInv, TypeOK, Overflow, Running, Room
  <2>2. Edges' = Edges
    BY <2>1 DEF Edges
  <2>3. Len(stack) \in Nat /\ Len(stack) >= N /\ Len(stack) > 0
    BY <2>1, MaxDepthAssumption, NAssumption
  <2> QED BY <2>1, <2>2, <2>3, EdgesType DEF Top
<1>1. PICK m \in Node : m \in Edges[Top.node]
  <2>1. Top \in Frame /\ L \in 1 .. L
    BY <1>0
  <2>2. Top.base # 0 \/ Top.todo # {}
    BY DEF Overflow
  <2>3. Top.node \in Node /\ Top.base \in 0 .. N /\ Top.todo \in SUBSET Node
    BY <2>1 DEF Frame
  <2>4. /\ Top.base # 0 => Top.base \in Edges[Top.node]
        /\ Top.todo \subseteq Edges[Top.node]
    BY <1>0, <2>1 DEF IInv, FrameInv
  <2> QED BY <2>2, <2>3, <2>4, <1>0
<1> DEFINE p == [i \in 1 .. L + 1 |-> IF i = L + 1 THEN m ELSE stack[i].node]
<1>2. \A i \in 1 .. L : stack[i].node \in Node
  <2>1. \A i \in 1 .. L : stack[i] \in Frame
    BY <1>0
  <2>2. \A c \in Frame : c.node \in Node
    BY DEF Frame
  <2> QED BY ONLY <2>1, <2>2
<1>3. p \in [1 .. L + 1 -> Node] /\ p[L + 1] = m /\ \A i \in 1 .. L : p[i] = stack[i].node
  BY <1>0, <1>2
<1>4. \A i \in 1 .. L : p[i + 1] \in Edges[p[i]]
  <2>1. \A i \in 1 .. L - 1 : stack[i + 1].node \in Edges[stack[i].node]
    BY <1>0 DEF IInv, PathInv
  <2>2. \A i \in 1 .. L : i = L \/ (i \in 1 .. L - 1 /\ i + 1 \in 1 .. L)
    BY <1>0
  <2>3. L \in 1 .. L
    BY <1>0
  <2> HIDE DEF p
  <2> QED BY ONLY <1>0, <1>1, <1>3, <2>1, <2>2, <2>3
<1>5. \A i \in 1 .. L + 1 : Reaches(Edges, from, p[i])
  <2>1. \A i \in 1 .. L : Reaches(Edges, from, stack[i].node)
    BY DEF IInv, PathInv
  <2>2. L \in 1 .. L
    BY <1>0
  <2>3. Reaches(Edges, from, m)
    BY ONLY <1>0, <1>1, <1>2, <2>1, <2>2, ReachesNext
  <2>4. \A i \in 1 .. L + 1 : i = L + 1 \/ i \in 1 .. L
    BY <1>0
  <2> HIDE DEF p
  <2> QED BY ONLY <1>3, <2>1, <2>3, <2>4
<1>6. ReachesCycle(Edges, from)
  <2> HIDE DEF p, L
  <2>1. PICK S \in SUBSET Node : Recurrent(S, Edges) /\ \A x \in S : \E i \in 1 .. L + 1 : x = p[i]
    BY ONLY <1>0, <1>3, <1>4, LongPath
  <2>2. \A x \in S : Reaches(Edges, from, x)
    BY ONLY <2>1, <1>5
  <2>3. S \in SUBSET DOMAIN Edges
    BY <1>0
  <2> QED BY ONLY <2>1, <2>2, <2>3 DEF ReachesCycle
<1>7. TypeOK' /\ AnswerExact' /\ CycleOverflows'
  BY <1>0, <1>6 DEF IInv, TypeOK, AnswerExact, CycleOverflows
<1> QED BY <1>0, <1>7 DEF IInv, PathInv, FrameInv, LeftInv, EmptyInv, Fruitless

\* Every step of the walk keeps the invariant.
LEMMA NextInv == IInv /\ [Next]_vars => IInv'
<1> SUFFICES ASSUME IInv, [Next]_vars PROVE IInv'
  OBVIOUS
<1>0. ASSUME stack # <<>>
      PROVE  /\ Top \in Frame /\ Top.node \in Node /\ Top.base \in 0 .. N /\ Top.todo \in SUBSET Node
             /\ Top.base # 0 => Top.base \in Edges[Top.node] /\ Top.base \in Node
             /\ Top.todo \subseteq Edges[Top.node]
  <2>1. stack \in Seq(Frame) /\ Len(stack) \in 1 .. Len(stack)
    BY <1>0 DEF IInv, TypeOK
  <2>2. Top \in Frame
    BY <1>0, <2>1 DEF Top
  <2>3. /\ Top.base # 0 => Top.base \in Edges[Top.node]
        /\ Top.todo \subseteq Edges[Top.node]
    BY <2>1 DEF IInv, FrameInv, Top
  <2> QED BY <2>2, <2>3, NAssumption DEF Frame, Node
<1>1. CASE Hit
  <2>1. /\ stack # <<>> /\ Top.node = to /\ answer' = "yes"
        /\ UNCHANGED <<base, deps, from, to, stack>> /\ Edges' = Edges
    BY <1>1 DEF Hit, Running, Edges
  <2>2. Reaches(Edges, from, Top.node)
    <3>1. Len(stack) \in 1 .. Len(stack)
      BY <2>1 DEF IInv, TypeOK
    <3> QED BY <3>1 DEF IInv, PathInv, Top
  <2>3. TypeOK' /\ AnswerExact' /\ CycleOverflows'
    BY <2>1, <2>2 DEF IInv, TypeOK, AnswerExact, CycleOverflows
  <2> QED BY <2>1, <2>3 DEF IInv, PathInv, FrameInv, LeftInv, EmptyInv, Fruitless
<1>2. CASE FollowBase
  <2>1. /\ stack # <<>> /\ Top.node # to /\ Top.base # 0
        /\ stack' = Append([stack EXCEPT ![Len(stack)].base = 0], Call(Top.base))
        /\ UNCHANGED <<base, deps, from, to, answer>>
    BY <1>2 DEF FollowBase, Running
  <2> DEFINE f == [Top EXCEPT !.base = 0]
  <2>2. f \in Frame /\ f.node = Top.node /\ f.base = 0 /\ f.todo = Top.todo
    <3>1. Top \in Frame /\ 0 \in 0 .. N
      BY <1>0, <2>1, NAssumption
    <3> QED BY ONLY <3>1 DEF Frame
  <2>3. stack' = Append([stack EXCEPT ![Len(stack)] = f], Call(Top.base))
    BY <2>1 DEF Top
  <2>4. PICK m \in Node : m = Top.base
    BY <1>0, <2>1
  <2> HIDE DEF f
  <2> QED BY ONLY IInv, <1>0, <2>1, <2>2, <2>3, <2>4, EnterInv
<1>3. ASSUME NEW m \in Node, FollowDep(m) PROVE IInv'
  <2>1. /\ stack # <<>> /\ Top.node # to /\ m \in Top.todo
        /\ stack' = Append([stack EXCEPT ![Len(stack)].todo = @ \ {m}], Call(m))
        /\ UNCHANGED <<base, deps, from, to, answer>>
    BY <1>3 DEF FollowDep, Running
  <2> DEFINE f == [Top EXCEPT !.todo = @ \ {m}]
  <2>2. f \in Frame /\ f.node = Top.node /\ f.base = Top.base /\ f.todo = Top.todo \ {m}
    <3>1. Top \in Frame
      BY <1>0, <2>1
    <3> QED BY ONLY <3>1 DEF Frame
  <2>3. stack' = Append([stack EXCEPT ![Len(stack)] = f], Call(m))
    BY <2>1 DEF Top
  <2> HIDE DEF f
  <2> QED BY ONLY IInv, <1>0, <2>1, <2>2, <2>3, EnterInv
<1>4. CASE Return
  BY <1>4, ReturnInv
<1>5. CASE NotFound
  <2>1. /\ stack = <<>> /\ answer' = "no"
        /\ UNCHANGED <<base, deps, from, to, stack>> /\ Edges' = Edges
    BY <1>5 DEF NotFound, Edges
  <2>2. TypeOK' /\ AnswerExact' /\ CycleOverflows'
    BY <2>1 DEF IInv, TypeOK, EmptyInv, AnswerExact, CycleOverflows, Fruitless
  <2> QED BY <2>1, <2>2 DEF IInv, PathInv, FrameInv, LeftInv, EmptyInv, Fruitless
<1>6. CASE Overflow
  BY <1>6, OverflowInv
<1>7. CASE UNCHANGED vars
  <2>1. UNCHANGED <<base, deps, from, to, stack, answer>> /\ Edges' = Edges
    BY <1>7 DEF vars, Edges
  <2>2. TypeOK' /\ AnswerExact' /\ CycleOverflows'
    BY <2>1 DEF IInv, TypeOK, AnswerExact, CycleOverflows
  <2> QED BY <2>1, <2>2 DEF IInv, PathInv, FrameInv, LeftInv, EmptyInv, Fruitless
<1> QED BY <1>1, <1>2, <1>3, <1>4, <1>5, <1>6, <1>7 DEF Next

\* The inductive invariant: the calls in progress are a path from the start, and the edges
\* they are done with lead nowhere.
THEOREM Invariance == Spec => []IInv
<1> QED BY InitInv, NextInv, PTL DEF Spec

\* isReachable is exact for any number of stages and any graph of them that is handed to it.
THEOREM Exact == Spec => []AnswerExact
<1>1. IInv => AnswerExact
  BY DEF IInv
<1> QED BY <1>1, Invariance, PTL

\* Whatever room the stack has, isReachable overflows it only on a cycle below the state
\* it begins at, and with such a cycle it never answers no.
THEOREM Overflows == Spec => []CycleOverflows
<1>1. IInv => CycleOverflows
  BY DEF IInv
<1> QED BY <1>1, Invariance, PTL
=============================================================================
