--------------------------- MODULE Pipeline_proofs ---------------------------
(***************************************************************************)
(* Proofs about Pipeline, for every set of Dockerfiles: the scopes of the  *)
(* variables, the mounts of RUN, and what the lexer makes of a line.       *)
(***************************************************************************)
EXTENDS PipelineInvariants, FiniteSetTheorems, WellFoundedInduction, TLAPS

-----------------------------------------------------------------------------
(* Induction for the provers at hand, which cannot instantiate a theorem   *)
(* about an operator: it is stated of a set of numbers, and recursion of   *)
(* a function F whose F[i] is what the i-th step does.                     *)

\* A nonempty set of numbers has a least one.
LEMMA NatMin ==
    ASSUME NEW S \in SUBSET Nat, S # {}
    PROVE  \E m \in S : \A n \in S : m <= n
<1> DEFINE R == {p \in Nat \X Nat : p[1] < p[2]}
<1>1. R = OpToRel(<, Nat) BY DEF OpToRel
<1>2. IsWellFoundedOn(R, Nat) BY <1>1, NatLessThanWellFounded
<1>3. PICK m \in S : \A n \in S : <<n, m>> \notin R BY <1>2, WFMin
<1>4. ASSUME NEW n \in S PROVE m <= n
  <2>1. m \in Nat /\ n \in Nat OBVIOUS
  <2>2. n < m => <<n, m>> \in R BY <2>1
  <2> QED BY <1>3, <2>1, <2>2
<1> QED BY <1>4

\* A set that has 0 and, with every number, the next has all numbers.
LEMMA SetInduction ==
    ASSUME NEW n \in Nat, NEW S, 0 \in S, \A i \in 1 .. n : i - 1 \in S => i \in S
    PROVE  0 .. n \subseteq S
<1> DEFINE T == 0 .. n \ S
<1> SUFFICES ASSUME T # {} PROVE FALSE
  OBVIOUS
<1>1. T \in SUBSET Nat OBVIOUS
<1>2. PICK m \in T : \A k \in T : m <= k BY <1>1, NatMin
<1>3. m \in 1 .. n /\ m - 1 \in 0 .. n BY <1>2
<1>4. m - 1 \notin T BY <1>2, <1>3
<1> QED BY <1>2, <1>3, <1>4

\* n steps on values of X, and the functions that do the first i of them from b
Steps(X, n) == [1 .. n -> [X -> X]]
Runs(X, n, F, b) == {h \in [0 .. n -> X] : h[0] = b /\ \A i \in 1 .. n : h[i] = F[i][h[i - 1]]}

\* There is a function that does any number of steps.
LEMMA Recursion ==
    ASSUME NEW X, NEW n \in Nat, NEW F \in Steps(X, n), NEW b \in X
    PROVE  Runs(X, n, F, b) # {}
<1> DEFINE Upto(m) == {h \in [0 .. m -> X] :
                         h[0] = b /\ \A i \in 1 .. m : h[i] = F[i][h[i - 1]]}
           S == {m \in 0 .. n : Upto(m) # {}}
<1>1. 0 \in S
  <2> DEFINE h == [i \in 0 .. 0 |-> b]
  <2>1. h \in Upto(0) OBVIOUS
  <2> QED BY <2>1
<1>2. ASSUME NEW i \in 1 .. n, i - 1 \in S PROVE i \in S
  <2>1. PICK h : h \in Upto(i - 1) BY <1>2
  <2> DEFINE g == [j \in 0 .. i |-> IF j = i THEN F[i][h[i - 1]] ELSE h[j]]
  <2>2. h \in [0 .. i - 1 -> X] /\ h[0] = b /\ \A j \in 1 .. i - 1 : h[j] = F[j][h[j - 1]]
    BY <2>1
  <2>3. h[i - 1] \in X /\ F[i] \in [X -> X] BY <2>2 DEF Steps
  <2>4. g \in [0 .. i -> X] BY <2>2, <2>3
  <2>5. g[0] = b BY <2>2
  <2>6. ASSUME NEW j \in 1 .. i PROVE g[j] = F[j][g[j - 1]]
    <3>1. g[j - 1] = h[j - 1] BY <2>6
    <3>2. CASE j = i BY <3>1, <3>2
    <3>3. CASE j # i BY <2>2, <3>1, <3>3
    <3> QED BY <3>2, <3>3
  <2>7. g \in Upto(i) BY <2>4, <2>5, <2>6
  <2> QED BY <2>7
<1> HIDE DEF S
<1>3. 0 .. n \subseteq S BY <1>1, <1>2, SetInduction
<1>4. Upto(n) # {} BY <1>3 DEF S
<1> QED BY <1>4 DEF Runs

\* A nonempty set of the first numbers has a greatest one.
LEMMA MaxOf ==
    ASSUME NEW n \in Nat, NEW S \in SUBSET (1 .. n), S # {}
    PROVE  Max(S) \in S /\ \A k \in S : k <= Max(S)
<1> DEFINE T == {m \in Nat : n - m \in S}
<1>1. \E k \in S : n - k \in T
  <2>1. PICK k \in S : TRUE OBVIOUS
  <2>2. k \in 1 .. n BY <2>1
  <2>3. n - k \in Nat /\ n - (n - k) = k BY <2>2
  <2> QED BY <2>1, <2>3
<1>2. PICK m \in T : \A k \in T : m <= k BY <1>1, NatMin
<1>3. ASSUME NEW k \in S PROVE n - m >= k
  <2>1. k \in 1 .. n OBVIOUS
  <2>2. n - k \in Nat /\ n - (n - k) = k BY <2>1
  <2>3. m <= n - k BY <1>2, <2>2
  <2> QED BY <2>1, <2>3
<1>4. \E x \in S : \A y \in S : x >= y BY <1>2, <1>3
<1>5. Max(S) \in S /\ \A y \in S : Max(S) >= y BY <1>4 DEF Max
<1>6. \A y \in S : y \in Int BY SMT
<1> QED BY <1>5, <1>6

\* The greatest of the first numbers, and those without it.
LEMMA MaxOfUpto ==
    ASSUME NEW k \in Nat, k # 0
    PROVE  Max(1 .. k) = k /\ (1 .. k) \ {k} = 1 .. k - 1
<1>1. k \in 1 .. k /\ 1 .. k \in SUBSET (1 .. k) /\ 1 .. k # {} OBVIOUS
<1>2. Max(1 .. k) \in 1 .. k /\ k <= Max(1 .. k) BY <1>1, MaxOf
<1> QED BY <1>2

\* What takes off the greatest number of a set, step by step: what the folds of the community
\* modules are; and what does so as far as it stays in X.
Takes(g, n, F, b) ==
    g = [S \in SUBSET (1 .. n) |-> IF S = {} THEN b ELSE F[Max(S)][g[S \ {Max(S)}]]]
TakesIn(X, g, n, F, b) ==
    /\ g[{}] = b
    /\ \A S \in SUBSET (1 .. n) :
         S # {} /\ g[S \ {Max(S)}] \in X => g[S] = F[Max(S)][g[S \ {Max(S)}]]

\* There is a function that does.
LEMMA SubsetRecursion ==
    ASSUME NEW X, NEW n \in Nat, NEW F \in Steps(X, n), NEW b \in X
    PROVE  \E g \in [SUBSET (1 .. n) -> X] : Takes(g, n, F, b)
<1> DEFINE D == SUBSET (1 .. n)
           Y == [D -> X]
           G == [i \in 1 .. n |-> [y \in Y |->
                   [S \in D |-> IF i \in S THEN F[i][y[S \ {i}]] ELSE y[S]]]]
           c == [S \in D |-> b]
<1>1. c \in Y OBVIOUS
<1>2. G \in Steps(Y, n)
  <2>1. ASSUME NEW i \in 1 .. n, NEW y \in Y, NEW S \in D
        PROVE  (IF i \in S THEN F[i][y[S \ {i}]] ELSE y[S]) \in X
    <3>1. y[S \ {i}] \in X /\ y[S] \in X OBVIOUS
    <3>2. F[i] \in [X -> X] BY DEF Steps
    <3> QED BY <3>1, <3>2
  <2> QED BY <2>1 DEF Steps
<1>3. PICK h : h \in Runs(Y, n, G, c)
  <2> HIDE DEF Y, G, c
  <2> QED BY <1>1, <1>2, Recursion
<1>4. h \in [0 .. n -> Y] /\ h[0] = c /\ \A i \in 1 .. n : h[i] = G[i][h[i - 1]]
  BY <1>3 DEF Runs
<1>5. ASSUME NEW i \in 1 .. n, NEW S \in D
      PROVE  /\ h[i - 1] \in Y /\ h[i] \in Y
             /\ h[i][S] = IF i \in S THEN F[i][h[i - 1][S \ {i}]] ELSE h[i - 1][S]
  <2>1. i - 1 \in 0 .. n /\ i \in 0 .. n OBVIOUS
  <2>2. h[i - 1] \in Y /\ h[i] \in Y BY <1>4, <2>1
  <2>3. h[i] = [T \in D |-> IF i \in T THEN F[i][h[i - 1][T \ {i}]] ELSE h[i - 1][T]]
    BY <1>4, <2>2
  <2> QED BY <2>2, <2>3
<1> DEFINE K == {i \in 0 .. n : \A S \in D : \A j \in 0 .. i : S \subseteq 1 .. j => h[i][S] = h[j][S]}
<1>6. 0 \in K OBVIOUS
<1>7. ASSUME NEW i \in 1 .. n, i - 1 \in K PROVE i \in K
  <2>1. ASSUME NEW S \in D, NEW j \in 0 .. i, S \subseteq 1 .. j PROVE h[i][S] = h[j][S]
    <3>1. CASE j = i BY <3>1
    <3>2. CASE j # i
      <4>1. j \in 0 .. i - 1 BY <3>2
      <4>2. i \notin S BY <2>1, <4>1
      <4>3. h[i][S] = h[i - 1][S] BY <1>5, <4>2
      <4>4. h[i - 1][S] = h[j][S]
        <5> HIDE DEF D
        <5> QED BY <1>7, <2>1, <4>1
      <4> QED BY <4>3, <4>4
    <3> QED BY <3>1, <3>2
  <2> QED BY <2>1
<1> HIDE DEF K
<1>8. 0 .. n \subseteq K BY <1>6, <1>7, SetInduction
<1>9. n \in K BY <1>8
<1> DEFINE g == h[n]
<1>10. g \in Y BY <1>4
<1>11. ASSUME NEW S \in D, S # {}
       PROVE  g[S] = F[Max(S)][g[S \ {Max(S)}]]
  <2> DEFINE m == Max(S)
  <2>1. m \in S /\ \A k \in S : k <= m BY <1>11, MaxOf
  <2>2. m \in 1 .. n BY <2>1
  <2> HIDE DEF m
  <2>3. S \subseteq 1 .. m BY <2>1, <2>2
  <2>4. S \ {m} \in D /\ S \ {m} \subseteq 1 .. m - 1 BY <2>1, <2>2
  <2>5. m \in 0 .. n /\ m - 1 \in 0 .. n BY <2>2
  <2>6. g[S] = h[m][S] BY <1>9, <2>3, <2>5 DEF K
  <2>7. g[S \ {m}] = h[m - 1][S \ {m}] BY <1>9, <2>4, <2>5 DEF K
  <2>8. h[m][S] = F[m][h[m - 1][S \ {m}]] BY <1>5, <2>1, <2>2
  <2>9. g[S] = F[m][g[S \ {m}]] BY <2>6, <2>7, <2>8
  <2> QED BY <2>9 DEF m
<1>12. g[{}] = b
  <2>1. {} \in D /\ {} \subseteq 1 .. 0 /\ 0 \in 0 .. n OBVIOUS
  <2>2. g[{}] = h[0][{}] BY <1>9, <2>1 DEF K
  <2> QED BY <1>4, <2>1, <2>2
<1> HIDE DEF g
<1>13. Takes(g, n, F, b) BY <1>10, <1>11, <1>12 DEF Takes
<1> QED BY <1>10, <1>13

\* It runs over the numbers in their order.
LEMMA FoldRuns ==
    ASSUME NEW X, NEW n \in Nat, NEW F \in Steps(X, n), NEW b \in X, NEW it, TakesIn(X, it, n, F, b)
    PROVE  \E h \in Runs(X, n, F, b) : h[n] = it[1 .. n]
<1> DEFINE h == [i \in 0 .. n |-> it[1 .. i]]
           P == {i \in 0 .. n : h[i] \in X /\ (i # 0 => h[i] = F[i][h[i - 1]])}
<1>1. h[0] = b
  <2>1. 1 .. 0 = {} OBVIOUS
  <2> QED BY <2>1 DEF TakesIn
<1>2. 0 \in P BY <1>1
<1>3. ASSUME NEW i \in 1 .. n, i - 1 \in P PROVE i \in P
  <2>1. 1 .. i \in SUBSET (1 .. n) /\ 1 .. i # {} /\ i \in Nat /\ i # 0 /\ i - 1 \in 0 .. n /\ i \in 0 .. n OBVIOUS
  <2>2. Max(1 .. i) = i /\ (1 .. i) \ {i} = 1 .. i - 1 BY <2>1, MaxOfUpto
  <2>3. h[i - 1] \in X /\ h[i - 1] = it[1 .. i - 1] /\ h[i] = it[1 .. i] BY <1>3, <2>1
  <2>4. it[1 .. i] = F[i][it[1 .. i - 1]]
    <3> DEFINE S == 1 .. i
    <3>1. S \in SUBSET (1 .. n) /\ S # {} /\ Max(S) = i /\ S \ {i} = 1 .. i - 1 BY <2>1, <2>2
    <3> HIDE DEF S, h, P
    <3>2. it[S] = F[i][it[S \ {i}]] BY <2>3, <3>1 DEF TakesIn
    <3> QED BY <3>1, <3>2 DEF S
  <2>5. F[i] \in [X -> X] BY DEF Steps
  <2> QED BY <2>1, <2>3, <2>4, <2>5
<1> HIDE DEF P
<1>4. 0 .. n \subseteq P BY <1>2, <1>3, SetInduction
<1>5. h \in Runs(X, n, F, b)
  <2>1. \A i \in 0 .. n : h[i] \in X BY <1>4 DEF P
  <2>2. \A i \in 1 .. n : i \in 0 .. n /\ i # 0 OBVIOUS
  <2>3. \A i \in 1 .. n : h[i] = F[i][h[i - 1]]
    <3> HIDE DEF h
    <3> QED BY <1>4, <2>2 DEF P
  <2> QED BY <1>1, <2>1, <2>3 DEF Runs
<1>6. h[n] = it[1 .. n] OBVIOUS
<1> QED BY <1>5, <1>6

-----------------------------------------------------------------------------
(* Environments: what a list of assignments leaves                         *)

LEMMA AssignNone ==
    ASSUME NEW old, Environment(old), NEW kvs
    PROVE  AssignIn(old, kvs, {}) = old
<1>1. \A n : SettersIn(kvs, {}, n) = {} BY DEF SettersIn
<1>2. DOMAIN old \cup {kvs[i].key : i \in {i \in {} : kvs[i].set}} = DOMAIN old OBVIOUS
<1>3. AssignIn(old, kvs, {}) = [n \in DOMAIN old |-> old[n]] BY <1>1, <1>2 DEF AssignIn
<1> QED BY <1>3 DEF Environment

\* The last assignment comes on top of the others.
LEMMA AssignStep ==
    ASSUME NEW old, NEW kvs, NEW k \in Nat, NEW S \in SUBSET (1 .. k), S # {}, kvs[Max(S)].set \in BOOLEAN
    PROVE  AssignIn(old, kvs, S) = Put(AssignIn(old, kvs, S \ {Max(S)}), kvs[Max(S)])
<1> DEFINE m == Max(S)
           T == S \ {m}
           kv == kvs[m]
           Names(U) == {kvs[i].key : i \in {i \in U : kvs[i].set}}
<1>1. m \in S /\ \A i \in S : i <= m BY MaxOf
<1>2. m \in 1 .. k BY <1>1
<1> HIDE DEF m
<1>3. CASE ~kv.set
  <2>1. \A n : SettersIn(kvs, S, n) = SettersIn(kvs, T, n) BY <1>3 DEF SettersIn
  <2>2. Names(S) = Names(T) BY <1>3
  <2>3. AssignIn(old, kvs, S) = AssignIn(old, kvs, T) BY <2>1, <2>2 DEF AssignIn
  <2> QED BY <1>3, <2>3 DEF Put, m
<1>4. CASE kv.set
  <2>1. Names(S) = Names(T) \cup {kv.key} BY <1>1, <1>4
  <2>2. \A n : n # kv.key => SettersIn(kvs, S, n) = SettersIn(kvs, T, n) BY DEF SettersIn
  <2>3. Max(SettersIn(kvs, S, kv.key)) = m /\ SettersIn(kvs, S, kv.key) # {}
    <3> DEFINE U == SettersIn(kvs, S, kv.key)
    <3>1. m \in U /\ U \in SUBSET (1 .. k) /\ \A i \in U : i <= m BY <1>1, <1>4 DEF SettersIn
    <3>2. Max(U) \in U /\ m <= Max(U)
      <4> HIDE DEF U
      <4> QED BY <3>1, MaxOf
    <3>3. Max(U) <= m /\ Max(U) \in Nat BY <3>1, <3>2
    <3> QED BY <1>2, <3>1, <3>2, <3>3
  <2> DEFINE e == AssignIn(old, kvs, T)
  <2>4. DOMAIN e = DOMAIN old \cup Names(T) BY DEF AssignIn
  <2>5. ASSUME NEW n \in DOMAIN old \cup Names(S)
        PROVE  AssignIn(old, kvs, S)[n] = IF n = kv.key THEN kv.value ELSE e[n]
    <3>1. AssignIn(old, kvs, S)[n] =
            IF SettersIn(kvs, S, n) = {} THEN old[n] ELSE kvs[Max(SettersIn(kvs, S, n))].value
      BY DEF AssignIn
    <3>2. CASE n = kv.key BY <2>3, <3>1, <3>2
    <3>3. CASE n # kv.key
      <4>1. n \in DOMAIN e BY <2>1, <2>4, <3>3
      <4>2. e[n] = IF SettersIn(kvs, T, n) = {} THEN old[n] ELSE kvs[Max(SettersIn(kvs, T, n))].value
        BY <4>1 DEF AssignIn
      <4> QED BY <2>2, <3>1, <3>3, <4>2
    <3> QED BY <3>2, <3>3
  <2>6. AssignIn(old, kvs, S) = [n \in DOMAIN AssignIn(old, kvs, S) |-> AssignIn(old, kvs, S)[n]]
        /\ DOMAIN AssignIn(old, kvs, S) = DOMAIN old \cup Names(S)
    BY DEF AssignIn
  <2>7. DOMAIN e \cup {kv.key} = DOMAIN old \cup Names(S) BY <2>1, <2>4
  <2> HIDE DEF e, Names
  <2>8. AssignIn(old, kvs, S) = Define(e, kv.key, kv.value) BY <2>5, <2>6, <2>7 DEF Define
  <2> QED BY <1>4, <2>8 DEF Put, e, m
<1> QED BY <1>3, <1>4 DEF m

\* A sequence of assignments, each with a name, a value and whether it is one.
Pairs(kvs, n) == \A i \in 1 .. n : kvs[i].set \in BOOLEAN
FoldsPuts(it, e, kvs, n) ==
    it = [S \in SUBSET (1 .. n) |-> IF S = {} THEN e ELSE Put(it[S \ {Max(S)}], kvs[Max(S)])]

\* What assigns step by step exists, and has assigned everything in the end.
LEMMA PutsExist ==
    ASSUME NEW e, Environment(e), NEW n \in Nat, NEW kvs, Pairs(kvs, n)
    PROVE  \E it : FoldsPuts(it, e, kvs, n)
<1> DEFINE it == [S \in SUBSET (1 .. n) |-> AssignIn(e, kvs, S)]
<1>1. ASSUME NEW S \in SUBSET (1 .. n)
      PROVE  it[S] = IF S = {} THEN e ELSE Put(it[S \ {Max(S)}], kvs[Max(S)])
  <2>1. CASE S = {} BY <2>1, AssignNone
  <2>2. CASE S # {}
    <3>1. Max(S) \in S BY <2>2, MaxOf
    <3>2. kvs[Max(S)].set \in BOOLEAN BY <3>1 DEF Pairs
    <3>3. AssignIn(e, kvs, S) = Put(AssignIn(e, kvs, S \ {Max(S)}), kvs[Max(S)]) BY <2>2, <3>2, AssignStep
    <3>4. S \ {Max(S)} \in SUBSET (1 .. n) OBVIOUS
    <3> QED BY <2>2, <3>3, <3>4
  <2> QED BY <2>1, <2>2
<1>2. FoldsPuts(it, e, kvs, n) BY <1>1 DEF FoldsPuts
<1> QED BY <1>2

LEMMA PutsAssign ==
    ASSUME NEW e, Environment(e), NEW n \in Nat, NEW kvs, Pairs(kvs, n), NEW it, FoldsPuts(it, e, kvs, n)
    PROVE  it[1 .. n] = AssignIn(e, kvs, 1 .. n)
<1> DEFINE P == {i \in 0 .. n : it[1 .. i] = AssignIn(e, kvs, 1 .. i)}
<1>1. 0 \in P
  <2>1. 1 .. 0 = {} /\ {} \in SUBSET (1 .. n) OBVIOUS
  <2>2. it[{}] = e BY <2>1 DEF FoldsPuts
  <2> QED BY <2>1, <2>2, AssignNone
<1>2. ASSUME NEW i \in 1 .. n, i - 1 \in P PROVE i \in P
  <2>1. 1 .. i \in SUBSET (1 .. n) /\ 1 .. i # {} /\ i \in Nat /\ i # 0 OBVIOUS
  <2>2. Max(1 .. i) = i /\ (1 .. i) \ {i} = 1 .. i - 1 BY <2>1, MaxOfUpto
  <2>3. it[1 .. i] = Put(it[1 .. i - 1], kvs[i]) BY <2>1, <2>2 DEF FoldsPuts
  <2>4. kvs[i].set \in BOOLEAN BY DEF Pairs
  <2>5. AssignIn(e, kvs, 1 .. i) = Put(AssignIn(e, kvs, 1 .. i - 1), kvs[i])
    <3> DEFINE S == 1 .. i
    <3>1. S \in SUBSET (1 .. i) /\ S # {} /\ Max(S) = i /\ S \ {i} = 1 .. i - 1 BY <2>1, <2>2
    <3> HIDE DEF S
    <3>2. AssignIn(e, kvs, S) = Put(AssignIn(e, kvs, S \ {Max(S)}), kvs[Max(S)])
      BY <2>1, <2>4, <3>1, AssignStep
    <3> QED BY <3>1, <3>2 DEF S
  <2> QED BY <1>2, <2>3, <2>5
<1> HIDE DEF P
<1>3. 0 .. n \subseteq P BY <1>1, <1>2, SetInduction
<1> QED BY <1>3 DEF P

\* The map of a list of arguments has the last value of each name.
AsPairs(args) == [i \in DOMAIN args |-> KV(args[i].key, args[i].value)]

LEMMA EmptyEnvironment == Environment(NoEnv) /\ DOMAIN NoEnv = {}
  BY DEF Environment, NoEnv

LEMMA MapIsAssign ==
    ASSUME NEW args, NEW n \in Nat, DOMAIN args = 1 .. n
    PROVE  MetaArgsToMap(args) = AssignIn(NoEnv, AsPairs(args), 1 .. n)
<1> DEFINE kvs == AsPairs(args)
           it == CHOOSE it : it = [S \in SUBSET (DOMAIN args) |->
                    IF S = {} THEN NoEnv ELSE Define(it[S \ {Max(S)}], args[Max(S)].key, args[Max(S)].value)]
<1>1. MetaArgsToMap(args) = it[DOMAIN args]
  BY DEF MetaArgsToMap, FoldLeft, MapThenFoldSet
<1>2. Pairs(kvs, n) BY DEF Pairs, AsPairs, KV
<1>3. ASSUME NEW f, NEW S \in SUBSET (1 .. n), S # {}
      PROVE  Define(f[S \ {Max(S)}], args[Max(S)].key, args[Max(S)].value) = Put(f[S \ {Max(S)}], kvs[Max(S)])
  <2>1. Max(S) \in 1 .. n BY <1>3, MaxOf
  <2> QED BY <2>1 DEF Put, AsPairs, KV
<1>4. \A f : FoldsPuts(f, NoEnv, kvs, n) <=>
              f = [S \in SUBSET (DOMAIN args) |->
                    IF S = {} THEN NoEnv ELSE Define(f[S \ {Max(S)}], args[Max(S)].key, args[Max(S)].value)]
  BY <1>3 DEF FoldsPuts
<1> HIDE DEF kvs
<1>5. \E f : FoldsPuts(f, NoEnv, kvs, n) BY <1>2, EmptyEnvironment, PutsExist
<1>6. FoldsPuts(it, NoEnv, kvs, n) BY <1>4, <1>5
<1> HIDE DEF it
<1>7. it[1 .. n] = AssignIn(NoEnv, kvs, 1 .. n) BY <1>2, <1>6, EmptyEnvironment, PutsAssign
<1> QED BY <1>1, <1>7 DEF kvs

-----------------------------------------------------------------------------
(* Texts, and what the parsers of a line make of them                      *)

LEMMA CharFacts ==
    /\ EOF \notin Chars /\ Space \in Chars /\ Backslash \in Chars /\ Backtick \in Chars
    /\ <<>> \in Texts /\ \A s \in Seq(STRING \ {EOF}) : s \in Texts
<1>1. EOF \notin Chars /\ Space \in Chars /\ Backslash \in Chars /\ Backtick \in Chars
  BY DEF Chars, EOF, Space, Backslash, Backtick
<1>2. STRING \ {EOF} \subseteq Chars BY DEF Chars
<1> HIDE DEF Chars
<1>3. \A s \in Seq(STRING \ {EOF}) : s \in Seq(Chars) BY <1>2
<1> QED BY <1>1, <1>3 DEF Texts

LEMMA MinOf ==
    ASSUME NEW S \in SUBSET Nat, S # {}
    PROVE  Min(S) \in S /\ \A k \in S : Min(S) <= k
<1>1. \E x \in S : \A y \in S : x <= y BY NatMin
<1> QED BY <1>1 DEF Min

LEMMA SubText ==
    ASSUME NEW s \in Texts, NEW i \in Nat \ {0}, NEW j \in Int, j <= Len(s)
    PROVE  SubSeq(s, i, j) \in Texts
  BY DEF Texts

LEMMA TrimText ==
    ASSUME NEW s \in Texts
    PROVE  Trim(s) \in Texts
<1> DEFINE solid == {i \in DOMAIN s : s[i] # Space}
<1>1. Len(s) \in Nat /\ DOMAIN s = 1 .. Len(s) BY DEF Texts
<1>2. CASE solid = {} BY <1>2 DEF Trim, Texts
<1>3. CASE solid # {}
  <2>1. solid \in SUBSET (1 .. Len(s)) /\ solid \in SUBSET Nat BY <1>1
  <2>2. Trim(s) = SubSeq(s, Min(solid), Max(solid)) BY <1>3 DEF Trim
  <2> HIDE DEF solid
  <2>3. Min(solid) \in 1 .. Len(s) BY <1>3, <2>1, MinOf
  <2>4. Max(solid) \in 1 .. Len(s) BY <1>1, <1>3, <2>1, MaxOf
  <2> QED BY <1>1, <2>2, <2>3, <2>4, SubText
<1> QED BY <1>2, <1>3

\* Of positions some of which are in a class, there is a first one from i on that is not.
LEMMA FirstOutside ==
    ASSUME NEW n \in Nat, NEW i \in 1 .. n + 1, NEW B
    PROVE  \E j \in i .. n + 1 : (j <= n => j \notin B) /\ \A k \in i .. j - 1 : k \in B
<1> DEFINE T == {k \in i .. n + 1 : k <= n => k \notin B}
<1>1. T \in SUBSET Nat /\ n + 1 \in T OBVIOUS
<1>2. PICK j \in T : \A k \in T : j <= k BY <1>1, NatMin
<1>3. ASSUME NEW k \in i .. j - 1 PROVE k \in B
  <2>1. j \in i .. n + 1 BY <1>2
  <2>2. k \in i .. n + 1 /\ k < j BY <2>1
  <2>3. k \notin T BY <1>2, <2>1, <2>2
  <2> QED BY <2>2, <2>3
<1> QED BY <1>2, <1>3

\* The end of the first word.
LEMMA FirstWordEnd ==
    ASSUME NEW s \in Texts
    PROVE  RunEnd(s, 1, NotSpace) \in 1 .. Len(s) + 1
<1> DEFINE B == {k \in 1 .. Len(s) : s[k] # Space}
<1>1. Len(s) \in Nat BY DEF Texts
<1>2. \E j \in 1 .. Len(s) + 1 : (j <= Len(s) => j \notin B) /\ \A k \in 1 .. j - 1 : k \in B
  <2> HIDE DEF B
  <2>1. 1 \in 1 .. Len(s) + 1 BY <1>1
  <2> QED BY <1>1, <2>1, FirstOutside
<1>3. \E j \in 1 .. Len(s) + 1 : (j <= Len(s) => s[j] = Space) /\ \A k \in 1 .. j - 1 : s[k] # Space
  BY <1>1, <1>2
<1> QED BY <1>3 DEF RunEnd, NotSpace

LEMMA WordTexts ==
    ASSUME NEW s \in Texts
    PROVE  FirstWord(s) \in Texts /\ AfterFirst(s) \in Texts
<1> DEFINE j == RunEnd(s, 1, NotSpace)
<1>1. Len(s) \in Nat /\ j \in 1 .. Len(s) + 1 BY FirstWordEnd DEF Texts
<1> HIDE DEF j
<1>2. SubSeq(s, 1, j - 1) \in Texts /\ SubSeq(s, j, Len(s)) \in Texts BY <1>1, SubText
<1> QED BY <1>2, TrimText DEF FirstWord, AfterFirst, j

\* The parts of a word at its first equals sign.
LEMMA KeyParts ==
    ASSUME NEW C, NEW word \in Seq(C)
    PROVE  Key(word) \in Seq(C) /\ Value(word) \in Seq(C)
<1> DEFINE I == {i \in 1 .. Len(word) : word[i] = "="}
           p == SelectInSeq(word, LAMBDA c : c = "=")
<1>1. Len(word) \in Nat OBVIOUS
<1>2. p \in 0 .. Len(word)
  <2>1. p = IF I # {} THEN Min(I) ELSE 0 BY DEF SelectInSeq
  <2>2. I \in SUBSET Nat /\ I \in SUBSET (1 .. Len(word)) OBVIOUS
  <2> HIDE DEF I
  <2>3. I # {} => Min(I) \in I BY <2>2, MinOf
  <2> QED BY <1>1, <2>1, <2>2, <2>3
<1> HIDE DEF p
<1>3. SubSeq(word, 1, p - 1) \in Seq(C) /\ SubSeq(word, p + 1, Len(word)) \in Seq(C) BY <1>1, <1>2
<1> QED BY <1>3 DEF Key, Value, p

LEMMA KeyTexts ==
    ASSUME NEW word \in Texts
    PROVE  Key(word) \in Texts /\ Value(word) \in Texts
  BY KeyParts DEF Texts

\* The states of extractBuilderFlags in a text of n characters.
FlagStates(n) ==
    {st \in [phase : {"spaces", "word", "quote", "rest"}, word : Texts, blankOK : BOOLEAN, quote : Chars,
             esc : BOOLEAN, flags : Seq(Texts), rest : 0 .. n] : st.phase = "rest" => st.rest # 0}

LEMMA FlagCharTyped ==
    ASSUME NEW text \in Texts, NEW i \in 1 .. Len(text), NEW st \in FlagStates(Len(text))
    PROVE  FlagChar(text, st, i) \in FlagStates(Len(text))
<1> DEFINE c == text[i]
<1>1. c \in Chars /\ i \in 0 .. Len(text) /\ i # 0 /\ <<c>> \in Texts /\ <<>> \in Texts BY DEF Texts
<1> HIDE DEF c
<1>2. /\ st.word \in Texts /\ st.flags \in Seq(Texts) /\ Append(st.word, c) \in Texts
      /\ Append(st.flags, st.word) \in Seq(Texts) /\ (st.phase = "rest" => st.rest # 0)
  <2>1. st.word \in Texts /\ st.flags \in Seq(Texts) /\ (st.phase = "rest" => st.rest # 0) BY DEF FlagStates
  <2>2. Append(st.word, c) \in Texts BY <1>1, <2>1 DEF Texts
  <2> QED BY <2>1, <2>2
<1>3. EndFlag(st) \in FlagStates(Len(text)) BY <1>1, <1>2 DEF FlagStates, EndFlag
<1>4. /\ [st EXCEPT !.phase = "rest", !.rest = i] \in FlagStates(Len(text))
      /\ [st EXCEPT !.phase = "word", !.word = <<c>>] \in FlagStates(Len(text))
      /\ [st EXCEPT !.word = Append(@, c), !.esc = FALSE] \in FlagStates(Len(text))
      /\ [st EXCEPT !.phase = "quote", !.quote = c, !.blankOK = TRUE] \in FlagStates(Len(text))
      /\ [st EXCEPT !.phase = "word"] \in FlagStates(Len(text))
      /\ [st EXCEPT !.esc = TRUE] \in FlagStates(Len(text))
      /\ [st EXCEPT !.word = Append(@, c)] \in FlagStates(Len(text))
  BY <1>1, <1>2 DEF FlagStates
<1> QED BY <1>3, <1>4 DEF FlagChar, c

LEMMA FlagsRun ==
    ASSUME NEW text \in Texts
    PROVE  \E h \in [0 .. Len(text) -> FlagStates(Len(text))] :
               /\ h[0] = FlagState
               /\ \A i \in 1 .. Len(text) : h[i] = FlagChar(text, h[i - 1], i)
               /\ SplitFlags(text) = FlagsAndArgs(text, h[Len(text)])
<1> DEFINE n == Len(text)
           X == FlagStates(n)
           F == [i \in 1 .. n |-> [st \in X |-> FlagChar(text, st, i)]]
           Folds(f) == f = [S \in SUBSET (DOMAIN [i \in DOMAIN text |-> i]) |->
                              IF S = {} THEN FlagState
                              ELSE FlagChar(text, f[S \ {Max(S)}], [i \in DOMAIN text |-> i][Max(S)])]
           it == CHOOSE f : Folds(f)
<1>1. n \in Nat /\ DOMAIN text = 1 .. n /\ DOMAIN [i \in DOMAIN text |-> i] = 1 .. n BY DEF Texts
<1>2. SplitFlags(text) = FlagsAndArgs(text, it[1 .. n])
  BY <1>1 DEF SplitFlags, FoldLeftDomain, FoldLeft, MapThenFoldSet
<1>3. FlagState \in X
  <2>1. 0 \in 0 .. n /\ <<>> \in Texts /\ <<>> \in Seq(Texts) /\ Space \in Chars
    BY <1>1, CharFacts
  <2> HIDE DEF n
  <2> QED BY <2>1 DEF FlagStates, FlagState
<1>4. F \in Steps(X, n) BY FlagCharTyped DEF Steps
<1>5. \A S \in SUBSET (1 .. n) : S # {} => Max(S) \in 1 .. n BY <1>1, MaxOf
<1>6. \E f : Folds(f)
  <2>1. PICK g \in [SUBSET (1 .. n) -> X] : Takes(g, n, F, FlagState)
    <3> HIDE DEF X, F, n
    <3> QED BY <1>1, <1>3, <1>4, SubsetRecursion
  <2>2. \A S \in SUBSET (1 .. n) : g[S \ {Max(S)}] \in X OBVIOUS
  <2>3. \A S \in SUBSET (1 .. n) : S # {} =>
          F[Max(S)][g[S \ {Max(S)}]] = FlagChar(text, g[S \ {Max(S)}], [i \in DOMAIN text |-> i][Max(S)])
    <3> HIDE DEF X, n
    <3> QED BY <1>1, <1>5, <2>2
  <2>4. Folds(g)
    <3> HIDE DEF X, n, F
    <3> QED BY <1>1, <2>1, <2>3 DEF Takes
  <2> QED BY <2>4
<1>7. Folds(it) BY <1>6
<1>8. TakesIn(X, it, n, F, FlagState)
  <2>1. it[{}] = FlagState BY <1>7
  <2>2. \A S \in SUBSET (1 .. n) :
          S # {} /\ it[S \ {Max(S)}] \in X => it[S] = F[Max(S)][it[S \ {Max(S)}]]
    <3> HIDE DEF X, n, it
    <3> QED BY <1>1, <1>5, <1>7
  <2> HIDE DEF it, F, X
  <2> QED BY <2>1, <2>2 DEF TakesIn
<1>10. PICK h \in Runs(X, n, F, FlagState) : h[n] = it[1 .. n]
  <2> HIDE DEF X, n, F, it
  <2> QED BY <1>1, <1>3, <1>4, <1>8, FoldRuns
<1>11. h \in [0 .. n -> X] /\ h[0] = FlagState /\ \A i \in 1 .. n : h[i] = F[i][h[i - 1]]
  BY <1>10 DEF Runs
<1>12. \A i \in 1 .. n : h[i] = FlagChar(text, h[i - 1], i)
  <2>1. \A i \in 1 .. n : i - 1 \in 0 .. n BY <1>1
  <2> HIDE DEF X, n
  <2> QED BY <1>11, <2>1
<1> QED BY <1>2, <1>10, <1>11, <1>12

LEMMA FlagsTyped ==
    ASSUME NEW text \in Texts
    PROVE  SplitFlags(text).flags \in Seq(Texts) /\ SplitFlags(text).args \in Texts
<1> DEFINE n == Len(text)
<1>1. PICK h \in [0 .. n -> FlagStates(n)] : SplitFlags(text) = FlagsAndArgs(text, h[n])
  BY FlagsRun
<1>2. n \in Nat BY DEF Texts
<1> DEFINE st == h[n]
<1>3. st \in FlagStates(n) BY <1>1, <1>2
<1> HIDE DEF st
<1>4. /\ st.flags \in Seq(Texts) /\ st.rest \in 0 .. n /\ (st.phase = "rest" => st.rest # 0)
      /\ st.word \in Texts /\ EndFlag(st).flags \in Seq(Texts)
  <2>1. st.flags \in Seq(Texts) /\ st.rest \in 0 .. n /\ (st.phase = "rest" => st.rest # 0) /\ st.word \in Texts
    BY <1>3 DEF FlagStates
  <2>2. DOMAIN st = {"phase", "word", "blankOK", "quote", "esc", "flags", "rest"} BY <1>3 DEF FlagStates
  <2>3. Append(st.flags, st.word) \in Seq(Texts) BY <2>1
  <2>4. EndFlag(st).flags \in {st.flags, Append(st.flags, st.word)} BY <2>2 DEF EndFlag
  <2> QED BY <2>1, <2>3, <2>4
<1>5. st.phase = "rest" => Trim(SubSeq(text, st.rest, n)) \in Texts
  BY <1>2, <1>4, SubText, TrimText
<1>6. <<>> \in Texts BY CharFacts
<1>7. SplitFlags(text) = FlagsAndArgs(text, st) BY <1>1 DEF st
<1>8. CASE st.phase = "rest"
  <2>1. SplitFlags(text) = [flags |-> st.flags, args |-> Trim(SubSeq(text, st.rest, n))]
    BY <1>7, <1>8 DEF FlagsAndArgs
  <2> QED BY <1>4, <1>5, <1>8, <2>1
<1>9. CASE st.phase # "rest"
  <2>1. SplitFlags(text) = [flags |-> IF st.word = DashDash THEN st.flags ELSE EndFlag(st).flags, args |-> <<>>]
    BY <1>7, <1>9 DEF FlagsAndArgs
  <2> QED BY <1>4, <1>6, <2>1
<1> QED BY <1>8, <1>9

\* The states of parseWords.
WordStates ==
    [phase : {"spaces", "word", "quote"}, word : Texts, quote : Chars, esc : BOOLEAN, words : Seq(Texts)]

LEMMA WordCharTyped ==
    ASSUME NEW escape \in Chars, NEW c \in Chars, NEW st \in WordStates
    PROVE  WordChar(escape, st, c) \in WordStates /\ EndWord(st) \in Seq(Texts)
<1>1. /\ st.word \in Texts /\ st.words \in Seq(Texts) /\ Append(st.word, c) \in Texts
      /\ Append(st.words, st.word) \in Seq(Texts) /\ st.word \o <<escape, c>> \in Texts
  BY DEF WordStates, Texts
<1>2. EndWord(st) \in Seq(Texts) BY <1>1 DEF EndWord
<1>3. [WordState EXCEPT !.words = EndWord(st)] \in WordStates
  <2>1. Space \in Chars /\ <<>> \in Texts BY CharFacts
  <2> QED BY <1>2, <2>1 DEF WordState, WordStates
<1>4. /\ [st EXCEPT !.word = @ \o <<escape, c>>, !.esc = FALSE] \in WordStates
      /\ [st EXCEPT !.esc = TRUE, !.phase = IF @ = "spaces" THEN "word" ELSE @] \in WordStates
      /\ [st EXCEPT !.word = Append(@, c), !.phase = "quote", !.quote = c] \in WordStates
      /\ [st EXCEPT !.word = Append(@, c), !.phase = "word"] \in WordStates
      /\ [st EXCEPT !.word = Append(@, c), !.phase = IF @ = "spaces" THEN "word" ELSE @] \in WordStates
  BY <1>1 DEF WordStates
<1> QED BY <1>2, <1>3, <1>4 DEF WordChar

LEMMA WordsRun ==
    ASSUME NEW text \in Texts, NEW escape \in Chars
    PROVE  \E h \in [0 .. Len(text) -> WordStates] :
               /\ h[0] = WordState
               /\ \A i \in 1 .. Len(text) : h[i] = WordChar(escape, h[i - 1], text[i])
               /\ ParseWords(text, escape) = EndWord(h[Len(text)])
<1> DEFINE n == Len(text)
           X == WordStates
           F == [i \in 1 .. n |-> [st \in X |-> WordChar(escape, st, text[i])]]
           Folds(f) == f = [S \in SUBSET (DOMAIN text) |->
                              IF S = {} THEN WordState
                              ELSE WordChar(escape, f[S \ {Max(S)}], text[Max(S)])]
           it == CHOOSE f : Folds(f)
<1>1. n \in Nat /\ DOMAIN text = 1 .. n /\ \A i \in 1 .. n : text[i] \in Chars BY DEF Texts
<1>2. ParseWords(text, escape) = EndWord(it[1 .. n])
  BY <1>1 DEF ParseWords, FoldLeft, MapThenFoldSet
<1>3. WordState \in X
  <2>1. <<>> \in Texts /\ <<>> \in Seq(Texts) /\ Space \in Chars BY CharFacts
  <2> QED BY <2>1 DEF WordStates, WordState
<1>4. F \in Steps(X, n)
  <2> HIDE DEF n
  <2> QED BY <1>1, WordCharTyped DEF Steps
<1>5. \A S \in SUBSET (1 .. n) : S # {} => Max(S) \in 1 .. n BY <1>1, MaxOf
<1>6. \E f : Folds(f)
  <2>1. PICK g \in [SUBSET (1 .. n) -> X] : Takes(g, n, F, WordState)
    <3> HIDE DEF X, F, n
    <3> QED BY <1>1, <1>3, <1>4, SubsetRecursion
  <2>2. \A S \in SUBSET (1 .. n) : g[S \ {Max(S)}] \in X OBVIOUS
  <2>3. \A S \in SUBSET (1 .. n) : S # {} =>
          F[Max(S)][g[S \ {Max(S)}]] = WordChar(escape, g[S \ {Max(S)}], text[Max(S)])
    <3> HIDE DEF X, n
    <3> QED BY <1>5, <2>2
  <2>4. Folds(g)
    <3> HIDE DEF X, n, F
    <3> QED BY <1>1, <2>1, <2>3 DEF Takes
  <2> QED BY <2>4
<1>7. Folds(it) BY <1>6
<1>8. TakesIn(X, it, n, F, WordState)
  <2>1. it[{}] = WordState BY <1>7
  <2>2. \A S \in SUBSET (1 .. n) :
          S # {} /\ it[S \ {Max(S)}] \in X => it[S] = F[Max(S)][it[S \ {Max(S)}]]
    <3> HIDE DEF X, n, it
    <3> QED BY <1>1, <1>5, <1>7
  <2> HIDE DEF it, F, X
  <2> QED BY <2>1, <2>2 DEF TakesIn
<1>9. PICK h \in Runs(X, n, F, WordState) : h[n] = it[1 .. n]
  <2> HIDE DEF X, n, F, it
  <2> QED BY <1>1, <1>3, <1>4, <1>8, FoldRuns
<1>10. h \in [0 .. n -> X] /\ h[0] = WordState /\ \A i \in 1 .. n : h[i] = F[i][h[i - 1]]
  BY <1>9 DEF Runs
<1>11. \A i \in 1 .. n : h[i] = WordChar(escape, h[i - 1], text[i])
  <2>1. \A i \in 1 .. n : i - 1 \in 0 .. n BY <1>1
  <2> HIDE DEF X, n
  <2> QED BY <1>10, <2>1
<1> QED BY <1>2, <1>9, <1>10, <1>11

LEMMA WordsTyped ==
    ASSUME NEW text \in Texts, NEW escape \in Chars
    PROVE  ParseWords(text, escape) \in Seq(Texts)
<1>1. PICK h \in [0 .. Len(text) -> WordStates] : ParseWords(text, escape) = EndWord(h[Len(text)])
  BY WordsRun
<1>2. h[Len(text)] \in WordStates BY <1>1 DEF Texts
<1> QED BY <1>1, <1>2, CharFacts, WordCharTyped

LEMMA Concat ==
    ASSUME NEW S, NEW s \in Seq(S), NEW t \in Seq(S)
    PROVE  /\ s \o t \in Seq(S) /\ Len(s \o t) = Len(s) + Len(t)
           /\ \A k \in 1 .. Len(s) : (s \o t)[k] = s[k]
           /\ \A k \in 1 .. Len(t) : (s \o t)[Len(s) + k] = t[k]
  OBVIOUS

\* Flattening sequences puts them behind each other, one by one.
FlattensTo(seqs, h) ==
    /\ h[0] = <<>> /\ FlattenSeq(seqs) = h[Len(seqs)]
    /\ \A i \in 1 .. Len(seqs) : h[i] = h[i - 1] \o seqs[i]

LEMMA FlattenRuns ==
    ASSUME NEW S, NEW seqs \in Seq(Seq(S))
    PROVE  \E h \in [0 .. Len(seqs) -> Seq(S)] : FlattensTo(seqs, h)
<1> DEFINE n == Len(seqs)
           X == Seq(S)
           b == <<>>
           Flattens(f) == f = [i \in 1 .. n |-> IF i = 1 THEN seqs[i] ELSE f[i - 1] \o seqs[i]]
           F == [i \in 1 .. n |-> [x \in X |-> x \o seqs[i]]]
           f == CHOOSE f : Flattens(f)
<1>1. n \in Nat /\ b \in X /\ (\A i \in 1 .. n : seqs[i] \in X) /\ (n = 0 => seqs = b) OBVIOUS
<1>2. FlattenSeq(seqs) = IF n = 0 THEN b ELSE f[n]
  BY <1>1 DEF FlattenSeq
<1>3. \A i \in 1 .. n : \A x \in X : x \o seqs[i] \in X BY <1>1
<1>4. \A i \in 1 .. n : b \o seqs[i] = seqs[i] BY <1>1
<1> HIDE DEF n, X, b
<1>5. F \in Steps(X, n) BY <1>3 DEF Steps
<1>6. PICK h : h \in Runs(X, n, F, b)
  <2> HIDE DEF F
  <2> QED BY <1>1, <1>5, Recursion
<1>7. h \in [0 .. n -> X] /\ h[0] = b /\ \A i \in 1 .. n : h[i] = F[i][h[i - 1]]
  BY <1>6 DEF Runs
<1>8. \A i \in 1 .. n : i - 1 \in 0 .. n /\ h[i - 1] \in X /\ h[i] = h[i - 1] \o seqs[i]
  <2>1. \A i \in 1 .. n : i - 1 \in 0 .. n BY <1>1
  <2> QED BY <1>7, <2>1
<1>9. Flattens([i \in 1 .. n |-> h[i]])
  <2>1. \A i \in 1 .. n : i # 1 => i - 1 \in 1 .. n BY <1>1
  <2>2. 1 \in 1 .. n => h[1] = seqs[1]
    <3> SUFFICES ASSUME 1 \in 1 .. n PROVE h[1] = seqs[1]
      OBVIOUS
    <3>1. h[1] = h[1 - 1] \o seqs[1] BY <1>8
    <3>2. h[1 - 1] = b BY <1>7
    <3> QED BY <1>4, <3>1, <3>2
  <2> HIDE DEF F
  <2> QED BY <1>8, <2>1, <2>2
<1>10. Flattens(f) BY <1>9
<1> DEFINE T == {i \in 0 .. n : i # 0 => f[i] = h[i]}
<1>11. 0 \in T BY <1>1
<1>12. ASSUME NEW i \in 1 .. n, i - 1 \in T PROVE i \in T
  <2> SUFFICES f[i] = h[i] BY <1>1
  <2>1. f[i] = IF i = 1 THEN seqs[i] ELSE f[i - 1] \o seqs[i] BY <1>10
  <2>2. CASE i = 1
    <3>1. h[i] = h[i - 1] \o seqs[i] BY <1>8
    <3>2. h[i - 1] = b BY <1>7, <2>2
    <3>3. h[i] = seqs[i] BY <1>4, <3>1, <3>2
    <3> HIDE DEF f
    <3> QED BY <2>1, <2>2, <3>3
  <2>3. CASE i # 1
    <3>1. f[i - 1] = h[i - 1] BY <1>1, <1>12, <2>3
    <3> QED BY <1>8, <2>1, <2>3, <3>1
  <2> QED BY <2>2, <2>3
<1> HIDE DEF T, f
<1>13. 0 .. n \subseteq T BY <1>1, <1>11, <1>12, SetInduction
<1>14. FlattenSeq(seqs) = h[n]
  <2>1. n # 0 => f[n] = h[n] BY <1>1, <1>13 DEF T
  <2> QED BY <1>2, <1>7, <2>1
<1> QED BY <1>7, <1>8, <1>14 DEF FlattensTo, n, X, b

LEMMA FlattenTyped ==
    ASSUME NEW S, NEW seqs \in Seq(Seq(S))
    PROVE  FlattenSeq(seqs) \in Seq(S)
<1>1. PICK h \in [0 .. Len(seqs) -> Seq(S)] : FlattensTo(seqs, h) BY FlattenRuns
<1> QED BY <1>1 DEF FlattensTo

\* One more sequence comes behind all the others.
LEMMA FlattenAppend ==
    ASSUME NEW S, NEW seqs \in Seq(Seq(S)), NEW s \in Seq(S)
    PROVE  FlattenSeq(Append(seqs, s)) = FlattenSeq(seqs) \o s
<1> DEFINE n == Len(seqs)
           more == Append(seqs, s)
<1>1. /\ n \in Nat /\ more \in Seq(Seq(S)) /\ Len(more) = n + 1
      /\ \A i \in 1 .. n : more[i] = seqs[i]
      /\ more[n + 1] = s
  OBVIOUS
<1> HIDE DEF more
<1>2. PICK h \in [0 .. n -> Seq(S)] : FlattensTo(seqs, h) BY FlattenRuns
<1>3. PICK g \in [0 .. n + 1 -> Seq(S)] : FlattensTo(more, g) BY <1>1, FlattenRuns
<1> HIDE DEF n
<1> DEFINE T == {i \in 0 .. n : g[i] = h[i]}
<1>4. 0 \in T BY <1>1, <1>2, <1>3 DEF FlattensTo
<1>5. ASSUME NEW i \in 1 .. n, i - 1 \in T PROVE i \in T
  <2>1. i \in 1 .. n + 1 BY <1>1
  <2>2. g[i] = g[i - 1] \o more[i] BY <1>1, <1>3, <2>1 DEF FlattensTo
  <2>3. h[i] = h[i - 1] \o seqs[i] BY <1>2 DEF FlattensTo, n
  <2>4. g[i - 1] = h[i - 1] /\ more[i] = seqs[i] BY <1>1, <1>5
  <2>5. g[i] = h[i] BY <2>2, <2>3, <2>4
  <2>6. i \in 0 .. n BY <1>1
  <2> QED BY <2>5, <2>6
<1> HIDE DEF T
<1>6. n \in T
  <2>1. 0 .. n \subseteq T BY <1>1, <1>4, <1>5, SetInduction
  <2> QED BY <1>1, <2>1
<1>7. g[n + 1] = g[n] \o s
  <2>1. n + 1 \in 1 .. n + 1 /\ (n + 1) - 1 = n BY <1>1
  <2> QED BY <1>1, <1>3, <2>1 DEF FlattensTo
<1> QED BY <1>1, <1>2, <1>3, <1>6, <1>7 DEF T, FlattensTo, n, more

\* Flattened pairs are twice as many, each in its place.
LEMMA FlattenPairs ==
    ASSUME NEW S, NEW seqs \in Seq(Seq(S)), \A i \in DOMAIN seqs : Len(seqs[i]) = 2
    PROVE  /\ FlattenSeq(seqs) \in Seq(S) /\ Len(FlattenSeq(seqs)) = 2 * Len(seqs)
           /\ \A i \in DOMAIN seqs : /\ FlattenSeq(seqs)[2 * i - 1] = seqs[i][1]
                                     /\ FlattenSeq(seqs)[2 * i] = seqs[i][2]
<1> DEFINE n == Len(seqs)
<1>1. n \in Nat /\ DOMAIN seqs = 1 .. n /\ \A i \in 1 .. n : seqs[i] \in Seq(S) /\ Len(seqs[i]) = 2 OBVIOUS
<1>2. PICK h \in [0 .. n -> Seq(S)] : FlattensTo(seqs, h) BY FlattenRuns
<1> DEFINE T == {i \in 0 .. n : /\ Len(h[i]) = 2 * i
                               /\ \A k \in 1 .. i : h[i][2 * k - 1] = seqs[k][1] /\ h[i][2 * k] = seqs[k][2]}
<1>3. 0 \in T BY <1>1, <1>2 DEF FlattensTo
<1>4. ASSUME NEW i \in 1 .. n, i - 1 \in T PROVE i \in T
  <2>1. h[i] = h[i - 1] \o seqs[i] BY <1>2 DEF FlattensTo
  <2>2. h[i - 1] \in Seq(S) /\ seqs[i] \in Seq(S) /\ Len(h[i - 1]) = 2 * (i - 1) /\ Len(seqs[i]) = 2
    <3>1. i - 1 \in 0 .. n BY <1>1
    <3> QED BY <1>1, <1>2, <1>4, <3>1
  <2> HIDE DEF n
  <2>0. /\ Len(h[i]) = Len(h[i - 1]) + 2
        /\ \A k \in 1 .. Len(h[i - 1]) : h[i][k] = h[i - 1][k]
        /\ \A k \in 1 .. 2 : h[i][Len(h[i - 1]) + k] = seqs[i][k]
    <3> DEFINE s == h[i - 1]
               t == seqs[i]
    <3>1. s \in Seq(S) /\ t \in Seq(S) BY <2>2
    <3>0. Len(t) = 2 BY <2>2
    <3>2. h[i] = s \o t BY <2>1
    <3> HIDE DEF s, t
    <3>3. Len(s \o t) = Len(s) + Len(t) BY <3>1, Concat
    <3>4. \A k \in 1 .. Len(s) : (s \o t)[k] = s[k] BY <3>1, Concat
    <3>5. \A k \in 1 .. Len(t) : (s \o t)[Len(s) + k] = t[k] BY <3>1, Concat
    <3>6. /\ Len(h[i]) = Len(s) + 2
          /\ \A k \in 1 .. Len(s) : h[i][k] = s[k]
          /\ \A k \in 1 .. 2 : h[i][Len(s) + k] = t[k]
      BY <3>0, <3>2, <3>3, <3>4, <3>5
    <3> QED BY <3>6 DEF s, t
  <2>3. Len(h[i]) = 2 * i BY <1>1, <2>0, <2>2
  <2>4. ASSUME NEW k \in 1 .. i PROVE h[i][2 * k - 1] = seqs[k][1] /\ h[i][2 * k] = seqs[k][2]
    <3>1. CASE k = i
      <4>1. 2 * k - 1 = Len(h[i - 1]) + 1 /\ 2 * k = Len(h[i - 1]) + 2 BY <1>1, <2>2, <3>1
      <4>2. h[i][Len(h[i - 1]) + 1] = seqs[i][1] /\ h[i][Len(h[i - 1]) + 2] = seqs[i][2] BY <2>0
      <4> QED BY <3>1, <4>1, <4>2
    <3>2. CASE k # i
      <4>1. k \in 1 .. i - 1 BY <1>1, <3>2
      <4>2. 2 * k - 1 \in 1 .. Len(h[i - 1]) /\ 2 * k \in 1 .. Len(h[i - 1]) BY <1>1, <2>2, <4>1
      <4>3. h[i][2 * k - 1] = h[i - 1][2 * k - 1] /\ h[i][2 * k] = h[i - 1][2 * k] BY <2>0, <4>2
      <4> QED BY <1>4, <4>1, <4>3
    <3> QED BY <3>1, <3>2
  <2> QED BY <1>1, <2>3, <2>4
<1> HIDE DEF T
<1>5. n \in T
  <2> HIDE DEF n
  <2>1. 0 .. n \subseteq T BY <1>1, <1>3, <1>4, SetInduction
  <2> QED BY <1>1, <2>1
<1>6. FlattenSeq(seqs) = h[n] /\ h[n] \in Seq(S) BY <1>1, <1>2 DEF FlattensTo
<1> QED BY <1>1, <1>5, <1>6 DEF T

-----------------------------------------------------------------------------
(* The nodes of ENV and ARG                                                *)

LEMMA NameValTyped ==
    ASSUME NEW rest \in Texts, NEW words \in Seq(Texts)
    PROVE  ParseNameVal(rest, words).args \in Seq(Texts)
<1> DEFINE pairs == [i \in DOMAIN words |-> <<Key(words[i]), Value(words[i])>>]
<1>1. Args(<<>>).args \in Seq(Texts) /\ BadLine.args \in Seq(Texts) BY DEF Args, BadLine
<1>2. Args(<<FirstWord(rest), AfterFirst(rest)>>).args \in Seq(Texts) BY WordTexts DEF Args
<1>3. Args(FlattenSeq(pairs)).args \in Seq(Texts)
  <2>1. pairs \in Seq(Seq(Texts))
    <3>1. \A i \in DOMAIN words : <<Key(words[i]), Value(words[i])>> \in Seq(Texts) BY KeyTexts
    <3>2. DOMAIN words = 1 .. Len(words) /\ Len(words) \in Nat OBVIOUS
    <3> DEFINE X == Seq(Texts)
               f(i) == <<Key(words[i]), Value(words[i])>>
    <3>3. \A i \in 1 .. Len(words) : f(i) \in X BY <3>1, <3>2
    <3>4. pairs = [i \in 1 .. Len(words) |-> f(i)] BY <3>2
    <3> HIDE DEF X, f, pairs
    <3>5. pairs \in Seq(X) BY <3>2, <3>3, <3>4
    <3> QED BY <3>5 DEF X
  <2> HIDE DEF pairs
  <2>2. FlattenSeq(pairs) \in Seq(Texts) BY <2>1, FlattenTyped
  <2> QED BY <2>2 DEF Args
<1> HIDE DEF pairs
<1>4. ParseNameVal(rest, words) \in
        {Args(<<>>), BadLine, Args(<<FirstWord(rest), AfterFirst(rest)>>), Args(FlattenSeq(pairs))}
  BY DEF ParseNameVal, pairs
<1> QED BY <1>1, <1>2, <1>3, <1>4

\* What the dispatch of a line needs to know of its node.
Node(node) ==
    /\ node.flags \in Seq(Texts)
    /\ node.cmd \in {"env", "arg"} => node.args \in Seq(Texts)

LEMMA NodeTyped ==
    ASSUME NEW line \in Texts, NEW escape \in Chars
    PROVE  Node(NewNodeFromLine(line, escape))
<1> DEFINE Sub(rest) == ParseSubCommand(rest, escape)
           text == Trim(line)
           cmd == CommandOf(FirstWord(text))
           split == SplitFlags(AfterFirst(text))
           parsed == ParseArgs(cmd, split.args, escape, Sub)
           node == NewNodeFromLine(line, escape)
<1>1. node.cmd = cmd /\ node.flags = split.flags /\ node.args = parsed.args
  BY DEF NewNodeFromLine, NodeFromLine
<1>2. split.flags \in Seq(Texts) /\ split.args \in Texts
  <2>1. AfterFirst(text) \in Texts BY TrimText, WordTexts
  <2> QED BY <2>1, FlagsTyped
<1>3. ParseWords(split.args, escape) \in Seq(Texts) BY <1>2, WordsTyped
<1> HIDE DEF node, cmd, split
<1>4. CASE cmd = "env"
  <2>1. parsed = ParseNameVal(split.args, ParseWords(split.args, escape)) BY <1>4 DEF ParseArgs
  <2> QED BY <1>1, <1>2, <1>3, <2>1, NameValTyped DEF Node, node
<1>5. CASE cmd = "arg"
  <2>1. parsed = ParseNameOrNameVal(split.args, escape) BY <1>5 DEF ParseArgs
  <2>2. parsed.args = ParseWords(split.args, escape) BY <2>1 DEF ParseNameOrNameVal, Args
  <2> QED BY <1>1, <1>2, <1>3, <2>2 DEF Node, node
<1>6. CASE cmd \notin {"env", "arg"} BY <1>1, <1>2, <1>6 DEF Node, node
<1> QED BY <1>4, <1>5, <1>6

-----------------------------------------------------------------------------
(* Sequences of whatever they have                                         *)

LEMMA SequenceFacts ==
    ASSUME NEW s, Sequence(s)
    PROVE  Len(s) \in Nat /\ DOMAIN s = 1 .. Len(s)
  BY DEF Sequence

LEMMA SequenceFrom ==
    ASSUME NEW S, NEW s \in Seq(S)
    PROVE  Sequence(s)
<1> DEFINE T == ToSet(s)
<1>1. Len(s) \in Nat /\ DOMAIN s = 1 .. Len(s) /\ s = [i \in 1 .. Len(s) |-> s[i]] OBVIOUS
<1>2. \A i \in 1 .. Len(s) : s[i] \in T BY <1>1 DEF ToSet
<1> HIDE DEF T
<1>3. s \in Seq(T) BY <1>1, <1>2
<1> QED BY <1>3 DEF Sequence, T

LEMMA SequenceOf ==
    ASSUME NEW n \in Nat, NEW s, DOMAIN s = 1 .. n, s = [i \in DOMAIN s |-> s[i]]
    PROVE  Sequence(s) /\ Len(s) = n
<1> DEFINE T == ToSet(s)
<1>1. s = [i \in 1 .. n |-> s[i]] OBVIOUS
<1>2. \A i \in 1 .. n : s[i] \in T BY DEF ToSet
<1> HIDE DEF T
<1>3. s \in Seq(T) /\ Len(s) = n BY <1>1, <1>2
<1> QED BY <1>3 DEF Sequence, T

LEMMA SequenceEmpty == Sequence(<<>>) /\ Len(<<>>) = 0
<1>1. <<>> \in Seq(Nat) OBVIOUS
<1> QED BY <1>1, SequenceFrom

LEMMA SequenceAppend ==
    ASSUME NEW s, NEW x, Sequence(s)
    PROVE  /\ Sequence(Append(s, x)) /\ Len(Append(s, x)) = Len(s) + 1 /\ Append(s, x) # <<>>
           /\ \A i \in 1 .. Len(s) : Append(s, x)[i] = s[i]
           /\ Append(s, x)[Len(s) + 1] = x
<1> DEFINE T == ToSet(s) \cup {x}
<1>1. s \in Seq(T) /\ x \in T BY DEF Sequence
<1> HIDE DEF T
<1>2. /\ Append(s, x) \in Seq(T) /\ Len(Append(s, x)) = Len(s) + 1 /\ Append(s, x) # <<>>
      /\ \A i \in 1 .. Len(s) : Append(s, x)[i] = s[i]
      /\ Append(s, x)[Len(s) + 1] = x
  BY <1>1
<1> QED BY <1>2, SequenceFrom

LEMMA SequenceConcat ==
    ASSUME NEW s, NEW t, Sequence(s), Sequence(t)
    PROVE  /\ Sequence(s \o t) /\ Len(s \o t) = Len(s) + Len(t)
           /\ \A i \in 1 .. Len(s) : (s \o t)[i] = s[i]
           /\ \A i \in 1 .. Len(t) : (s \o t)[Len(s) + i] = t[i]
<1> DEFINE T == ToSet(s) \cup ToSet(t)
<1>1. s \in Seq(T) /\ t \in Seq(T) BY DEF Sequence
<1> HIDE DEF T
<1>2. s \o t \in Seq(T) /\ Len(s \o t) = Len(s) + Len(t) BY <1>1
<1>3. \A i \in 1 .. Len(s) : (s \o t)[i] = s[i] BY <1>1, Concat
<1>4. \A i \in 1 .. Len(t) : (s \o t)[Len(s) + i] = t[i] BY <1>1, Concat
<1>5. Sequence(s \o t) BY <1>2, SequenceFrom
<1> QED BY <1>2, <1>3, <1>4, <1>5

\* A sequence whose elements all change in place stays one.
LEMMA SequenceExcept ==
    ASSUME NEW s, Sequence(s), NEW k, NEW x
    PROVE  LET t == [s EXCEPT ![k] = x]
           IN  /\ Sequence(t) /\ Len(t) = Len(s)
               /\ \A i \in 1 .. Len(s) : t[i] = IF i = k THEN x ELSE s[i]
<1> DEFINE t == [s EXCEPT ![k] = x]
<1>1. Len(s) \in Nat /\ DOMAIN s = 1 .. Len(s) BY SequenceFacts
<1>2. DOMAIN t = 1 .. Len(s) /\ t = [i \in DOMAIN t |-> t[i]] BY <1>1
<1>3. \A i \in 1 .. Len(s) : t[i] = IF i = k THEN x ELSE s[i] BY <1>1
<1> HIDE DEF t
<1>4. Sequence(t) /\ Len(t) = Len(s) BY <1>1, <1>2, SequenceOf
<1> QED BY <1>3, <1>4 DEF t

-----------------------------------------------------------------------------
(* ENV and ARG, when they are dispatched                                   *)

\* what the folds over the assignments of an instruction leave
LEMMA EnvIsAssign ==
    ASSUME NEW e, Environment(e), NEW ins, NEW n \in Nat, Len(ins.words) \div 2 = n
    PROVE  AfterEnv(e, ins) = AssignIn(e, [i \in 1 .. n |-> KV(ins.words[2 * i - 1], ins.words[2 * i])], 1 .. n)
<1> DEFINE kvs == [i \in 1 .. n |-> KV(ins.words[2 * i - 1], ins.words[2 * i])]
           ids == [i \in 1 .. Len(ins.words) \div 2 |-> i]
           it == CHOOSE it : it = [S \in SUBSET (DOMAIN ids) |->
                    IF S = {} THEN e
                    ELSE Define(it[S \ {Max(S)}], ins.words[2 * ids[Max(S)] - 1], ins.words[2 * ids[Max(S)]])]
<1>1. AfterEnv(e, ins) = it[DOMAIN ids]
  BY DEF AfterEnv, FoldLeft, MapThenFoldSet
<1>2. Pairs(kvs, n) BY DEF Pairs, KV
<1>3. ASSUME NEW f, NEW S \in SUBSET (1 .. n), S # {}
      PROVE  Define(f[S \ {Max(S)}], ins.words[2 * ids[Max(S)] - 1], ins.words[2 * ids[Max(S)]])
               = Put(f[S \ {Max(S)}], kvs[Max(S)])
  <2>1. Max(S) \in 1 .. n BY <1>3, MaxOf
  <2> QED BY <2>1 DEF Put, KV
<1>4. DOMAIN ids = 1 .. n OBVIOUS
<1> HIDE DEF ids, kvs
<1>5. \A f : FoldsPuts(f, e, kvs, n) <=>
              f = [S \in SUBSET (DOMAIN ids) |->
                    IF S = {} THEN e
                    ELSE Define(f[S \ {Max(S)}], ins.words[2 * ids[Max(S)] - 1], ins.words[2 * ids[Max(S)]])]
  BY <1>3, <1>4 DEF FoldsPuts
<1>6. \E f : FoldsPuts(f, e, kvs, n) BY <1>2, PutsExist
<1>7. FoldsPuts(it, e, kvs, n) BY <1>5, <1>6
<1> HIDE DEF it
<1>8. it[1 .. n] = AssignIn(e, kvs, 1 .. n) BY <1>2, <1>7, PutsAssign
<1> QED BY <1>1, <1>4, <1>8 DEF kvs

ArgValues(ins) == [i \in DOMAIN ins.sets |-> ArgValue(ArgPairs(ins)[i], optMetaArgs, file.buildArgs)]

LEMMA ArgIsAssign ==
    ASSUME NEW e, Environment(e), NEW ins, NEW n \in Nat, DOMAIN ins.sets = 1 .. n, Pairs(ArgValues(ins), n)
    PROVE  AfterArg(e, ins) = AssignIn(e, ArgValues(ins), 1 .. n)
<1> DEFINE kvs == ArgValues(ins)
           args == ArgPairs(ins)
           Add(acc, arg) == LET a == ArgValue(arg, optMetaArgs, file.buildArgs)
                            IN  IF a.set THEN Define(acc, a.key, a.value) ELSE acc
           it == CHOOSE it : it = [S \in SUBSET (DOMAIN args) |->
                    IF S = {} THEN e ELSE Add(it[S \ {Max(S)}], args[Max(S)])]
<1>1. AfterArg(e, ins) = it[DOMAIN args]
  BY DEF AfterArg, FoldLeft, MapThenFoldSet
<1>2. DOMAIN args = 1 .. n BY DEF ArgPairs
<1>3. ASSUME NEW f, NEW S \in SUBSET (1 .. n), S # {}
      PROVE  Add(f[S \ {Max(S)}], args[Max(S)]) = Put(f[S \ {Max(S)}], kvs[Max(S)])
  <2>1. Max(S) \in 1 .. n BY <1>3, MaxOf
  <2>2. kvs[Max(S)] = ArgValue(args[Max(S)], optMetaArgs, file.buildArgs) BY <2>1 DEF ArgValues
  <2> QED BY <2>2 DEF Put
<1> HIDE DEF args, kvs, Add
<1>4. \A f : FoldsPuts(f, e, kvs, n) <=>
              f = [S \in SUBSET (DOMAIN args) |->
                    IF S = {} THEN e ELSE Add(f[S \ {Max(S)}], args[Max(S)])]
  BY <1>2, <1>3 DEF FoldsPuts
<1>5. \E f : FoldsPuts(f, e, kvs, n)
  <2>1. Pairs(kvs, n) BY DEF kvs
  <2> QED BY <2>1, PutsExist
<1>6. FoldsPuts(it, e, kvs, n) BY <1>4, <1>5
<1> HIDE DEF it
<1>7. it[1 .. n] = AssignIn(e, kvs, 1 .. n)
  <2>1. Pairs(kvs, n) BY DEF kvs
  <2> QED BY <1>6, <2>1, PutsAssign
<1> QED BY <1>1, <1>2, <1>7 DEF kvs

LEMMA ArgWordsPaired ==
    ASSUME NEW args \in Seq(Texts)
    PROVE  Sequence(ArgWords(args)) /\ Len(ArgWords(args)) = 2 * Len(args)
<1> DEFINE pair(i) == IF HasEq(args[i]) THEN <<Key(args[i]), Value(args[i])>> ELSE <<args[i], <<>>>>
           pairs == [i \in DOMAIN args |-> pair(i)]
           n == Len(args)
           X == Seq(Texts)
<1>1. DOMAIN args = 1 .. n /\ n \in Nat OBVIOUS
<1>2. \A i \in 1 .. n : pair(i) \in X /\ Len(pair(i)) = 2
  <2> SUFFICES ASSUME NEW i \in 1 .. n PROVE pair(i) \in X /\ Len(pair(i)) = 2
    OBVIOUS
  <2>1. args[i] \in Texts BY <1>1
  <2>2. Key(args[i]) \in Texts /\ Value(args[i]) \in Texts /\ <<>> \in Texts BY <2>1, KeyTexts, CharFacts
  <2> QED BY <2>1, <2>2
<1>3. pairs = [i \in 1 .. n |-> pair(i)] BY <1>1
<1>4. ArgWords(args) = FlattenSeq(pairs) BY DEF ArgWords
<1> HIDE DEF pair, pairs, n, X
<1>5. pairs \in Seq(X) /\ Len(pairs) = n BY <1>1, <1>2, <1>3
<1>6. \A i \in DOMAIN pairs : Len(pairs[i]) = 2 BY <1>2, <1>3
<1>7. FlattenSeq(pairs) \in Seq(Texts) /\ Len(FlattenSeq(pairs)) = 2 * n
  BY <1>5, <1>6, FlattenPairs DEF X
<1> QED BY <1>4, <1>7, SequenceFrom DEF n

LEMMA InstructionName ==
    ASSUME NEW node
    PROVE  LET ins == ParseInstruction(node)
           IN  /\ ins = NoInstruction \/ \E flags : ins = Instruction(node, flags)
               /\ ins.ok => ins.name = node.cmd
               /\ ins.name \in {"env", "arg", "from", "run"} => ins.ok
               /\ ins.ok \in BOOLEAN
<1> DEFINE ins == ParseInstruction(node)
<1>1. ins = NoInstruction \/ \E flags : ins = Instruction(node, flags) BY DEF ParseInstruction
<1>2. CASE ins = NoInstruction BY <1>2 DEF NoInstruction
<1>3. ASSUME NEW flags, ins = Instruction(node, flags) PROVE ins.ok = TRUE /\ ins.name = node.cmd
  BY <1>3 DEF Instruction, InstructionWith
<1> HIDE DEF ins
<1> QED BY <1>1, <1>2, <1>3 DEF ins

LEMMA CommandOfNode ==
    ASSUME NEW node, Node(node)
    PROVE  IsCommand(ParseInstruction(node))
<1> DEFINE ins == ParseInstruction(node)
<1>1. CASE ins = NoInstruction BY <1>1 DEF NoInstruction, IsCommand, InstructionFields
<1>2. ASSUME NEW flags, ins = Instruction(node, flags) PROVE IsCommand(ins)
  <2>1. DOMAIN ins = InstructionFields /\ ins.name = node.cmd
    BY <1>2 DEF Instruction, InstructionWith, InstructionFields
  <2>2. CASE node.cmd = "env"
    <3>1. ins.words = node.args
      BY <1>2, <2>2 DEF Instruction, InstructionWith, WordsOf
    <3>2. node.args \in Seq(Texts) BY <2>2 DEF Node
    <3> QED BY <2>1, <2>2, <3>1, <3>2, SequenceFrom DEF IsCommand
  <2>3. CASE node.cmd = "arg"
    <3>1. ins.words = ArgWords(node.args) /\ ins.sets = [i \in DOMAIN node.args |-> HasEq(node.args[i])]
      BY <1>2, <2>3 DEF Instruction, InstructionWith, WordsOf
    <3>2. node.args \in Seq(Texts) BY <2>3 DEF Node
    <3>3. Sequence(ins.words) /\ Len(ins.words) = 2 * Len(node.args) BY <3>1, <3>2, ArgWordsPaired
    <3>4. DOMAIN ins.sets = 1 .. Len(node.args) /\ Len(node.args) \in Nat BY <3>1, <3>2
    <3>5. \A i \in 1 .. Len(node.args) : ins.sets[i] \in BOOLEAN
      <4>1. \A x : HasEq(x) \in BOOLEAN BY DEF HasEq
      <4>2. \A i \in 1 .. Len(node.args) : ins.sets[i] = HasEq(node.args[i]) BY <3>1, <3>4
      <4> HIDE DEF ins
      <4> QED BY <4>1, <4>2
    <3> HIDE DEF ins
    <3> QED BY <2>1, <2>3, <3>3, <3>4, <3>5 DEF IsCommand
  <2>4. CASE node.cmd \notin {"env", "arg"} BY <2>1, <2>4 DEF IsCommand
  <2> QED BY <2>2, <2>3, <2>4
<1> HIDE DEF ins
<1>3. ins = NoInstruction \/ \E flags : ins = Instruction(node, flags) BY InstructionName DEF ins
<1> QED BY <1>1, <1>2, <1>3 DEF ins

LEMMA ValueOfArg ==
    ASSUME NEW f, NEW globals, Arguments(globals), NEW arg,
           arg = [key |-> arg.key, value |-> arg.value, set |-> arg.set], arg.set \in BOOLEAN
    PROVE  /\ ArgValue(arg, globals, f.buildArgs) = MeantBy(f, globals, arg.key, arg.set, arg.value)
           /\ ArgValue(arg, globals, f.buildArgs).set \in BOOLEAN
<1> DEFINE own == SetKVValue(arg, f.buildArgs)
           same == {i \in DOMAIN globals : globals[i].key = arg.key}
<1>1. ArgValue(arg, globals, f.buildArgs) = IF own.set \/ same = {} THEN own ELSE globals[Max(same)]
  BY DEF ArgValue
<1>2. CASE arg.key \in DOMAIN f.buildArgs
  <2>1. own = KV(arg.key, f.buildArgs[arg.key]) /\ own.set = TRUE BY <1>2 DEF SetKVValue, KV
  <2>2. MeantBy(f, globals, arg.key, arg.set, arg.value) = KV(arg.key, f.buildArgs[arg.key]) BY <1>2 DEF MeantBy
  <2> HIDE DEF own
  <2> QED BY <1>1, <2>1, <2>2
<1>3. CASE arg.key \notin DOMAIN f.buildArgs
  <2>1. own = arg BY <1>3 DEF SetKVValue
  <2>2. MeantBy(f, globals, arg.key, arg.set, arg.value) =
          IF arg.set \/ same = {} THEN arg ELSE globals[Max(same)] BY <1>3 DEF MeantBy
  <2>3. same # {} => globals[Max(same)].set \in BOOLEAN
    <3>1. DOMAIN globals = 1 .. Len(globals) /\ Len(globals) \in Nat BY SequenceFacts DEF Arguments
    <3>2. same \in SUBSET (1 .. Len(globals)) BY <3>1
    <3> HIDE DEF same
    <3>3. same # {} => Max(same) \in 1 .. Len(globals) BY <3>1, <3>2, MaxOf
    <3> QED BY <3>3 DEF Arguments
  <2> HIDE DEF own, same
  <2> QED BY <1>1, <2>1, <2>2, <2>3
<1> QED BY <1>2, <1>3

\* A command that is expanded keeps its name and settings, and each of its words has its text.
LEMMA ExpandedCommand ==
    ASSUME NEW f, NEW ins, IsCommand(ins), NEW scope, Expand(ins, NewLex(f.escape), scope).ok
    PROVE  LET d == Expand(ins, NewLex(f.escape), scope)
           IN  /\ d.name = ins.name /\ d.sets = ins.sets
               /\ ins.name \in {"env", "arg"} =>
                    d.words = [i \in DOMAIN ins.words |-> Text(f, scope, ins.words[i])]
<1> DEFINE lx == NewLex(f.escape)
           d == Expand(ins, lx, scope)
           read == [i \in DOMAIN ins.words |-> Process(lx, scope, ins.words[i])]
           mounts == [i \in DOMAIN ins.mounts |-> ExpandMount(lx, scope, ins.flags[<<"mount">>][i])]
<1>0. DOMAIN ins = InstructionFields /\ NoInstruction.ok = FALSE BY DEF IsCommand, NoInstruction
<1>1. CASE ins.name \in Expandable \cup {"expose"}
  <2>1. d = WithWords(ins, read) BY <1>1 DEF Expand, Expandable
  <2>2. read = [i \in DOMAIN ins.words |-> read[i]] OBVIOUS
  <2>3. ins.name \in {"env", "arg"} =>
          [i \in DOMAIN read |-> read[i].text] = [i \in DOMAIN ins.words |-> Text(f, scope, ins.words[i])]
    BY DEF Text
  <2> DEFINE all == IF ins.name = "expose" THEN FlattenSeq([i \in DOMAIN read |-> read[i].words])
                    ELSE [i \in DOMAIN read |-> read[i].text]
  <2> HIDE DEF read
  <2>4. WithWords(ins, read) \in {NoInstruction, [ins EXCEPT !.words = all]} BY DEF WithWords, Checked
  <2> HIDE DEF d
  <2>5. d = [ins EXCEPT !.words = all]
    <3>1. d.ok BY DEF d, lx
    <3> DEFINE result == [ins EXCEPT !.words = all]
    <3> HIDE DEF all, result
    <3>2. d = result BY <1>0, <2>1, <2>4, <3>1 DEF result
    <3> QED BY <3>2 DEF result
  <2>6. d.name = ins.name /\ d.sets = ins.sets /\ d.words = all
    <3> HIDE DEF all
    <3> QED BY <1>0, <2>5 DEF InstructionFields
  <2>7. ins.name \in {"env", "arg"} => all = [i \in DOMAIN read |-> read[i].text] OBVIOUS
  <2> HIDE DEF all
  <2> QED BY <2>3, <2>6, <2>7 DEF d, lx
<1>2. CASE ins.name = "run"
  <2>1. d = WithMounts(ins, mounts) BY <1>2 DEF Expand, Expandable
  <2> HIDE DEF d, mounts
  <2>2. d \in {NoInstruction, [ins EXCEPT !.mounts = mounts]} BY <2>1 DEF WithMounts, Checked
  <2>3. d = [ins EXCEPT !.mounts = mounts] BY <1>0, <2>2 DEF d, lx
  <2>4. d.name = ins.name /\ d.sets = ins.sets BY <1>0, <2>3 DEF InstructionFields
  <2> QED BY <1>2, <2>4 DEF d, lx
<1>3. CASE ins.name \notin Expandable \cup {"expose", "run"}
  <2>1. d = ins BY <1>3 DEF Expand
  <2>2. ins.name \notin {"env", "arg"} BY <1>3 DEF Expandable
  <2> QED BY <2>1, <2>2 DEF lx
<1> QED BY <1>1, <1>2, <1>3

LEMMA Halves ==
    ASSUME NEW m \in Nat
    PROVE  m \div 2 \in Nat /\ \A i \in 1 .. m \div 2 : 2 * i - 1 \in 1 .. m /\ 2 * i \in 1 .. m
  OBVIOUS

\* What a dispatched instruction leaves is what its assignments mean in the scope it is read in.
LEMMA DispatchedScope ==
    ASSUME NEW ins, IsCommand(ins), NEW scope, Environment(scope), Arguments(optMetaArgs),
           Expand(ins, Lex, scope).ok
    PROVE  /\ EnvAfter(scope, Expand(ins, Lex, scope)) = ScopeAfter(file, optMetaArgs, ins, scope)
           /\ Environment(ScopeAfter(file, optMetaArgs, ins, scope))
<1> DEFINE d == Expand(ins, Lex, scope)
           kvs == AssignedBy(file, optMetaArgs, ins, scope)
           n == Len(ins.words) \div 2
           text(k) == Text(file, scope, ins.words[k])
<1>1. /\ d.name = ins.name /\ d.sets = ins.sets
      /\ ins.name \in {"env", "arg"} => d.words = [i \in DOMAIN ins.words |-> text(i)]
  BY ExpandedCommand DEF Lex
<1>2. ins.name \in {"env", "arg"} => Len(ins.words) \in Nat /\ DOMAIN ins.words = 1 .. Len(ins.words)
  BY SequenceFacts DEF IsCommand
<1>3. ins.name \in {"env", "arg"} => /\ n \in Nat /\ Len(d.words) = Len(ins.words)
                                     /\ \A i \in 1 .. n : d.words[2 * i - 1] = text(2 * i - 1) /\ d.words[2 * i] = text(2 * i)
  <2> SUFFICES ASSUME ins.name \in {"env", "arg"}
               PROVE  /\ n \in Nat /\ Len(d.words) = Len(ins.words)
                      /\ \A i \in 1 .. n : d.words[2 * i - 1] = text(2 * i - 1) /\ d.words[2 * i] = text(2 * i)
    OBVIOUS
  <2>1. n \in Nat /\ \A i \in 1 .. n : 2 * i - 1 \in 1 .. Len(ins.words) /\ 2 * i \in 1 .. Len(ins.words)
    BY <1>2, Halves
  <2> HIDE DEF d, n, text
  <2>2. d.words = [i \in 1 .. Len(ins.words) |-> text(i)] /\ Len(ins.words) \in Nat BY <1>1, <1>2
  <2> QED BY <2>1, <2>2
<1>4. Environment(ScopeAfter(file, optMetaArgs, ins, scope)) BY DEF ScopeAfter, Environment, AssignIn
<1> HIDE DEF d, text, n
<1>5. CASE ins.name = "env"
  <2>1. kvs = [i \in 1 .. n |-> KV(d.words[2 * i - 1], d.words[2 * i])]
    BY <1>3, <1>5 DEF AssignedBy, text, n
  <2>2. AfterEnv(scope, d) = AssignIn(scope, kvs, 1 .. n)
    <3>1. Len(d.words) \div 2 = n BY <1>3, <1>5 DEF n
    <3>2. n \in Nat BY <1>3, <1>5
    <3> HIDE DEF kvs
    <3> QED BY <2>1, <3>1, <3>2, EnvIsAssign
  <2>3. EnvAfter(scope, d) = AfterEnv(scope, d) BY <1>1, <1>5 DEF EnvAfter
  <2> HIDE DEF kvs
  <2> QED BY <1>4, <1>5, <2>2, <2>3 DEF ScopeAfter, kvs, n, d
<1>6. CASE ins.name = "arg"
  <2>1. PICK m \in Nat : /\ DOMAIN ins.sets = 1 .. m /\ Len(ins.words) = 2 * m
                         /\ \A i \in 1 .. m : ins.sets[i] \in BOOLEAN
    BY <1>6 DEF IsCommand
  <2>2. m = n BY <2>1 DEF n
  <2>3. DOMAIN d.sets = 1 .. n BY <1>1, <2>1, <2>2
  <2>4. ASSUME NEW i \in 1 .. n
        PROVE  /\ kvs[i] = MeantBy(file, optMetaArgs, text(2 * i - 1), ins.sets[i], text(2 * i))
               /\ ArgValues(d)[i] = kvs[i] /\ kvs[i].set \in BOOLEAN
    <3> DEFINE arg == ArgPairs(d)[i]
    <3>1. arg = [key |-> text(2 * i - 1), value |-> text(2 * i), set |-> ins.sets[i]]
      BY <1>1, <1>3, <1>6, <2>3 DEF ArgPairs
    <3>2. ins.sets[i] \in BOOLEAN BY <2>1, <2>2
    <3>3. kvs[i] = MeantBy(file, optMetaArgs, text(2 * i - 1), ins.sets[i], text(2 * i))
      BY <1>6 DEF AssignedBy, text, n
    <3>4. ArgValues(d)[i] = ArgValue(arg, optMetaArgs, file.buildArgs) BY <2>3 DEF ArgValues
    <3> HIDE DEF arg
    <3>5. arg = [key |-> arg.key, value |-> arg.value, set |-> arg.set] /\ arg.set \in BOOLEAN BY <3>1, <3>2
    <3>6. /\ ArgValue(arg, optMetaArgs, file.buildArgs) = MeantBy(file, optMetaArgs, arg.key, arg.set, arg.value)
          /\ ArgValue(arg, optMetaArgs, file.buildArgs).set \in BOOLEAN
      BY <3>5, ValueOfArg
    <3> HIDE DEF kvs
    <3> QED BY <3>1, <3>3, <3>4, <3>6
  <2>5. kvs = ArgValues(d)
    <3>1. ArgValues(d) = [i \in 1 .. n |-> ArgValues(d)[i]] BY <2>3 DEF ArgValues
    <3> DEFINE kv(i) == CASE ins.name = "env" -> KV(text(2 * i - 1), text(2 * i))
                          [] ins.name = "arg" -> MeantBy(file, optMetaArgs, text(2 * i - 1), ins.sets[i], text(2 * i))
    <3>3. kvs = [i \in 1 .. n |-> kv(i)] BY DEF AssignedBy, n, text
    <3> HIDE DEF kvs, kv
    <3>2. kvs = [i \in 1 .. n |-> kvs[i]] BY <3>3
    <3> QED BY <2>4, <3>1, <3>2
  <2>6. Pairs(ArgValues(d), n) /\ n \in Nat
    <3> HIDE DEF kvs
    <3> QED BY <2>1, <2>2, <2>4, <2>5 DEF Pairs
  <2> HIDE DEF kvs
  <2>7. AfterArg(scope, d) = AssignIn(scope, kvs, 1 .. n) BY <2>3, <2>5, <2>6, ArgIsAssign
  <2>8. EnvAfter(scope, d) = AfterArg(scope, d) BY <1>1, <1>6 DEF EnvAfter
  <2> QED BY <1>4, <1>6, <2>7, <2>8 DEF ScopeAfter, kvs, n, d
<1>7. CASE ins.name \notin {"env", "arg"}
  <2>1. EnvAfter(scope, d) = scope BY <1>1, <1>7 DEF EnvAfter
  <2> QED BY <1>4, <1>7, <2>1 DEF ScopeAfter, d
<1> QED BY <1>5, <1>6, <1>7

-----------------------------------------------------------------------------
(* The shape of the state holds.                                           *)

LEMMA NodeOfLine ==
    ASSUME NEW line, line.text \in Texts, NEW escape \in Chars
    PROVE  Node(NodeOf(line, escape)) /\ NodeOf(line, escape).cmd = NewNodeFromLine(line.text, escape).cmd
<1> DEFINE n == NewNodeFromLine(line.text, escape)
           m == NodeOf(line, escape)
<1>1. m.cmd = n.cmd /\ m.flags = n.flags /\ m.args = n.args BY DEF NodeOf, WithDocs
<1>2. Node(n) BY NodeTyped
<1> HIDE DEF m, n
<1>3. Node(m) BY <1>1, <1>2 DEF Node
<1> QED BY <1>1, <1>3 DEF m, n

LEMMA EightElements ==
    ASSUME NEW a, NEW b, NEW c, NEW d, NEW e, NEW f, NEW g, NEW h
    PROVE  LET s == <<a, b, c, d, e, f, g, h>>
           IN  DOMAIN s = 1 .. 8 /\ \A i \in 1 .. 8 : s[i] \in {a, b, c, d, e, f, g, h}
  OBVIOUS

LEMMA PlatformArgs ==
    ASSUME NEW f
    PROVE  LET args == GetPlatformArgs(f)
           IN  /\ DOMAIN args = 1 .. 8
               /\ \A i \in 1 .. 8 : args[i] = KV(args[i].key, args[i].value)
               /\ \A i \in 1 .. 8 : DOMAIN args[i] = ArgFields /\ args[i].set = TRUE
<1> DEFINE args == GetPlatformArgs(f)
           bp == BuildPlatform(f)
           tp == TargetPlatform(f)
           a == KV(<<"BUILDPLATFORM">>, Format(bp))
           b == KV(<<"BUILDOS">>, <<bp.os>>)
           c == KV(<<"BUILDARCH">>, <<bp.arch>>)
           d == KV(<<"BUILDVARIANT">>, bp.variant)
           e == KV(<<"TARGETPLATFORM">>, Format(tp))
           g == KV(<<"TARGETOS">>, <<tp.os>>)
           h == KV(<<"TARGETARCH">>, <<tp.arch>>)
           k == KV(<<"TARGETVARIANT">>, tp.variant)
<1>1. args = <<a, b, c, d, e, g, h, k>> BY DEF GetPlatformArgs
<1>2. \A n, v : LET x == KV(n, v)
                IN  DOMAIN x = ArgFields /\ x.set = TRUE /\ x = KV(x.key, x.value)
  BY DEF KV, ArgFields
<1>4. \A x \in {a, b, c, d, e, g, h, k} : DOMAIN x = ArgFields /\ x.set = TRUE /\ x = KV(x.key, x.value)
  BY <1>2
<1> HIDE DEF args, a, b, c, d, e, g, h, k
<1>3. DOMAIN args = 1 .. 8 /\ \A i \in 1 .. 8 : args[i] \in {a, b, c, d, e, g, h, k} BY <1>1, EightElements
<1> QED BY <1>4, <1>3 DEF args

LEMMA SetArg ==
    ASSUME NEW kv, NEW buildArgs, DOMAIN kv = ArgFields, kv.set \in BOOLEAN
    PROVE  LET r == SetKVValue(kv, buildArgs)
           IN  DOMAIN r = ArgFields /\ r.set \in BOOLEAN /\ r.key = kv.key
  BY DEF SetKVValue, KV, ArgFields

LEMMA ShapeInit == Init => Shape
<1> SUFFICES ASSUME Init PROVE Shape
  OBVIOUS
<1> USE DEF Init
<1>1. PICK family \in Files : file \in family OBVIOUS
<1>2. FileGiven
  <2>1. /\ file.escape \in {Backslash, Backtick}
        /\ file.lines \in Seq(ToSet(file.lines))
        /\ \A i \in DOMAIN file.lines : file.lines[i].text \in Seq(STRING \ {EOF})
        /\ \A e \in file.bases : e = [n \in DOMAIN e |-> e[n]]
    BY <1>1, FilesAssumption
  <2>2. Sequence(file.lines) BY <2>1 DEF Sequence
  <2>3. DOMAIN file.lines = 1 .. Len(file.lines) BY <2>2, SequenceFacts
  <2> QED BY <2>1, <2>2, <2>3, CharFacts DEF FileGiven, Environment
<1>3. Position BY DEF Position
<1>4. Sequence(<<>>) /\ Len(<<>>) = 0 BY SequenceEmpty
<1>5. NodesMade
  <2>1. Len(file.lines) \in Nat BY <1>2, SequenceFacts DEF FileGiven
  <2> QED BY <1>4, <2>1 DEF NodesMade
<1>6. ArgsMade
  <2> DEFINE args == GetPlatformArgs(file)
             own(i) == SetKVValue(args[i], file.buildArgs)
  <2>1. DOMAIN args = 1 .. 8 BY PlatformArgs
  <2>2. optMetaArgs = [i \in DOMAIN args |-> own(i)] OBVIOUS
  <2>3. \A i \in 1 .. 8 : DOMAIN args[i] = ArgFields /\ args[i].set \in BOOLEAN BY PlatformArgs
  <2> HIDE DEF args
  <2>4. \A i \in 1 .. 8 : DOMAIN own(i) = ArgFields /\ own(i).set \in BOOLEAN BY <2>3, SetArg
  <2> HIDE DEF own
  <2>5. DOMAIN optMetaArgs = 1 .. 8 /\ optMetaArgs = [i \in DOMAIN optMetaArgs |-> optMetaArgs[i]] BY <2>1, <2>2
  <2>6. Sequence(optMetaArgs) /\ Len(optMetaArgs) = 8
    <3> HIDE DEF Init
    <3> QED BY <2>5, SequenceOf
  <2>7. \A i \in 1 .. 8 : optMetaArgs[i] = own(i) BY <2>1, <2>2
  <2> QED BY <1>4, <2>4, <2>6, <2>7 DEF ArgsMade, Arguments
<1>7. StagesMade BY <1>4 DEF StagesMade
<1>8. LogMade BY <1>4 DEF LogMade
<1> QED BY <1>2, <1>3, <1>5, <1>6, <1>7, <1>8 DEF Shape

LEMMA ArgPairsMade ==
    ASSUME NEW ins, IsCommand(ins), ins.name = "arg"
    PROVE  Arguments(ArgPairs(ins))
<1>1. PICK n \in Nat : /\ DOMAIN ins.sets = 1 .. n /\ Len(ins.words) = 2 * n
                       /\ \A i \in 1 .. n : ins.sets[i] \in BOOLEAN
  BY DEF IsCommand
<1> DEFINE pairs == ArgPairs(ins)
           pair(i) == [key |-> ins.words[2 * i - 1], value |-> ins.words[2 * i], set |-> ins.sets[i]]
<1>2. pairs = [i \in 1 .. n |-> pair(i)] BY <1>1 DEF ArgPairs
<1>3. \A i \in 1 .. n : DOMAIN pair(i) = ArgFields /\ pair(i).set \in BOOLEAN BY <1>1 DEF ArgFields
<1> HIDE DEF pairs, pair
<1>4. DOMAIN pairs = 1 .. n /\ pairs = [i \in DOMAIN pairs |-> pairs[i]] BY <1>2
<1>5. Sequence(pairs) /\ Len(pairs) = n BY <1>4, SequenceOf
<1> QED BY <1>2, <1>3, <1>5 DEF Arguments, pairs

LEMMA ArgumentsConcat ==
    ASSUME NEW s, NEW t, Arguments(s), Arguments(t)
    PROVE  Arguments(s \o t)
<1>1. Sequence(s) /\ Sequence(t) BY DEF Arguments
<1>2. Len(s) \in Nat /\ Len(t) \in Nat BY <1>1, SequenceFacts
<1>3. /\ Sequence(s \o t) /\ Len(s \o t) = Len(s) + Len(t)
      /\ \A i \in 1 .. Len(s) : (s \o t)[i] = s[i]
      /\ \A i \in 1 .. Len(t) : (s \o t)[Len(s) + i] = t[i]
  BY <1>1, SequenceConcat
<1>4. ASSUME NEW i \in 1 .. Len(s \o t) PROVE DOMAIN (s \o t)[i] = ArgFields /\ (s \o t)[i].set \in BOOLEAN
  <2>1. CASE i \in 1 .. Len(s) BY <1>3, <2>1 DEF Arguments
  <2>2. CASE i \notin 1 .. Len(s)
    <3>1. i - Len(s) \in 1 .. Len(t) /\ i = Len(s) + (i - Len(s)) BY <1>2, <1>3, <2>2
    <3>2. (s \o t)[i] = t[i - Len(s)] BY <1>3, <3>1
    <3> QED BY <3>1, <3>2 DEF Arguments
  <2> QED BY <2>1, <2>2
<1> QED BY <1>3, <1>4 DEF Arguments

LEMMA ArgumentsAppend ==
    ASSUME NEW s, Arguments(s), NEW x, DOMAIN x = ArgFields, x.set \in BOOLEAN
    PROVE  Arguments(Append(s, x))
<1>1. Sequence(s) /\ Len(s) \in Nat BY SequenceFacts DEF Arguments
<1>2. /\ Sequence(Append(s, x)) /\ Len(Append(s, x)) = Len(s) + 1
      /\ \A i \in 1 .. Len(s) : Append(s, x)[i] = s[i]
      /\ Append(s, x)[Len(s) + 1] = x
  BY <1>1, SequenceAppend
<1>3. ASSUME NEW i \in 1 .. Len(Append(s, x))
      PROVE  DOMAIN Append(s, x)[i] = ArgFields /\ Append(s, x)[i].set \in BOOLEAN
  <2>1. i \in 1 .. Len(s) \/ i = Len(s) + 1 BY <1>1, <1>2
  <2> QED BY <1>2, <2>1 DEF Arguments
<1> QED BY <1>2, <1>3 DEF Arguments

LEMMA MadeNode ==
    ASSUME Shape, NEW i \in 1 .. Len(nodes)
    PROVE  Node(nodes[i]) /\ IsCommand(ParseInstruction(nodes[i]))
<1>1. Len(file.lines) \in Nat /\ Len(nodes) \in Nat BY SequenceFacts DEF Shape, FileGiven, NodesMade
<1>2. i \in 1 .. Len(file.lines) BY <1>1 DEF Shape, NodesMade
<1>3. Node(nodes[i]) BY <1>2, NodeOfLine DEF Shape, FileGiven, NodesMade
<1> QED BY <1>3, CommandOfNode

\* Only the phase changes.
Stays == UNCHANGED <<file, next, nodes, metaArgs, stages, optMetaArgs, env, log>>
LEMMA ShapeStays ==
    ASSUME Shape, Stays, phase' \notin {"lines", "parse", "globals", "bases", "dispatch"}
    PROVE  Shape'
  BY DEF Shape, Stays, FileGiven, Position, NodesMade, ArgsMade, StagesMade, LogMade, Done

LEMMA FailStays == Fail => Stays /\ phase' = "failed"
  BY DEF Fail, Stays

\* A position moves on or is the first.
LEMMA Moves ==
    ASSUME Position, next' = next + 1 \/ next' = 1
    PROVE  Position'
  BY DEF Position

LEMMA ShapeReadLine == Shape /\ ReadLine => Shape'
<1> SUFFICES ASSUME Shape, ReadLine PROVE Shape'
  OBVIOUS
<1> DEFINE node == NodeOf(file.lines[next], file.escape)
<1>1. CASE Fail BY <1>1, FailStays, ShapeStays
<1>2. CASE ~Fail
  <2>1. /\ phase = "lines" /\ next <= Len(file.lines) /\ nodes' = Append(nodes, node) /\ next' = next + 1
        /\ UNCHANGED <<file, phase, metaArgs, stages, optMetaArgs, env, log>>
    BY <1>2 DEF ReadLine
  <2> HIDE DEF node
  <2>2. Sequence(nodes) /\ Len(nodes) = next - 1 /\ stages = <<>> /\ Len(nodes) \in Nat
    BY <2>1, SequenceFacts DEF Shape, NodesMade
  <2>3. /\ Sequence(nodes') /\ Len(nodes') = Len(nodes) + 1
        /\ \A i \in 1 .. Len(nodes) : nodes'[i] = nodes[i]
        /\ nodes'[Len(nodes) + 1] = node
    BY <2>1, <2>2, SequenceAppend
  <2>4. NodesMade'
    <3>1. \A i \in 1 .. Len(nodes') : i \in 1 .. Len(nodes) \/ i = Len(nodes) + 1 BY <2>2, <2>3
    <3>2. \A i \in 1 .. Len(nodes') : nodes'[i] = NodeOf(file.lines[i], file.escape)
      BY <2>2, <2>3, <3>1 DEF Shape, NodesMade, Position, node
    <3>3. Len(nodes') <= Len(file.lines) /\ Len(nodes') = next' - 1 BY <2>1, <2>2, <2>3 DEF Shape, Position
    <3> QED BY <2>1, <2>2, <2>3, <3>2, <3>3 DEF NodesMade
  <2>5. StagesMade'
    <3>1. stages' = <<>> /\ Len(stages') = 0 /\ Sequence(stages') BY <2>1, <2>2, SequenceEmpty
    <3> QED BY <3>1 DEF StagesMade
  <2>6. FileGiven' /\ ArgsMade' BY <2>1 DEF Shape, FileGiven, ArgsMade
  <2>7. Position' BY <2>1, Moves DEF Shape
  <2>8. LogMade' BY <2>1 DEF Shape, LogMade, Done
  <2> QED BY <2>4, <2>5, <2>6, <2>7, <2>8 DEF Shape
<1> QED BY <1>1, <1>2

LEMMA ShapeEndOfLines == Shape /\ EndOfLines => Shape'
<1> SUFFICES ASSUME Shape, EndOfLines PROVE Shape'
  OBVIOUS
<1>1. Position' BY Moves DEF Shape, EndOfLines
<1> QED BY <1>1 DEF Shape, EndOfLines, FileGiven, NodesMade, ArgsMade, StagesMade, LogMade, Done

LEMMA ShapeEndOfFile == Shape /\ EndOfFile => Shape'
<1> SUFFICES ASSUME Shape, EndOfFile PROVE Shape'
  OBVIOUS
<1>1. Position' BY Moves DEF Shape, EndOfFile
<1> QED BY <1>1 DEF Shape, EndOfFile, FileGiven, NodesMade, ArgsMade, StagesMade, LogMade, Done

LEMMA ShapeEndOfGlobals == Shape /\ EndOfGlobals => Shape'
<1> SUFFICES ASSUME Shape, EndOfGlobals PROVE Shape'
  OBVIOUS
<1>1. Position' BY Moves DEF Shape, EndOfGlobals
<1> QED BY <1>1 DEF Shape, EndOfGlobals, FileGiven, NodesMade, ArgsMade, StagesMade, LogMade, Done

LEMMA ShapeExpandGlobal == Shape /\ ExpandGlobal => Shape'
<1> SUFFICES ASSUME Shape, ExpandGlobal PROVE Shape'
  OBVIOUS
<1> DEFINE arg == metaArgs[next]
           value == Process(Lex, MetaArgsToMap(optMetaArgs), arg.value).text
           read == [arg EXCEPT !.value = value]
           new == SetKVValue(read, file.buildArgs)
<1>1. /\ phase = "globals" /\ next <= Len(metaArgs) /\ next' = next + 1 /\ optMetaArgs' = Append(optMetaArgs, new)
      /\ UNCHANGED <<file, phase, nodes, metaArgs, stages, env, log>>
  BY DEF ExpandGlobal
<1>2. DOMAIN arg = ArgFields /\ arg.set \in BOOLEAN
  <2>1. next \in 1 .. Len(metaArgs) BY <1>1, SequenceFacts DEF Shape, Position, ArgsMade, Arguments
  <2> QED BY <2>1 DEF Shape, ArgsMade, Arguments
<1> HIDE DEF value, arg
<1>3. DOMAIN read = ArgFields /\ read.set \in BOOLEAN BY <1>2 DEF ArgFields
<1> HIDE DEF read
<1>4. DOMAIN new = ArgFields /\ new.set \in BOOLEAN BY <1>3, SetArg
<1> HIDE DEF new
<1>5. ArgsMade' BY <1>1, <1>4, ArgumentsAppend DEF Shape, ArgsMade
<1>6. Position' BY <1>1, Moves DEF Shape
<1> QED BY <1>1, <1>5, <1>6 DEF Shape, FileGiven, NodesMade, StagesMade, LogMade, Done

\* The stages change, and nothing they are made of.
LEMMA ShapeStages ==
    ASSUME Shape, UNCHANGED <<file, phase, nodes, metaArgs, optMetaArgs, env, log>>, next' = next + 1,
           phase \in {"parse", "bases"}, Sequence(stages'), Len(stages') >= Len(stages),
           \A k \in 1 .. Len(stages') : StageMade(stages'[k], nodes)
    PROVE  Shape'
<1>1. Position' BY Moves DEF Shape
<1>2. log = <<>> /\ Len(log) = 0 BY SequenceEmpty DEF Shape, LogMade
<1>3. Len(stages') \in Nat BY SequenceFacts
<1>4. LogMade' BY <1>2, <1>3 DEF Shape, LogMade
<1>5. StagesMade' BY DEF StagesMade
<1> QED BY <1>1, <1>4, <1>5 DEF Shape, FileGiven, NodesMade, ArgsMade

LEMMA ShapeParseNode == Shape /\ ParseNode => Shape'
<1> SUFFICES ASSUME Shape, ParseNode PROVE Shape'
  OBVIOUS
<1> DEFINE ins == ParseInstruction(nodes[next])
<1>1. phase = "parse" /\ next \in 1 .. Len(nodes)
  <2>1. Len(nodes) \in Nat BY SequenceFacts DEF Shape, NodesMade
  <2> QED BY <2>1 DEF ParseNode, Shape, Position
<1>2. AddMetaArg(ins) \/ AddStage(ins) \/ AddCommand(ins) \/ Reject(ins) BY DEF ParseNode
<1>3. IsCommand(ins) BY <1>1, MadeNode
<1>4. Sequence(stages) /\ Len(stages) \in Nat /\ DOMAIN stages = 1 .. Len(stages)
  BY SequenceFacts DEF Shape, StagesMade
<1> HIDE DEF ins
<1>5. CASE AddMetaArg(ins)
  <2>1. Arguments(ArgPairs(ins)) BY <1>3, <1>5, ArgPairsMade DEF AddMetaArg
  <2>2. Arguments(metaArgs) BY DEF Shape, ArgsMade
  <2>3. ArgsMade' BY <1>5, <2>1, <2>2, ArgumentsConcat DEF AddMetaArg, Shape, ArgsMade
  <2>4. Position' BY <1>5, Moves DEF AddMetaArg, Shape
  <2> QED BY <1>1, <1>5, <2>3, <2>4 DEF AddMetaArg, Shape, FileGiven, NodesMade, StagesMade, LogMade, Done
<1>6. CASE AddStage(ins)
  <2> DEFINE new == NewStage(ins)
  <2>1. StageMade(new, nodes)
    <3>1. DOMAIN new = StageFields /\ new.commands = <<>> /\ new.lines = <<>> BY DEF NewStage, StageFields
    <3> HIDE DEF new
    <3> QED BY <3>1, SequenceEmpty DEF StageMade
  <2> HIDE DEF new
  <2>2. stages' = Append(stages, new) BY <1>6 DEF AddStage, new
  <2>3. /\ Sequence(stages') /\ Len(stages') = Len(stages) + 1
        /\ \A k \in 1 .. Len(stages) : stages'[k] = stages[k]
        /\ stages'[Len(stages) + 1] = new
    BY <1>4, <2>2, SequenceAppend
  <2>4. ASSUME NEW k \in 1 .. Len(stages') PROVE StageMade(stages'[k], nodes)
    <3>1. k \in 1 .. Len(stages) \/ k = Len(stages) + 1 BY <1>4, <2>3
    <3> QED BY <2>1, <2>3, <3>1 DEF Shape, StagesMade
  <2>5. Len(stages') >= Len(stages) BY <1>4, <2>3
  <2> QED BY <1>1, <1>6, <2>3, <2>4, <2>5, ShapeStages DEF AddStage
<1>7. CASE AddCommand(ins)
  <2> DEFINE n == Len(stages)
             old == stages[n]
             new == [[old EXCEPT !.commands = Append(@, ins)] EXCEPT !.lines = Append(@, next)]
  <2>1. n \in 1 .. Len(stages) BY <1>4, <1>7, SequenceEmpty DEF AddCommand, Sequence
  <2>2. StageMade(old, nodes) BY <2>1 DEF Shape, StagesMade
  <2>3. stages' = [stages EXCEPT ![n].commands = Append(@, ins), ![n].lines = Append(@, next)]
    BY <1>7 DEF AddCommand
  <2>4. DOMAIN new = StageFields /\ new.commands = Append(old.commands, ins) /\ new.lines = Append(old.lines, next)
    <3> HIDE DEF old
    <3> QED BY <2>2 DEF StageMade, StageFields
  <2>5. StageMade(new, nodes)
    <3> DEFINE cs == new.commands
               ls == new.lines
    <3>1. cs = Append(old.commands, ins) /\ ls = Append(old.lines, next) /\ DOMAIN new = StageFields BY <2>4
    <3>2. Sequence(old.commands) /\ Sequence(old.lines) /\ Len(old.lines) = Len(old.commands) /\ Len(old.commands) \in Nat
      BY <2>2, SequenceFacts DEF StageMade
    <3> HIDE DEF new, old, cs, ls
    <3>3. /\ Sequence(cs) /\ Len(cs) = Len(old.commands) + 1 /\ cs[Len(old.commands) + 1] = ins
          /\ \A c \in 1 .. Len(old.commands) : cs[c] = old.commands[c]
      BY <3>1, <3>2, SequenceAppend
    <3>4. /\ Sequence(ls) /\ Len(ls) = Len(old.lines) + 1 /\ ls[Len(old.lines) + 1] = next
          /\ \A c \in 1 .. Len(old.lines) : ls[c] = old.lines[c]
      BY <3>1, <3>2, SequenceAppend
    <3>5. ASSUME NEW c \in 1 .. Len(cs)
          PROVE  ls[c] \in 1 .. Len(nodes) /\ cs[c].ok /\ cs[c] = ParseInstruction(nodes[ls[c]])
      <4>1. CASE c = Len(old.commands) + 1 BY <1>1, <1>7, <3>2, <3>3, <3>4, <4>1 DEF ins, AddCommand
      <4>2. CASE c # Len(old.commands) + 1
        <5>1. c \in 1 .. Len(old.commands) BY <3>2, <3>3, <4>2
        <5> QED BY <2>2, <3>2, <3>3, <3>4, <5>1 DEF StageMade
      <4> QED BY <4>1, <4>2
    <3>6. new.commands = cs /\ new.lines = ls BY DEF cs, ls
    <3> QED BY <3>1, <3>2, <3>3, <3>4, <3>5, <3>6 DEF StageMade
  <2>6. DOMAIN stages' = 1 .. n /\ stages' = [k \in DOMAIN stages' |-> stages'[k]]
    <3> HIDE DEF n
    <3> QED BY <1>4, <2>3 DEF n
  <2>7. Sequence(stages') /\ Len(stages') = n
    <3> HIDE DEF n, old, new
    <3> QED BY <1>4, <2>6, SequenceOf DEF n
  <2>8. ASSUME NEW k \in 1 .. n PROVE stages'[k] = IF k = n THEN new ELSE stages[k]
    BY <1>4, <2>1, <2>3
  <2> HIDE DEF new
  <2>9. ASSUME NEW k \in 1 .. Len(stages') PROVE StageMade(stages'[k], nodes)
    BY <2>5, <2>7, <2>8 DEF Shape, StagesMade
  <2>10. UNCHANGED <<file, phase, nodes, metaArgs, optMetaArgs, env, log>> /\ next' = next + 1 BY <1>7 DEF AddCommand
  <2>11. Sequence(stages') /\ Len(stages') >= Len(stages) BY <1>4, <2>7 DEF n
  <2> QED BY <1>1, <2>9, <2>10, <2>11, ShapeStages
<1>8. CASE Reject(ins) BY <1>8, FailStays, ShapeStays DEF Reject
<1> QED BY <1>2, <1>5, <1>6, <1>7, <1>8

LEMMA ShapeExpandBase == Shape /\ ExpandBase => Shape'
<1> SUFFICES ASSUME Shape, ExpandBase PROVE Shape'
  OBVIOUS
<1>1. PICK base, platform : NameBase(base, platform) \/ Fail BY DEF ExpandBase
<1>2. phase = "bases" /\ Sequence(stages) /\ Len(stages) \in Nat /\ DOMAIN stages = 1 .. Len(stages) /\ next \in 1 .. Len(stages)
  <2>1. Sequence(stages) /\ Len(stages) \in Nat /\ DOMAIN stages = 1 .. Len(stages)
    BY SequenceFacts DEF Shape, StagesMade
  <2> QED BY <2>1 DEF ExpandBase, Shape, Position
<1>3. CASE Fail BY <1>3, FailStays, ShapeStays
<1>4. CASE NameBase(base, platform)
  <2> DEFINE old == stages[next]
             new == [[old EXCEPT !.base = base.text] EXCEPT !.platform = platform.text]
  <2>1. stages' = [stages EXCEPT ![next].base = base.text, ![next].platform = platform.text] BY <1>4 DEF NameBase
  <2>2. StageMade(old, nodes) BY <1>2 DEF Shape, StagesMade
  <2>3. DOMAIN new = StageFields /\ new.commands = old.commands /\ new.lines = old.lines
    <3> HIDE DEF old
    <3> QED BY <2>2 DEF StageMade, StageFields
  <2>4. \A k \in 1 .. Len(stages) : stages'[k] = IF k = next THEN new ELSE stages[k] BY <1>2, <2>1
  <2>5. DOMAIN stages' = 1 .. Len(stages) /\ stages' = [k \in DOMAIN stages' |-> stages'[k]] BY <1>2, <2>1
  <2> HIDE DEF new, old
  <2>6. Sequence(stages') /\ Len(stages') = Len(stages) BY <1>2, <2>5, SequenceOf
  <2>7. StageMade(new, nodes) BY <2>2, <2>3 DEF StageMade
  <2>8. \A k \in 1 .. Len(stages') : StageMade(stages'[k], nodes) BY <2>4, <2>6, <2>7 DEF Shape, StagesMade
  <2> QED BY <1>2, <1>4, <2>6, <2>8, ShapeStages DEF NameBase
<1> QED BY <1>1, <1>3, <1>4

LEMMA ShapeBegin == Shape /\ (BeginStage \/ SkipStage) => Shape'
<1> SUFFICES ASSUME Shape, BeginStage \/ SkipStage PROVE Shape'
  OBVIOUS
<1>1. Sequence(log) /\ Len(log) \in Nat /\ Sequence(stages) /\ Len(stages) \in Nat
  BY SequenceFacts DEF Shape, LogMade, StagesMade
<1>2. PICK e : log' = Append(log, [began |-> e, done |-> <<>>]) BY DEF BeginStage, SkipStage
<1> DEFINE entry == [began |-> e, done |-> <<>>]
<1>3. DOMAIN entry = {"began", "done"} /\ entry.done = <<>> /\ Sequence(entry.done) BY SequenceEmpty
<1> HIDE DEF entry
<1>4. /\ Sequence(log') /\ Len(log') = Len(log) + 1 /\ log' # <<>>
      /\ \A k \in 1 .. Len(log) : log'[k] = log[k]
      /\ log'[Len(log) + 1] = entry
  BY <1>1, <1>2, SequenceAppend DEF entry
<1>5. UNCHANGED <<file, nodes, metaArgs, stages, optMetaArgs>> /\ phase' = "dispatch" /\ Len(log) + 1 <= Len(stages)
  BY <1>1 DEF BeginStage, SkipStage
<1>6. next' = 1 \/ next' = Len(stages[Len(log) + 1].commands) + 1 BY DEF BeginStage, SkipStage
<1>7. Len(stages[Len(log) + 1].commands) \in Nat
  <2>1. Len(log) + 1 \in 1 .. Len(stages) BY <1>1, <1>5
  <2> QED BY <2>1, SequenceFacts DEF Shape, StagesMade, StageMade
<1>8. LogMade'
  <2>1. \A k \in 1 .. Len(log') : DOMAIN log'[k] = {"began", "done"} /\ Sequence(log'[k].done)
    <3>1. \A k \in 1 .. Len(log') : k \in 1 .. Len(log) \/ k = Len(log) + 1 BY <1>1, <1>4
    <3> QED BY <1>3, <1>4, <3>1 DEF Shape, LogMade
  <2>2. next' <= Len(stages'[Len(log')].commands) => Len(Done') = next' - 1
    <3>1. Done' = <<>> BY <1>3, <1>4 DEF Done
    <3> QED BY <1>4, <1>5, <1>6, <1>7, <3>1, SequenceEmpty
  <2> QED BY <1>4, <1>5, <2>1, <2>2 DEF LogMade
<1>9. Position' BY <1>6, <1>7 DEF Position
<1> QED BY <1>5, <1>8, <1>9 DEF Shape, FileGiven, NodesMade, ArgsMade, StagesMade

\* What a dispatch does: the command after the last one that is done, in the environment they left.
Dispatched(n, ins) ==
    /\ ins.ok /\ env' = EnvAfter(env, ins) /\ next' = next + 1
    /\ UNCHANGED <<file, phase, nodes, metaArgs, stages, optMetaArgs>>
    /\ phase = "dispatch" /\ n = Len(log) /\ n \in 1 .. Len(stages) /\ Sequence(log) /\ Sequence(log')
    /\ Len(log') = n /\ \A k \in 1 .. n : k # n => log'[k] = log[k]
    /\ DOMAIN log'[n] = {"began", "done"} /\ log'[n].began = log[n].began
    /\ Done = log[n].done /\ Done' = Append(Done, ins) /\ log # <<>> /\ log' # <<>>
    /\ Sequence(Done) /\ Len(Done) = next - 1 /\ Len(Done) \in Nat
    /\ next \in 1 .. Len(stages[n].commands)

LEMMA DispatchIs ==
    ASSUME Shape, Dispatch, ~Fail
    PROVE  Dispatched(Len(log), Expand(Command, Lex, env))
<1> DEFINE n == Len(log)
           ins == Expand(Command, Lex, env)
           new == [log[n] EXCEPT !.done = Append(@, ins)]
<1>1. /\ ins.ok /\ env' = EnvAfter(env, ins) /\ log' = [log EXCEPT ![n].done = Append(@, ins)] /\ next' = next + 1
      /\ UNCHANGED <<file, phase, nodes, metaArgs, stages, optMetaArgs>>
      /\ phase = "dispatch" /\ next <= Len(stages[n].commands)
  BY DEF Dispatch, Dispatching
<1> HIDE DEF ins
<1>2. Sequence(log) /\ Len(log) \in Nat /\ DOMAIN log = 1 .. Len(log) /\ Len(stages) \in Nat /\ log # <<>>
  BY <1>1, SequenceFacts DEF Shape, LogMade, StagesMade
<1>3. n \in 1 .. Len(stages) /\ n \in 1 .. Len(log) BY <1>2 DEF Sequence, Shape, LogMade
<1>4. log' = [log EXCEPT ![n] = new] BY <1>1
<1>5. DOMAIN log[n] = {"began", "done"} /\ Sequence(log[n].done) BY <1>3 DEF Shape, LogMade
<1>6. DOMAIN new = {"began", "done"} /\ new.began = log[n].began /\ new.done = Append(log[n].done, ins)
  <2> DEFINE old == log[n]
  <2> HIDE DEF old
  <2>1. DOMAIN old = {"began", "done"} BY <1>5 DEF old
  <2>2. new = [old EXCEPT !.done = Append(@, ins)] BY DEF old
  <2> QED BY <2>1, <2>2 DEF old
<1> HIDE DEF n, new
<1>7. Sequence(log') /\ Len(log') = Len(log) /\ \A k \in 1 .. Len(log) : log'[k] = IF k = n THEN new ELSE log[k]
  BY <1>2, <1>4, SequenceExcept
<1>8. n = Len(log) BY DEF n
<1>9. log' # <<>> BY <1>3, <1>7, SequenceEmpty
<1>10. Done = log[n].done /\ Done' = Append(Done, ins) BY <1>2, <1>3, <1>6, <1>7, <1>8, <1>9 DEF Done
<1>11. Sequence(Done) /\ Len(Done) \in Nat BY <1>5, <1>10, SequenceFacts
<1>12. Len(Done) = next - 1 BY <1>1, <1>8 DEF Shape, LogMade
<1>13. next \in 1 .. Len(stages[n].commands)
  <2>1. Len(stages[n].commands) \in Nat BY <1>3, SequenceFacts DEF Shape, StagesMade, StageMade
  <2> QED BY <1>1, <2>1 DEF Shape, Position
<1> QED BY <1>1, <1>2, <1>3, <1>6, <1>7, <1>8, <1>9, <1>10, <1>11, <1>12, <1>13 DEF Dispatched, ins, n

LEMMA ShapeDispatch == Shape /\ Dispatch => Shape'
<1> SUFFICES ASSUME Shape, Dispatch PROVE Shape'
  OBVIOUS
<1>1. CASE Fail BY <1>1, FailStays, ShapeStays
<1>2. CASE ~Fail
  <2> DEFINE n == Len(log)
             ins == Expand(Command, Lex, env)
  <2> HIDE DEF ins, n
  <2>1. Dispatched(n, ins) BY <1>2, DispatchIs DEF ins, n
  <2>2. Sequence(Done') /\ Len(Done') = Len(Done) + 1 BY <2>1, SequenceAppend DEF Dispatched
  <2>3. LogMade'
    <3>1. \A k \in 1 .. Len(log') : DOMAIN log'[k] = {"began", "done"} /\ Sequence(log'[k].done)
      <4>1. ASSUME NEW k \in 1 .. n PROVE DOMAIN log'[k] = {"began", "done"} /\ Sequence(log'[k].done)
        <5>1. CASE k = n
          <6>1. Done' = log'[n].done BY <2>1 DEF Done, Dispatched
          <6> QED BY <2>1, <2>2, <5>1, <6>1 DEF Dispatched
        <5>2. CASE k # n BY <2>1, <5>2 DEF Dispatched, Shape, LogMade
        <5> QED BY <5>1, <5>2
      <4> QED BY <2>1, <4>1 DEF Dispatched
    <3>2. Len(log') <= Len(stages') BY <2>1 DEF Dispatched
    <3>3. Len(Done') = next' - 1 BY <2>1, <2>2 DEF Dispatched, Shape, Position
    <3> QED BY <2>1, <3>1, <3>2, <3>3 DEF Dispatched, LogMade
  <2>4. Position' BY <2>1, Moves DEF Dispatched, Shape
  <2> QED BY <2>1, <2>3, <2>4 DEF Dispatched, Shape, FileGiven, NodesMade, ArgsMade, StagesMade
<1> QED BY <1>1, <1>2

LEMMA ShapeStep == Shape /\ [Next]_vars => Shape'
<1> SUFFICES ASSUME Shape, [Next]_vars PROVE Shape'
  OBVIOUS
<1>1. CASE NoStage \/ EndOfStages BY <1>1, ShapeStays DEF NoStage, EndOfStages, Stays
<1>2. CASE UNCHANGED vars
  BY <1>2 DEF vars, Shape, FileGiven, Position, NodesMade, ArgsMade, StagesMade, LogMade, Done
<1> QED
  BY <1>1, <1>2, ShapeReadLine, ShapeEndOfLines, ShapeParseNode, ShapeEndOfFile, ShapeExpandGlobal, ShapeEndOfGlobals,
     ShapeExpandBase, ShapeBegin, ShapeDispatch DEF Next

LEMMA ShapeAlways == Spec => []Shape
<1> QED BY ShapeInit, ShapeStep, PTL DEF Spec

-----------------------------------------------------------------------------
(* Variables are read in their scope.                                      *)

LEMMA InScopeBegin == Shape /\ (BeginStage \/ SkipStage) => InScope'
<1> SUFFICES ASSUME Shape, BeginStage \/ SkipStage PROVE InScope'
  OBVIOUS
<1>1. PICK e : /\ log' = Append(log, [began |-> e, done |-> <<>>]) /\ env' = e
               /\ e \in file.bases \/ e = NoEnv
               /\ UNCHANGED <<file, stages, optMetaArgs>>
  BY DEF BeginStage, SkipStage
<1>2. Sequence(log) /\ Len(log) \in Nat BY SequenceFacts DEF Shape, LogMade
<1> DEFINE entry == [began |-> e, done |-> <<>>]
           sc == [j \in 0 .. 0 |-> e]
           cs == stages[Len(log) + 1].commands
<1>3. entry.began = e /\ entry.done = <<>> /\ sc[0] = e OBVIOUS
<1> HIDE DEF entry
<1>4. Len(log') = Len(log) + 1 /\ log' # <<>> /\ log'[Len(log) + 1] = entry
  BY <1>1, <1>2, SequenceAppend DEF entry
<1>5. Done' = <<>> /\ log'[Len(log')].began = e BY <1>3, <1>4 DEF Done
<1>6. Environment(e) BY <1>1, EmptyEnvironment DEF Shape, FileGiven
<1>7. IsScope(sc, file, optMetaArgs, e, cs, 0) BY <1>3 DEF IsScope
<1>8. ReadInScope(sc, file, cs, <<>>) BY DEF ReadInScope
<1> HIDE DEF sc
<1> QED BY <1>1, <1>3, <1>4, <1>5, <1>6, <1>7, <1>8, SequenceEmpty DEF InScope

LEMMA InScopeDispatch == Shape /\ InScope /\ Dispatch => InScope'
<1> SUFFICES ASSUME Shape, InScope, Dispatch PROVE InScope'
  OBVIOUS
<1>1. CASE Fail BY <1>1 DEF Fail, InScope, Done
<1>2. CASE ~Fail
  <2> DEFINE n == Len(log)
             ins == Expand(Command, Lex, env)
             cs == stages[n].commands
             k == Len(Done)
             began == log[n].began
  <2>1. Dispatched(n, ins) BY <1>2, DispatchIs
  <2>2. PICK sc : /\ IsScope(sc, file, optMetaArgs, began, cs, k) /\ ReadInScope(sc, file, cs, Done) /\ env = sc[k]
    BY <2>1 DEF Dispatched, InScope
  <2>3. next \in 1 .. Len(cs) /\ k = next - 1 /\ k \in Nat /\ Sequence(Done) BY <2>1 DEF Dispatched
  <2>4. Environment(env) /\ Arguments(optMetaArgs) BY <2>1 DEF Dispatched, InScope, Shape, ArgsMade
  <2>5. IsCommand(cs[next])
    <3>1. n \in 1 .. Len(stages) BY <2>1 DEF Dispatched
    <3>2. StageMade(stages[n], nodes) BY <3>1 DEF Shape, StagesMade
    <3>3. stages[n].lines[next] \in 1 .. Len(nodes) /\ cs[next] = ParseInstruction(nodes[stages[n].lines[next]])
      BY <2>3, <3>2 DEF StageMade
    <3> QED BY <3>3, MadeNode
  <2>6. ins = Expand(cs[next], Lex, env) /\ ins.ok BY <2>1 DEF Command, Dispatched
  <2>7. env' = ScopeAfter(file, optMetaArgs, cs[next], env) /\ Environment(env')
    <3>1. env' = EnvAfter(env, ins) BY <2>1 DEF Dispatched
    <3> HIDE DEF cs
    <3>2. EnvAfter(env, Expand(cs[next], Lex, env)) = ScopeAfter(file, optMetaArgs, cs[next], env)
          /\ Environment(ScopeAfter(file, optMetaArgs, cs[next], env))
      BY <2>4, <2>5, <2>6, DispatchedScope
    <3> HIDE DEF ins
    <3> QED BY <2>6, <3>1, <3>2
  <2> DEFINE sd == [j \in 0 .. k + 1 |-> IF j = k + 1 THEN env' ELSE sc[j]]
  <2>8. log' # <<>> /\ Len(log') = n /\ log'[n].began = began /\ Done' = Append(Done, ins)
        /\ UNCHANGED <<file, stages, optMetaArgs>>
    BY <2>1 DEF Dispatched
  <2> HIDE DEF ins, k, cs, began, n
  <2>9. Len(Done') = k + 1 /\ (\A j \in 1 .. k : Done'[j] = Done[j]) /\ Done'[k + 1] = ins /\ DOMAIN Done' = 1 .. k + 1
    <3>1. /\ Sequence(Done') /\ Len(Done') = Len(Done) + 1 /\ Done'[Len(Done) + 1] = ins
          /\ \A j \in 1 .. Len(Done) : Done'[j] = Done[j]
      BY <2>3, <2>8, SequenceAppend
    <3> QED BY <3>1, SequenceFacts DEF k
  <2>10. (\A j \in 0 .. k : sd[j] = sc[j]) /\ sd[k + 1] = env' BY <2>3
  <2>11. IsScope(sd, file, optMetaArgs, began, cs, k + 1)
    <3>1. sd = [j \in 0 .. k + 1 |-> sd[j]] OBVIOUS
    <3>2. ASSUME NEW j \in 0 .. k + 1
          PROVE  sd[j] = IF j = 0 THEN began ELSE ScopeAfter(file, optMetaArgs, cs[j], sd[j - 1])
      <4>1. CASE j = k + 1
        <5>1. j # 0 /\ j - 1 = k /\ k \in 0 .. k /\ j = next BY <2>3, <4>1
        <5> HIDE DEF sd
        <5> QED BY <2>2, <2>7, <2>10, <4>1, <5>1
      <4>2. CASE j # k + 1
        <5>1. j \in 0 .. k /\ (j # 0 => j - 1 \in 0 .. k) BY <2>3, <4>2
        <5>2. sc[j] = IF j = 0 THEN began ELSE ScopeAfter(file, optMetaArgs, cs[j], sc[j - 1])
          BY <2>2, <5>1 DEF IsScope
        <5> HIDE DEF sd
        <5> QED BY <2>10, <5>1, <5>2
      <4> QED BY <4>1, <4>2
    <3> HIDE DEF sd
    <3> QED BY <3>1, <3>2 DEF IsScope
  <2> HIDE DEF sd
  <2>12. ReadInScope(sd, file, cs, Done')
    <3>1. ASSUME NEW j \in 1 .. k + 1 PROVE Done'[j] = Expand(cs[j], NewLex(file.escape), sd[j - 1])
      <4>1. CASE j = k + 1
        <5>1. j - 1 = k /\ k \in 0 .. k /\ j = next BY <2>3, <4>1
        <5> QED BY <2>2, <2>6, <2>9, <2>10, <4>1, <5>1 DEF Lex
      <4>2. CASE j # k + 1
        <5>1. j \in 1 .. k /\ j - 1 \in 0 .. k /\ j \in DOMAIN Done BY <2>3, <4>2, SequenceFacts DEF k
        <5> QED BY <2>2, <2>9, <2>10, <5>1 DEF ReadInScope
      <4> QED BY <4>1, <4>2
    <3> QED BY <2>9, <3>1 DEF ReadInScope
  <2>13. \E s : IsScope(s, file, optMetaArgs, began, cs, k + 1) /\ ReadInScope(s, file, cs, Done') /\ env' = s[k + 1]
    BY <2>10, <2>11, <2>12
  <2> QED BY <2>7, <2>8, <2>9, <2>13 DEF InScope, cs, began, n
<1> QED BY <1>1, <1>2

LEMMA InScopeStep == Shape /\ InScope /\ [Next]_vars => InScope'
<1> SUFFICES ASSUME Shape, InScope, [Next]_vars PROVE InScope'
  OBVIOUS
<1>1. CASE ReadLine \/ EndOfLines \/ ParseNode \/ EndOfFile \/ ExpandGlobal \/ EndOfGlobals \/ ExpandBase
  <2>1. phase \in {"lines", "parse", "globals", "bases"} /\ log' = log
    BY <1>1 DEF ReadLine, EndOfLines, ParseNode, EndOfFile, ExpandGlobal, EndOfGlobals, ExpandBase, NameBase,
                AddMetaArg, AddStage, AddCommand, Reject, Fail
  <2>2. log' = <<>> BY <2>1 DEF Shape, LogMade
  <2> QED BY <2>2 DEF InScope
<1>2. CASE NoStage \/ EndOfStages \/ UNCHANGED vars
  BY <1>2 DEF NoStage, EndOfStages, vars, InScope, Done
<1> QED BY <1>1, <1>2, InScopeBegin, InScopeDispatch DEF Next

LEMMA InScopeInit == Init => InScope BY DEF Init, InScope

\* The scope the definition names is the one there is.
LEMMA ScopeIsOne ==
    ASSUME NEW n \in Nat, NEW f, NEW globals, NEW began, NEW commands,
           NEW sc, IsScope(sc, f, globals, began, commands, n), NEW sd, IsScope(sd, f, globals, began, commands, n)
    PROVE  \A j \in 0 .. n : sd[j] = sc[j]
<1> DEFINE T == {j \in 0 .. n : sd[j] = sc[j]}
<1>1. 0 \in T BY DEF IsScope
<1>2. ASSUME NEW j \in 1 .. n, j - 1 \in T PROVE j \in T
  <2>1. j \in 0 .. n /\ j # 0 OBVIOUS
  <2>2. sc[j] = ScopeAfter(f, globals, commands[j], sc[j - 1]) BY <2>1 DEF IsScope
  <2>3. sd[j] = ScopeAfter(f, globals, commands[j], sd[j - 1]) BY <2>1 DEF IsScope
  <2> QED BY <1>2, <2>1, <2>2, <2>3
<1> HIDE DEF T
<1>3. 0 .. n \subseteq T BY <1>1, <1>2, SetInduction
<1> QED BY <1>3 DEF T

LEMMA AssignedIs ==
    ASSUME NEW ins, NEW scope
    PROVE  Assigned(ins, scope) = AssignedBy(file, optMetaArgs, ins, scope)
  BY DEF Assigned, AssignedBy, MeantArg, MeantBy, Text, Lex

LEMMA ScopesAgree == Shape /\ InScope => ExpandedInScope
<1> SUFFICES ASSUME Shape, InScope, log # <<>> PROVE ExpandedInScope
  BY DEF ExpandedInScope
<1> DEFINE began == log[Len(log)].began
           cs == stages[Len(log)].commands
           k == Len(Done)
           Assign(old, kvs) ==
             LET Setters(n) == {i \in DOMAIN kvs : kvs[i].key = n /\ kvs[i].set}
                 names == {kvs[i].key : i \in {i \in DOMAIN kvs : kvs[i].set}}
             IN  [n \in DOMAIN old \cup names |-> IF Setters(n) = {} THEN old[n] ELSE kvs[Max(Setters(n))].value]
           After(j, scope) == IF Source(j).name \notin {"env", "arg"} THEN scope
                              ELSE Assign(scope, Assigned(Source(j), scope))
           Is(sc) == sc = [j \in 0 .. k |-> IF j = 0 THEN began
                                            ELSE IF Source(j).name \notin {"env", "arg"} THEN sc[j - 1]
                                            ELSE Assign(sc[j - 1], Assigned(Source(j), sc[j - 1]))]
           Scope == CHOOSE sc : Is(sc)
<1>1. PICK sc : IsScope(sc, file, optMetaArgs, began, cs, k) /\ ReadInScope(sc, file, cs, Done) /\ env = sc[k]
  BY DEF InScope
<1>2. Sequence(Done) /\ k \in Nat /\ DOMAIN Done = 1 .. k
  <2>1. Sequence(log) /\ Len(log) \in Nat /\ Len(log) # 0 BY SequenceFacts DEF Shape, LogMade, Sequence
  <2>2. Len(log) \in 1 .. Len(log) BY <2>1
  <2>3. Sequence(Done) BY <2>2 DEF Done, Shape, LogMade
  <2> QED BY <2>3, SequenceFacts
<1>3. ASSUME NEW j, NEW scope PROVE After(j, scope) = ScopeAfter(file, optMetaArgs, cs[j], scope)
  <2> DEFINE kvs == AssignedBy(file, optMetaArgs, cs[j], scope)
  <2>1. Assigned(Source(j), scope) = kvs BY AssignedIs DEF Source
  <2>2. DOMAIN kvs = 1 .. Len(cs[j].words) \div 2 BY DEF AssignedBy
  <2> HIDE DEF kvs
  <2>3. Assign(scope, kvs) = AssignIn(scope, kvs, DOMAIN kvs) BY DEF AssignIn, SettersIn
  <2> HIDE DEF Assign
  <2> QED BY <2>1, <2>2, <2>3 DEF ScopeAfter, kvs, Source
<1>4. \A s : Is(s) <=> s = [j \in 0 .. k |-> IF j = 0 THEN began ELSE After(j, s[j - 1])] OBVIOUS
<1>5. ExpandedInScope <=> /\ env = Scope[k]
                          /\ \A j \in DOMAIN Done : Done[j] = Expand(Source(j), Lex, Scope[j - 1])
  BY DEF ExpandedInScope
<1> HIDE DEF After, Is
<1>6. \A s : Is(s) <=> IsScope(s, file, optMetaArgs, began, cs, k) BY <1>3, <1>4 DEF IsScope
<1>7. Is(Scope) BY <1>1, <1>6
<1> HIDE DEF Scope, k, began, cs
<1>8. \A j \in 0 .. k : Scope[j] = sc[j] BY <1>1, <1>2, <1>6, <1>7, ScopeIsOne
<1>9. env = Scope[k] BY <1>1, <1>2, <1>8
<1>10. \A j \in DOMAIN Done : Done[j] = Expand(Source(j), Lex, Scope[j - 1])
  <2>1. \A j \in DOMAIN Done : j - 1 \in 0 .. k BY <1>2
  <2> QED BY <1>1, <1>8, <2>1 DEF ReadInScope, Source, Lex, cs
<1> QED BY <1>5, <1>9, <1>10

(* Every variable of an instruction is read in the scope of the            *)
(* instructions before it in its stage, and the environment is what they   *)
(* set, each name by the last of them that does (dispatch, dispatchEnv,    *)
(* dispatchArg): for every Dockerfile, build arguments and bases.          *)
THEOREM VariablesInScope == Spec => []ExpandedInScope
<1>1. Spec => [](Shape /\ InScope) BY ShapeInit, InScopeInit, ShapeStep, InScopeStep, PTL DEF Spec
<1>2. Shape /\ InScope => ExpandedInScope BY ScopesAgree
<1> QED BY <1>1, <1>2, PTL

-----------------------------------------------------------------------------
(* The global ARGs: those before the first FROM, in their order            *)

LEMMA MapAppend ==
    ASSUME NEW args, Sequence(args), NEW a
    PROVE  MetaArgsToMap(Append(args, a)) = Define(MetaArgsToMap(args), a.key, a.value)
<1> DEFINE n == Len(args)
           more == Append(args, a)
           kvs == AsPairs(args)
           lvs == AsPairs(more)
<1>1. n \in Nat /\ DOMAIN args = 1 .. n BY SequenceFacts
<1>2. /\ Sequence(more) /\ Len(more) = n + 1 /\ more[n + 1] = a
      /\ \A i \in 1 .. n : more[i] = args[i]
  BY SequenceAppend
<1>3. DOMAIN more = 1 .. n + 1 BY <1>2, SequenceFacts
<1> HIDE DEF n, more
<1>4. MetaArgsToMap(args) = AssignIn(NoEnv, kvs, 1 .. n) BY <1>1, MapIsAssign
<1>5. MetaArgsToMap(more) = AssignIn(NoEnv, lvs, 1 .. n + 1) BY <1>1, <1>3, MapIsAssign
<1>6. /\ \A i \in 1 .. n : lvs[i] = kvs[i]
      /\ lvs[n + 1] = KV(a.key, a.value)
  BY <1>1, <1>2, <1>3 DEF AsPairs
<1> HIDE DEF kvs, lvs
<1>7. AssignIn(NoEnv, lvs, 1 .. n) = AssignIn(NoEnv, kvs, 1 .. n)
  <2>1. \A m : SettersIn(lvs, 1 .. n, m) = SettersIn(kvs, 1 .. n, m) BY <1>6 DEF SettersIn
  <2>2. {lvs[i].key : i \in {i \in 1 .. n : lvs[i].set}} = {kvs[i].key : i \in {i \in 1 .. n : kvs[i].set}} BY <1>6
  <2>3. ASSUME NEW m, SettersIn(kvs, 1 .. n, m) # {}
        PROVE  lvs[Max(SettersIn(kvs, 1 .. n, m))] = kvs[Max(SettersIn(kvs, 1 .. n, m))]
    <3> DEFINE U == SettersIn(kvs, 1 .. n, m)
    <3>1. U \in SUBSET (1 .. n) BY DEF SettersIn
    <3> HIDE DEF U
    <3>2. Max(U) \in 1 .. n BY <1>1, <2>3, <3>1, MaxOf DEF U
    <3>3. lvs[Max(U)] = kvs[Max(U)] BY <1>6, <3>2
    <3> QED BY <3>3 DEF U
  <2>4. \A m : (IF SettersIn(lvs, 1 .. n, m) = {} THEN NoEnv[m] ELSE lvs[Max(SettersIn(lvs, 1 .. n, m))].value)
                = (IF SettersIn(kvs, 1 .. n, m) = {} THEN NoEnv[m] ELSE kvs[Max(SettersIn(kvs, 1 .. n, m))].value)
    BY <2>1, <2>3
  <2> QED BY <2>2, <2>4 DEF AssignIn
<1>8. AssignIn(NoEnv, lvs, 1 .. n + 1) = Put(AssignIn(NoEnv, lvs, 1 .. n), lvs[n + 1])
  <2> DEFINE k == n + 1
             S == 1 .. k
  <2>1. k \in Nat /\ k # 0 /\ k - 1 = n /\ 1 \in S BY <1>1
  <2>5. lvs[k].set = TRUE BY <1>6 DEF KV
  <2> HIDE DEF k
  <2>2. Max(S) = k /\ S \ {k} = 1 .. n /\ S \in SUBSET (1 .. k) /\ S # {} BY <2>1, MaxOfUpto
  <2> HIDE DEF S
  <2>3. lvs[Max(S)].set \in BOOLEAN BY <2>2, <2>5
  <2>4. AssignIn(NoEnv, lvs, S) = Put(AssignIn(NoEnv, lvs, S \ {Max(S)}), lvs[Max(S)])
    <3>1. k \in Nat BY <2>1
    <3>2. S \in SUBSET (1 .. k) BY <2>2
    <3>3. S # {} BY <2>2
    <3> QED BY <2>3, <3>1, <3>2, <3>3, AssignStep
  <2> QED BY <2>2, <2>4 DEF S, k
<1> QED BY <1>4, <1>5, <1>6, <1>7, <1>8 DEF Put, KV, more

LEMMA ExtendMap ==
    ASSUME NEW args, Sequence(args), NEW arg, DOMAIN arg = ArgFields, NEW f
    PROVE  LET old == MetaArgsToMap(args)
               read == [arg EXCEPT !.value = Text(f, old, arg.value)]
           IN  MetaArgsToMap(Append(args, SetKVValue(read, f.buildArgs))) = ExtendedBy(f, old, arg)
<1> DEFINE old == MetaArgsToMap(args)
           value == Text(f, old, arg.value)
           read == [arg EXCEPT !.value = value]
           new == SetKVValue(read, f.buildArgs)
<1>1. MetaArgsToMap(Append(args, new)) = Define(old, new.key, new.value)
  <2> HIDE DEF new
  <2> QED BY MapAppend
<1> HIDE DEF value, old
<1>2. read.key = arg.key /\ read.value = value BY DEF ArgFields
<1> HIDE DEF read
<1>3. new.key = arg.key /\ new.value = Given(f, arg.key, value) BY <1>2 DEF SetKVValue, KV, Given
<1> HIDE DEF new
<1>4. Define(old, new.key, new.value) = ExtendedBy(f, old, arg) BY <1>3 DEF Define, ExtendedBy, value
<1> QED BY <1>1, <1>4 DEF new, read, value, old

LEMMA PlatformMap ==
    ASSUME NEW f
    PROVE  LET args == GetPlatformArgs(f)
           IN  MetaArgsToMap([i \in DOMAIN args |-> SetKVValue(args[i], f.buildArgs)]) = PlatformScope(f)
<1> DEFINE args == GetPlatformArgs(f)
           own == [i \in DOMAIN args |-> SetKVValue(args[i], f.buildArgs)]
           kvs == AsPairs(args)
           lvs == AsPairs(own)
           S == 1 .. 8
<1>1. DOMAIN args = S /\ \A i \in S : args[i] = KV(args[i].key, args[i].value) BY PlatformArgs
<1>2. DOMAIN own = S BY <1>1
<1>3. ASSUME NEW i \in S
      PROVE  /\ kvs[i].set = TRUE /\ kvs[i].key = args[i].key /\ kvs[i].value = args[i].value
             /\ lvs[i].set = TRUE /\ lvs[i].key = args[i].key /\ lvs[i].value = Given(f, args[i].key, args[i].value)
  <2>1. own[i] = SetKVValue(args[i], f.buildArgs) BY <1>1
  <2>2. SetKVValue(args[i], f.buildArgs) = KV(args[i].key, Given(f, args[i].key, args[i].value))
    <3> HIDE DEF args
    <3> QED BY <1>1 DEF SetKVValue, Given
  <2>3. lvs[i] = KV(own[i].key, own[i].value) BY <1>2 DEF AsPairs
  <2>4. kvs[i] = KV(args[i].key, args[i].value) BY <1>1 DEF AsPairs
  <2> HIDE DEF own, args, lvs, kvs
  <2>5. own[i].key = args[i].key /\ own[i].value = Given(f, args[i].key, args[i].value) BY <2>1, <2>2 DEF KV
  <2>6. lvs[i].set = TRUE /\ lvs[i].key = own[i].key /\ lvs[i].value = own[i].value BY <2>3 DEF KV
  <2>7. kvs[i].set = TRUE /\ kvs[i].key = args[i].key /\ kvs[i].value = args[i].value BY <2>4 DEF KV
  <2> QED BY <2>5, <2>6, <2>7
<1>4. 8 \in Nat /\ \A U \in SUBSET S : U # {} => Max(U) \in U
  <2> SUFFICES ASSUME NEW U \in SUBSET S, U # {} PROVE Max(U) \in U
    OBVIOUS
  <2> QED BY MaxOf
<1> HIDE DEF args, own
<1>5. MetaArgsToMap(args) = AssignIn(NoEnv, kvs, S) /\ MetaArgsToMap(own) = AssignIn(NoEnv, lvs, S)
  BY <1>1, <1>2, <1>4, MapIsAssign
<1> HIDE DEF kvs, lvs, S
<1>6. \A i \in S : /\ kvs[i].set /\ lvs[i].set /\ kvs[i].key = args[i].key /\ lvs[i].key = args[i].key
                   /\ lvs[i].value = Given(f, args[i].key, kvs[i].value)
  BY <1>3
<1> DEFINE keys == {args[i].key : i \in S}
           Of(n) == {i \in S : args[i].key = n}
<1>7. \A n : SettersIn(kvs, S, n) = Of(n) /\ SettersIn(lvs, S, n) = Of(n) BY <1>6 DEF SettersIn
<1>8. /\ DOMAIN NoEnv \cup {kvs[i].key : i \in {i \in S : kvs[i].set}} = keys
      /\ DOMAIN NoEnv \cup {lvs[i].key : i \in {i \in S : lvs[i].set}} = keys
  BY <1>6, EmptyEnvironment
<1>9. \A n \in keys : Of(n) # {} /\ Max(Of(n)) \in Of(n)
  <2> SUFFICES ASSUME NEW n \in keys PROVE Of(n) # {} /\ Max(Of(n)) \in Of(n)
    OBVIOUS
  <2>1. Of(n) # {} /\ Of(n) \in SUBSET S OBVIOUS
  <2> HIDE DEF Of
  <2> QED BY <1>4, <2>1
<1>10. /\ AssignIn(NoEnv, kvs, S) = [n \in keys |-> kvs[Max(Of(n))].value]
       /\ AssignIn(NoEnv, lvs, S) = [n \in keys |-> lvs[Max(Of(n))].value]
  <2> HIDE DEF keys, Of
  <2> QED BY <1>7, <1>8, <1>9 DEF AssignIn
<1>11. \A n \in keys : lvs[Max(Of(n))].value = Given(f, n, kvs[Max(Of(n))].value) BY <1>6, <1>9
<1> HIDE DEF keys, Of
<1>12. MetaArgsToMap(own) = [n \in DOMAIN MetaArgsToMap(args) |-> Given(f, n, MetaArgsToMap(args)[n])]
  BY <1>5, <1>10, <1>11
<1> QED BY <1>12 DEF PlatformScope, own, args

\* Flattening whatever sequences.
LEMMA FlattenOneMore ==
    ASSUME NEW seqs, Sequence(seqs), \A i \in 1 .. Len(seqs) : Sequence(seqs[i]), NEW s, Sequence(s)
    PROVE  FlattenSeq(Append(seqs, s)) = FlattenSeq(seqs) \o s
<1> DEFINE S == (UNION {ToSet(seqs[i]) : i \in 1 .. Len(seqs)}) \cup ToSet(s)
<1>1. Len(seqs) \in Nat /\ DOMAIN seqs = 1 .. Len(seqs) /\ seqs = [i \in 1 .. Len(seqs) |-> seqs[i]]
  BY SequenceFacts DEF Sequence
<1>2. \A i \in 1 .. Len(seqs) : seqs[i] \in Seq(S)
  <2> SUFFICES ASSUME NEW i \in 1 .. Len(seqs) PROVE seqs[i] \in Seq(S)
    OBVIOUS
  <2>1. seqs[i] \in Seq(ToSet(seqs[i])) BY DEF Sequence
  <2>2. ToSet(seqs[i]) \subseteq S OBVIOUS
  <2> HIDE DEF S
  <2> QED BY <2>1, <2>2
<1>3. s \in Seq(S)
  <2>1. s \in Seq(ToSet(s)) /\ ToSet(s) \subseteq S BY DEF Sequence
  <2> HIDE DEF S
  <2> QED BY <2>1
<1> HIDE DEF S
<1> DEFINE X == Seq(S)
<1>4. seqs \in Seq(X)
  <2>1. \A i \in 1 .. Len(seqs) : seqs[i] \in X BY <1>2
  <2> HIDE DEF X
  <2> QED BY <1>1, <2>1
<1> QED BY <1>3, <1>4, FlattenAppend DEF X

LEMMA FlattenNone == FlattenSeq(<<>>) = <<>>
<1>1. <<>> \in Seq(Seq(Nat)) /\ Len(<<>>) = 0 OBVIOUS
<1>2. PICK h \in [0 .. Len(<<>>) -> Seq(Nat)] : FlattensTo(<<>>, h) BY <1>1, FlattenRuns
<1> QED BY <1>1, <1>2 DEF FlattensTo

LEMMA FromsFinite ==
    ASSUME NEW ns, NEW p \in Nat
    PROVE  /\ IsFiniteSet(FromsUpto(ns, p)) /\ Cardinality(FromsUpto(ns, p)) \in Nat
           /\ \A i \in FromsUpto(ns, p) : Cardinality(FromsUpto(ns, i)) \in 1 .. Cardinality(FromsUpto(ns, p))
<1>1. IsFiniteSet(1 .. p) BY FS_Interval
<1>2. FromsUpto(ns, p) \subseteq 1 .. p BY DEF FromsUpto
<1>3. IsFiniteSet(FromsUpto(ns, p)) /\ Cardinality(FromsUpto(ns, p)) \in Nat BY <1>1, <1>2, FS_Subset, FS_CardinalityType
<1>4. ASSUME NEW i \in FromsUpto(ns, p) PROVE Cardinality(FromsUpto(ns, i)) \in 1 .. Cardinality(FromsUpto(ns, p))
  <2>1. i \in 1 .. p /\ ns[i].cmd = "from" BY DEF FromsUpto
  <2>2. FromsUpto(ns, i) \subseteq FromsUpto(ns, p) /\ i \in FromsUpto(ns, i) BY <2>1 DEF FromsUpto
  <2>3. /\ IsFiniteSet(FromsUpto(ns, i)) /\ Cardinality(FromsUpto(ns, i)) <= Cardinality(FromsUpto(ns, p))
        /\ Cardinality(FromsUpto(ns, i)) \in Nat
    BY <1>3, <2>2, FS_Subset, FS_CardinalityType
  <2>4. Cardinality(FromsUpto(ns, i)) # 0 BY <2>2, <2>3, FS_EmptySet
  <2> QED BY <1>3, <2>3, <2>4
<1> QED BY <1>3, <1>4

LEMMA NoFroms == \A ns : FromsUpto(ns, 0) = {} /\ Cardinality(FromsUpto(ns, 0)) = 0
  BY FS_EmptySet DEF FromsUpto

LEMMA FromsNext ==
    ASSUME NEW ns, NEW p \in Nat
    PROVE  /\ ns[p + 1].cmd # "from" => FromsUpto(ns, p + 1) = FromsUpto(ns, p)
           /\ ns[p + 1].cmd = "from" => /\ FromsUpto(ns, p + 1) = FromsUpto(ns, p) \cup {p + 1}
                                        /\ Cardinality(FromsUpto(ns, p + 1)) = Cardinality(FromsUpto(ns, p)) + 1
<1>1. ns[p + 1].cmd # "from" => FromsUpto(ns, p + 1) = FromsUpto(ns, p) BY DEF FromsUpto
<1>2. ns[p + 1].cmd = "from" => FromsUpto(ns, p + 1) = FromsUpto(ns, p) \cup {p + 1} BY DEF FromsUpto
<1>3. p + 1 \notin FromsUpto(ns, p) BY DEF FromsUpto
<1>4. IsFiniteSet(FromsUpto(ns, p)) /\ Cardinality(FromsUpto(ns, p)) \in Nat BY FromsFinite
<1>5. Cardinality(FromsUpto(ns, p) \cup {p + 1}) = Cardinality(FromsUpto(ns, p)) + 1 BY <1>3, <1>4, FS_AddElement
<1> QED BY <1>1, <1>2, <1>5

LEMMA GlobalInit == Init => GlobalInv
<1> SUFFICES ASSUME Init PROVE GlobalInv
  OBVIOUS
<1>1. phase = "lines" /\ metaArgs = <<>> /\ stages = <<>> /\ Parsed = 0 /\ Extensions = 0
  BY DEF Init, Parsed, Extensions
<1>2. IsGlobals(nodes, 0, metaArgs, 0)
  <2>1. [i \in 1 .. 0 |-> ArgsAt(nodes, i)] = <<>> OBVIOUS
  <2> QED BY <1>1, <2>1, FlattenNone DEF IsGlobals
<1>3. MetaArgsToMap(optMetaArgs) = PlatformScope(file) BY PlatformMap DEF Init
<1>4. GlobalsScoped
  <2> DEFINE sc == [k \in 0 .. 0 |-> PlatformScope(file)]
  <2>1. IsGlobalScope(sc, file, metaArgs, 0) /\ sc[0] = PlatformScope(file) BY DEF IsGlobalScope
  <2> HIDE DEF sc
  <2> QED BY <1>1, <1>3, <2>1 DEF GlobalsScoped
<1>5. StagesNamed BY <1>1, NoFroms, SequenceEmpty DEF StagesNamed
<1> QED BY <1>1, <1>2, <1>4, <1>5 DEF GlobalInv, PositionsRead, GlobalsRead

LEMMA NotReading == ~Reading' => GlobalInv'
  BY DEF Reading, GlobalInv, PositionsRead, GlobalsRead, GlobalsScoped, StagesNamed

\* Nothing of it changes but how far the reader is.
LEMMA GlobalSame ==
    ASSUME Shape, GlobalInv, Reading, Reading', UNCHANGED <<file, metaArgs, stages, optMetaArgs>>,
           Extensions' = Extensions, PositionsRead', Named = 1, Named' = 1,
           Parsed' = Parsed, \A i \in 1 .. Parsed : nodes'[i] = nodes[i], Parsed \in Nat
    PROVE  GlobalInv'
<1>1. \A p \in 0 .. Parsed : FromsUpto(nodes', p) = FromsUpto(nodes, p) BY DEF FromsUpto
<1>2. FromsUpto(nodes', Parsed) = FromsUpto(nodes, Parsed) BY <1>1
<1>3. GlobalsRead'
  <2>1. PICK g : IsGlobals(nodes, Parsed, metaArgs, g) /\ (stages = <<>> => g = Parsed) BY DEF GlobalInv, GlobalsRead
  <2>2. \A i \in 1 .. g : ArgsAt(nodes', i) = ArgsAt(nodes, i) BY <2>1 DEF IsGlobals, ArgsAt
  <2>3. [i \in 1 .. g |-> ArgsAt(nodes', i)] = [i \in 1 .. g |-> ArgsAt(nodes, i)] BY <2>2
  <2>4. IsGlobals(nodes', Parsed, metaArgs, g)
    <3>1. g \in 0 .. Parsed /\ (g < Parsed => g + 1 \in 1 .. Parsed) /\ \A i \in 1 .. g : i \in 1 .. Parsed
      BY <2>1 DEF IsGlobals
    <3>2. \A i \in 1 .. g : nodes'[i].cmd # "from" /\ Arguments(ArgsAt(nodes', i)) BY <2>1, <2>2, <3>1 DEF IsGlobals
    <3>3. g < Parsed => nodes'[g + 1].cmd = "from" BY <2>1, <3>1 DEF IsGlobals
    <3>4. metaArgs = FlattenSeq([i \in 1 .. g |-> ArgsAt(nodes', i)]) BY <2>1, <2>3 DEF IsGlobals
    <3> QED BY <3>1, <3>2, <3>3, <3>4 DEF IsGlobals
  <2> QED BY <2>1, <2>4 DEF GlobalsRead
<1>4. GlobalsScoped' BY DEF GlobalInv, GlobalsScoped
<1>5. StagesNamed'
  <2>1. ASSUME NEW i \in FromsUpto(nodes, Parsed) PROVE StageOf(i)' = StageOf(i) /\ nodes'[i] = nodes[i]
    <3>1. i \in 1 .. Parsed BY DEF FromsUpto
    <3> QED BY <1>1, <3>1 DEF StageOf
  <2> QED BY <1>2, <2>1 DEF GlobalInv, StagesNamed
<1> QED BY <1>3, <1>4, <1>5 DEF GlobalInv

LEMMA GlobalReadLine == Shape /\ GlobalInv /\ ReadLine => GlobalInv'
<1> SUFFICES ASSUME Shape, GlobalInv, ReadLine PROVE GlobalInv'
  OBVIOUS
<1>1. CASE Fail BY <1>1, FailStays, NotReading DEF Reading
<1>2. CASE ~Fail
  <2>1. phase = "lines" /\ UNCHANGED <<file, phase, metaArgs, stages, optMetaArgs>> BY <1>2 DEF ReadLine
  <2>2. Reading /\ Reading' /\ Parsed = 0 /\ Parsed' = 0 /\ Extensions = 0 /\ Extensions' = 0 /\ Named = 1 /\ Named' = 1
    BY <2>1 DEF Reading, Parsed, Extensions, Named
  <2>3. PositionsRead' BY <2>1 DEF GlobalInv, PositionsRead
  <2> QED BY <2>1, <2>2, <2>3, GlobalSame
<1> QED BY <1>1, <1>2

LEMMA GlobalEnds == Shape /\ GlobalInv /\ (EndOfLines \/ EndOfFile \/ EndOfGlobals) => GlobalInv'
<1> SUFFICES ASSUME Shape, GlobalInv, EndOfLines \/ EndOfFile \/ EndOfGlobals PROVE GlobalInv'
  OBVIOUS
<1>1. UNCHANGED <<file, nodes, metaArgs, stages, optMetaArgs>> /\ next' = 1
  BY DEF EndOfLines, EndOfFile, EndOfGlobals
<1>2. Len(nodes) \in Nat /\ Len(metaArgs) \in Nat /\ next \in Nat
  BY SequenceFacts DEF Shape, NodesMade, ArgsMade, Arguments, Position
<1>3. Reading /\ Reading' BY DEF EndOfLines, EndOfFile, EndOfGlobals, Reading
<1>4. PositionsRead' BY <1>1, <1>2 DEF EndOfLines, EndOfFile, EndOfGlobals, PositionsRead
<1>5. Parsed' = Parsed /\ Parsed \in Nat
  BY <1>1, <1>2 DEF EndOfLines, EndOfFile, EndOfGlobals, Parsed, GlobalInv, PositionsRead
<1>6. Extensions' = Extensions
  BY <1>1, <1>2 DEF EndOfLines, EndOfFile, EndOfGlobals, Extensions, GlobalInv, PositionsRead
<1>7. Named = 1 /\ Named' = 1 BY <1>1 DEF EndOfLines, EndOfFile, EndOfGlobals, Named
<1> QED BY <1>1, <1>3, <1>4, <1>5, <1>6, <1>7, GlobalSame

LEMMA GlobalExpand == Shape /\ GlobalInv /\ ExpandGlobal => GlobalInv'
<1> SUFFICES ASSUME Shape, GlobalInv, ExpandGlobal PROVE GlobalInv'
  OBVIOUS
<1> DEFINE arg == metaArgs[next]
           old == MetaArgsToMap(optMetaArgs)
           read == [arg EXCEPT !.value = Text(file, old, arg.value)]
           n == next - 1
<1>1. /\ phase = "globals" /\ next <= Len(metaArgs) /\ next' = next + 1
      /\ optMetaArgs' = Append(optMetaArgs, SetKVValue(read, file.buildArgs))
      /\ UNCHANGED <<file, phase, nodes, metaArgs, stages, env, log>>
  BY DEF ExpandGlobal, Text, Lex
<1>2. Len(metaArgs) \in Nat /\ next \in Nat \ {0} /\ next \in 1 .. Len(metaArgs) /\ n \in Nat
  BY <1>1, SequenceFacts DEF Shape, ArgsMade, Arguments, Position
<1>3. DOMAIN arg = ArgFields BY <1>2 DEF Shape, ArgsMade, Arguments
<1>4. MetaArgsToMap(optMetaArgs') = ExtendedBy(file, old, arg)
  <2>1. Sequence(optMetaArgs) BY DEF Shape, ArgsMade, Arguments
  <2> HIDE DEF arg
  <2> QED BY <1>1, <1>3, <2>1, ExtendMap
<1>5. Reading /\ Reading' /\ Extensions = n /\ Extensions' = next /\ Parsed' = Parsed /\ Named = 1 /\ Named' = 1
      /\ Parsed = Len(nodes)
  BY <1>1, <1>2 DEF Reading, Extensions, Parsed, Named
<1>6. PositionsRead' BY <1>1, <1>2 DEF GlobalInv, PositionsRead
<1>7. GlobalsRead' BY <1>1, <1>5 DEF GlobalInv, GlobalsRead
<1>8. GlobalsScoped'
  <2>1. PICK sc : IsGlobalScope(sc, file, metaArgs, n) /\ old = sc[n] BY <1>5 DEF GlobalInv, GlobalsScoped
  <2> DEFINE new == MetaArgsToMap(optMetaArgs')
             sd == [k \in 0 .. next |-> IF k = next THEN new ELSE sc[k]]
  <2>2. (\A k \in 0 .. n : sd[k] = sc[k]) /\ sd[next] = new BY <1>2
  <2>3. sd = [k \in 0 .. next |-> sd[k]] OBVIOUS
  <2> HIDE DEF sd, old, new, arg
  <2>4. ASSUME NEW k \in 0 .. next
        PROVE  sd[k] = IF k = 0 THEN PlatformScope(file) ELSE ExtendedBy(file, sd[k - 1], metaArgs[k])
    <3>1. CASE k = next
      <4>1. k # 0 /\ k - 1 = n /\ n \in 0 .. n BY <1>2, <3>1
      <4>2. new = ExtendedBy(file, old, arg) BY <1>4 DEF new
      <4> QED BY <2>1, <2>2, <3>1, <4>1, <4>2 DEF arg
    <3>2. CASE k # next
      <4>1. k \in 0 .. n /\ (k # 0 => k - 1 \in 0 .. n) BY <1>2, <3>2
      <4>2. sc[k] = IF k = 0 THEN PlatformScope(file) ELSE ExtendedBy(file, sc[k - 1], metaArgs[k])
        BY <2>1, <4>1 DEF IsGlobalScope
      <4> QED BY <2>2, <4>1, <4>2
    <3> QED BY <3>1, <3>2
  <2>5. IsGlobalScope(sd, file, metaArgs, next) BY <2>3, <2>4 DEF IsGlobalScope
  <2> QED BY <1>1, <1>5, <2>2, <2>5 DEF GlobalsScoped, new
<1>9. StagesNamed'
  <2>1. ASSUME NEW i \in FromsUpto(nodes, Parsed) PROVE ~(StageOf(i) < 1)
    <3>1. Parsed \in Nat BY <1>5, SequenceFacts DEF Shape, NodesMade
    <3>2. StageOf(i) \in 1 .. Cardinality(FromsUpto(nodes, Parsed)) BY <3>1, FromsFinite DEF StageOf
    <3> QED BY <3>2
  <2>2. \A i : StageOf(i)' = StageOf(i) BY <1>1 DEF StageOf
  <2> QED BY <1>1, <1>5, <2>1, <2>2 DEF GlobalInv, StagesNamed
<1> QED BY <1>6, <1>7, <1>8, <1>9 DEF GlobalInv

\* A node more is read, and no global scope is touched.
LEMMA ScopedParse ==
    ASSUME GlobalInv, phase = "parse", phase' = "parse", UNCHANGED <<file, optMetaArgs>>
    PROVE  GlobalsScoped'
<1>1. Extensions = 0 /\ Extensions' = 0 BY DEF Extensions
<1>2. PICK sc : IsGlobalScope(sc, file, metaArgs, 0) /\ MetaArgsToMap(optMetaArgs) = sc[0]
  BY <1>1 DEF GlobalInv, GlobalsScoped, Reading
<1>3. IsGlobalScope(sc, file, metaArgs', 0)
  <2>1. sc = [k \in 0 .. 0 |-> PlatformScope(file)] BY <1>2 DEF IsGlobalScope
  <2> QED BY <2>1 DEF IsGlobalScope
<1> QED BY <1>1, <1>2, <1>3 DEF GlobalsScoped

LEMMA GlobalParseNode == Shape /\ GlobalInv /\ ParseNode => GlobalInv'
<1> SUFFICES ASSUME Shape, GlobalInv, ParseNode PROVE GlobalInv'
  OBVIOUS
<1> DEFINE ins == ParseInstruction(nodes[next])
           p == next - 1
<1>1. phase = "parse" /\ next \in 1 .. Len(nodes) /\ Len(nodes) \in Nat /\ next \in Nat
  <2>1. Len(nodes) \in Nat BY SequenceFacts DEF Shape, NodesMade
  <2> QED BY <2>1 DEF ParseNode, Shape, Position
<1>2. AddMetaArg(ins) \/ AddStage(ins) \/ AddCommand(ins) \/ Reject(ins) BY DEF ParseNode
<1>3. IsCommand(ins) BY <1>1, MadeNode
<1>4. Sequence(stages) /\ Len(stages) \in Nat /\ DOMAIN stages = 1 .. Len(stages) /\ (stages # <<>> => Len(stages) # 0)
  BY SequenceFacts DEF Shape, StagesMade, Sequence
<1>5. CASE Reject(ins) BY <1>5, FailStays, NotReading DEF Reject, Reading
<1>6. (ins.ok => ins.name = nodes[next].cmd) /\ (ins.name \in {"arg", "from"} => ins.ok) BY InstructionName
<1>7. p \in Nat /\ Parsed = p /\ p + 1 = next /\ Reading /\ Named = 1 BY <1>1 DEF Parsed, Reading, Named
<1>8. PICK g : IsGlobals(nodes, p, metaArgs, g) /\ (stages = <<>> => g = p) BY <1>7 DEF GlobalInv, GlobalsRead
<1>9. /\ Len(stages) = Cardinality(FromsUpto(nodes, p))
      /\ \A i \in FromsUpto(nodes, p) : StageOf(i) \in 1 .. Len(stages) /\ IsAsRead(stages[StageOf(i)], ParseInstruction(nodes[i]))
  <2>1. Len(stages) = Cardinality(FromsUpto(nodes, p)) BY <1>7 DEF GlobalInv, StagesNamed
  <2>2. \A i \in FromsUpto(nodes, p) : StageOf(i) \in 1 .. Len(stages) BY <1>7, <2>1, FromsFinite DEF StageOf
  <2>3. \A i \in FromsUpto(nodes, p) : ~(StageOf(i) < 1) BY <2>2
  <2> QED BY <1>7, <2>1, <2>2, <2>3 DEF GlobalInv, StagesNamed
<1>10. stages # <<>> => g < p
  <2> SUFFICES ASSUME stages # <<>>, ~(g < p) PROVE FALSE
    BY <1>7
  <2>1. g = p BY <1>7, <1>8 DEF IsGlobals
  <2>2. FromsUpto(nodes, p) = {} BY <1>8, <2>1 DEF IsGlobals, FromsUpto
  <2> QED BY <1>4, <1>9, <2>2, FS_EmptySet
<1> HIDE DEF ins, p
<1>11. CASE AddMetaArg(ins)
  <2>1. /\ stages = <<>> /\ g = p /\ nodes[next].cmd = "arg" /\ metaArgs' = metaArgs \o ArgPairs(ins) /\ next' = next + 1
        /\ UNCHANGED <<file, phase, nodes, stages, optMetaArgs, env, log>>
    BY <1>6, <1>8, <1>11 DEF AddMetaArg
  <2>2. Reading' /\ Parsed' = next /\ Named' = 1 /\ PositionsRead'
    BY <1>1, <2>1 DEF Reading, Parsed, Named, PositionsRead
  <2>3. Arguments(ArgPairs(ins)) BY <1>3, <1>11, ArgPairsMade DEF AddMetaArg
  <2>4. metaArgs' = FlattenSeq([i \in 1 .. next |-> ArgsAt(nodes, i)])
    <3> DEFINE at(i) == ArgsAt(nodes, i)
               seqs == [i \in 1 .. p |-> at(i)]
               more == [i \in 1 .. next |-> at(i)]
    <3>1. DOMAIN seqs = 1 .. p /\ seqs = [i \in DOMAIN seqs |-> seqs[i]] OBVIOUS
    <3>2. at(next) = ArgPairs(ins) BY DEF ArgsAt, ins
    <3>3. \A i \in 1 .. p : Sequence(seqs[i])
      <4>1. \A i \in 1 .. p : seqs[i] = at(i) OBVIOUS
      <4>2. \A i \in 1 .. p : Arguments(at(i)) BY <1>8, <2>1 DEF IsGlobals
      <4> HIDE DEF seqs, at
      <4> QED BY <4>1, <4>2 DEF Arguments
    <3>4. metaArgs = FlattenSeq(seqs) BY <1>8, <2>1 DEF IsGlobals
    <3>5. \A i \in 1 .. p : seqs[i] = at(i) OBVIOUS
    <3> HIDE DEF seqs, at
    <3>6. Sequence(seqs) /\ Len(seqs) = p BY <1>7, <3>1, SequenceOf
    <3>7. more = Append(seqs, at(next))
      <4>1. /\ Sequence(Append(seqs, at(next))) /\ Len(Append(seqs, at(next))) = p + 1
            /\ \A i \in 1 .. p : Append(seqs, at(next))[i] = seqs[i]
            /\ Append(seqs, at(next))[p + 1] = at(next)
        BY <3>6, SequenceAppend
      <4>2. DOMAIN more = 1 .. next OBVIOUS
      <4> DEFINE s == Append(seqs, at(next))
      <4>3. DOMAIN s = 1 .. next /\ s = [i \in 1 .. next |-> s[i]]
        <5>1. Sequence(s) /\ Len(s) = next BY <1>7, <4>1
        <5> HIDE DEF s
        <5> QED BY <5>1, SequenceFacts DEF Sequence
      <4>4. ASSUME NEW i \in 1 .. next PROVE s[i] = at(i)
        <5>1. i \in 1 .. p \/ i = p + 1 BY <1>7
        <5> QED BY <1>7, <3>5, <4>1, <5>1
      <4> HIDE DEF s
      <4>5. s = more BY <4>3, <4>4
      <4> QED BY <4>5 DEF s
    <3>8. FlattenSeq(Append(seqs, at(next))) = FlattenSeq(seqs) \o at(next)
      <4>1. Sequence(at(next)) BY <2>3, <3>2 DEF Arguments
      <4> QED BY <3>3, <3>6, <4>1, FlattenOneMore
    <3>9. metaArgs' = FlattenSeq(more) BY <2>1, <3>2, <3>4, <3>7, <3>8
    <3> QED BY <3>9 DEF at
  <2>5. IsGlobals(nodes, next, metaArgs', next)
    <3>1. ASSUME NEW i \in 1 .. next PROVE nodes[i].cmd # "from" /\ Arguments(ArgsAt(nodes, i))
      <4>1. CASE i = next BY <2>1, <2>3, <4>1 DEF ArgsAt, ins
      <4>2. CASE i # next
        <5>1. i \in 1 .. p BY <1>7, <4>2
        <5> QED BY <1>8, <2>1, <5>1 DEF IsGlobals
      <4> QED BY <4>1, <4>2
    <3> QED BY <1>1, <2>4, <3>1 DEF IsGlobals
  <2>6. GlobalsRead' BY <2>1, <2>2, <2>5 DEF GlobalsRead
  <2>7. GlobalsScoped' BY <1>1, <2>1, ScopedParse
  <2>8. StagesNamed'
    <3>1. FromsUpto(nodes, next) = FromsUpto(nodes, p) BY <1>7, <2>1, FromsNext
    <3>2. \A i : StageOf(i)' = StageOf(i) BY <2>1 DEF StageOf
    <3>3. \A i \in FromsUpto(nodes, p) : ~(StageOf(i) < 1) BY <1>9
    <3> QED BY <1>9, <2>1, <2>2, <3>1, <3>2, <3>3 DEF StagesNamed
  <2> QED BY <2>2, <2>6, <2>7, <2>8 DEF GlobalInv
<1>12. CASE AddStage(ins)
  <2>1. /\ nodes[next].cmd = "from" /\ stages' = Append(stages, NewStage(ins)) /\ next' = next + 1
        /\ UNCHANGED <<file, phase, nodes, metaArgs, optMetaArgs, env, log>>
    BY <1>6, <1>12 DEF AddStage
  <2>2. Reading' /\ Parsed' = next /\ Named' = 1 /\ PositionsRead'
    BY <1>1, <2>1 DEF Reading, Parsed, Named, PositionsRead
  <2>3. /\ Sequence(stages') /\ Len(stages') = Len(stages) + 1 /\ stages' # <<>>
        /\ \A k \in 1 .. Len(stages) : stages'[k] = stages[k]
        /\ stages'[Len(stages) + 1] = NewStage(ins)
    BY <1>4, <2>1, SequenceAppend
  <2>4. IsGlobals(nodes, next, metaArgs, g)
    <3>1. g \in 0 .. next BY <1>7, <1>8 DEF IsGlobals
    <3>2. nodes[g + 1].cmd = "from"
      <4>1. g < p \/ g = p BY <1>7, <1>8 DEF IsGlobals
      <4> QED BY <1>7, <1>8, <2>1, <4>1 DEF IsGlobals
    <3> QED BY <1>8, <3>1, <3>2 DEF IsGlobals
  <2>5. GlobalsRead' BY <2>1, <2>2, <2>3, <2>4 DEF GlobalsRead
  <2>6. GlobalsScoped' BY <1>1, <2>1, ScopedParse
  <2>7. StagesNamed'
    <3>1. /\ FromsUpto(nodes, next) = FromsUpto(nodes, p) \cup {next}
          /\ Cardinality(FromsUpto(nodes, next)) = Len(stages) + 1
      BY <1>7, <1>9, <2>1, FromsNext
    <3>2. \A i : StageOf(i)' = StageOf(i) BY <2>1 DEF StageOf
    <3>3. ASSUME NEW i \in FromsUpto(nodes, next)
          PROVE  ~(StageOf(i) < 1) /\ IsAsRead(stages'[StageOf(i)], ParseInstruction(nodes[i]))
      <4>1. CASE i = next
        <5>1. StageOf(i) = Len(stages) + 1 BY <3>1, <4>1 DEF StageOf
        <5>2. IsAsRead(NewStage(ins), ins) BY DEF IsAsRead, NewStage
        <5> QED BY <1>4, <2>3, <4>1, <5>1, <5>2 DEF ins
      <4>2. CASE i # next
        <5>1. i \in FromsUpto(nodes, p) BY <3>1, <4>2
        <5>2. StageOf(i) \in 1 .. Len(stages) /\ IsAsRead(stages[StageOf(i)], ParseInstruction(nodes[i])) BY <1>9, <5>1
        <5>3. stages'[StageOf(i)] = stages[StageOf(i)] BY <2>3, <5>2
        <5> QED BY <5>2, <5>3
      <4> QED BY <4>1, <4>2
    <3> QED BY <2>1, <2>2, <2>3, <3>1, <3>2, <3>3 DEF StagesNamed
  <2> QED BY <2>2, <2>5, <2>6, <2>7 DEF GlobalInv
<1>13. CASE AddCommand(ins)
  <2>1. /\ nodes[next].cmd # "from" /\ stages # <<>> /\ next' = next + 1
        /\ stages' = [stages EXCEPT ![Len(stages)].commands = Append(@, ins), ![Len(stages)].lines = Append(@, next)]
        /\ UNCHANGED <<file, phase, nodes, metaArgs, optMetaArgs, env, log>>
    BY <1>6, <1>13 DEF AddCommand
  <2>2. Reading' /\ Parsed' = next /\ Named' = 1 /\ PositionsRead'
    BY <1>1, <2>1 DEF Reading, Parsed, Named, PositionsRead
  <2>3. /\ Len(stages') = Len(stages) /\ stages' # <<>>
        /\ \A k \in 1 .. Len(stages) : stages'[k].base = stages[k].base /\ stages'[k].platform = stages[k].platform
    <3> DEFINE n == Len(stages)
               one == [stages EXCEPT ![n].commands = Append(@, ins)]
    <3>1. stages' = [one EXCEPT ![n].lines = Append(@, next)] BY <2>1
    <3>2. DOMAIN one = 1 .. n /\ DOMAIN stages' = 1 .. n /\ stages' = [k \in DOMAIN stages' |-> stages'[k]]
      <4>1. DOMAIN one = 1 .. n BY <1>4
      <4> HIDE DEF one
      <4> QED BY <3>1, <4>1
    <3>3. ASSUME NEW k \in 1 .. n PROVE one[k].base = stages[k].base /\ one[k].platform = stages[k].platform
      <4>1. DOMAIN stages[k] = StageFields BY DEF Shape, StagesMade, StageMade
      <4>2. k # n => one[k] = stages[k] BY <1>4
      <4>3. k = n => one[k] = [stages[k] EXCEPT !.commands = Append(@, ins)] BY <1>4
      <4> DEFINE s == stages[k]
                 t == [s EXCEPT !.commands = Append(@, ins)]
      <4> HIDE DEF s
      <4>4. t.base = s.base /\ t.platform = s.platform BY <4>1 DEF StageFields, s
      <4> HIDE DEF one, t
      <4> QED BY <4>2, <4>3, <4>4 DEF s, t
    <3>6. \A k \in 1 .. n : DOMAIN one[k] = StageFields
      <4> SUFFICES ASSUME NEW k \in 1 .. n PROVE DOMAIN one[k] = StageFields
        OBVIOUS
      <4>1. DOMAIN stages[k] = StageFields BY DEF Shape, StagesMade, StageMade
      <4>2. k # n => one[k] = stages[k] BY <1>4
      <4>3. k = n => one[k] = [stages[k] EXCEPT !.commands = Append(@, ins)] BY <1>4
      <4> HIDE DEF one
      <4> QED BY <4>1, <4>2, <4>3
    <3> HIDE DEF one
    <3>4. ASSUME NEW k \in 1 .. n PROVE stages'[k].base = one[k].base /\ stages'[k].platform = one[k].platform
      <4>1. DOMAIN one[k] = StageFields BY <3>6
      <4>2. k # n => stages'[k] = one[k] BY <3>1, <3>2
      <4>3. k = n => stages'[k] = [one[k] EXCEPT !.lines = Append(@, next)] BY <3>1, <3>2
      <4> DEFINE s == one[k]
                 t == [s EXCEPT !.lines = Append(@, next)]
      <4> HIDE DEF s
      <4>4. t.base = s.base /\ t.platform = s.platform BY <4>1 DEF StageFields, s
      <4> HIDE DEF t
      <4> QED BY <4>2, <4>3, <4>4 DEF s, t
    <3> HIDE DEF n
    <3>5. Sequence(stages') /\ Len(stages') = n BY <1>4, <3>2, SequenceOf DEF n
    <3>7. stages' # <<>> BY <1>4, <2>1, <3>5, SequenceEmpty DEF n
    <3> QED BY <3>3, <3>4, <3>5, <3>7 DEF n
  <2>4. g < p BY <1>10, <2>1
  <2>5. IsGlobals(nodes, next, metaArgs, g)
    <3>1. g \in 0 .. next BY <1>7, <1>8 DEF IsGlobals
    <3> QED BY <1>8, <2>4, <3>1 DEF IsGlobals
  <2>6. GlobalsRead' BY <2>1, <2>2, <2>3, <2>5 DEF GlobalsRead
  <2>7. GlobalsScoped' BY <1>1, <2>1, ScopedParse
  <2>8. StagesNamed'
    <3>1. FromsUpto(nodes, next) = FromsUpto(nodes, p) BY <1>7, <2>1, FromsNext
    <3>2. \A i : StageOf(i)' = StageOf(i) BY <2>1 DEF StageOf
    <3>3. \A i \in FromsUpto(nodes, p) : ~(StageOf(i) < 1) /\ IsAsRead(stages'[StageOf(i)], ParseInstruction(nodes[i]))
      BY <1>9, <2>3 DEF IsAsRead
    <3> QED BY <1>9, <2>1, <2>2, <2>3, <3>1, <3>2, <3>3 DEF StagesNamed
  <2> QED BY <2>2, <2>6, <2>7, <2>8 DEF GlobalInv
<1> QED BY <1>2, <1>5, <1>11, <1>12, <1>13

LEMMA GlobalExpandBase == Shape /\ GlobalInv /\ ExpandBase => GlobalInv'
<1> SUFFICES ASSUME Shape, GlobalInv, ExpandBase PROVE GlobalInv'
  OBVIOUS
<1> DEFINE scope == MetaArgsToMap(optMetaArgs)
           named == Process(Lex, scope, stages[next].base)
           built == Process(Lex, scope, stages[next].platform)
<1>1. phase = "bases" /\ next <= Len(stages) /\ (NameBase(named, built) \/ Fail) BY DEF ExpandBase
<1>2. CASE Fail BY <1>2, FailStays, NotReading DEF Reading
<1>3. CASE NameBase(named, built)
  <2>1. Sequence(stages) /\ Len(stages) \in Nat /\ DOMAIN stages = 1 .. Len(stages) /\ next \in 1 .. Len(stages)
    <3>1. Sequence(stages) /\ Len(stages) \in Nat /\ DOMAIN stages = 1 .. Len(stages)
      BY SequenceFacts DEF Shape, StagesMade
    <3> QED BY <1>1, <3>1 DEF Shape, Position
  <2>2. /\ stages' = [stages EXCEPT ![next].base = named.text, ![next].platform = built.text]
        /\ next' = next + 1
        /\ UNCHANGED <<file, phase, nodes, metaArgs, optMetaArgs, env, log>>
    BY <1>3 DEF NameBase
  <2>3. named.text = Text(file, scope, stages[next].base) /\ built.text = Text(file, scope, stages[next].platform)
    BY DEF Text, Lex
  <2> HIDE DEF named, built
  <2> DEFINE old == stages[next]
             new == [[old EXCEPT !.base = named.text] EXCEPT !.platform = built.text]
  <2>4. \A k \in 1 .. Len(stages) : stages'[k] = IF k = next THEN new ELSE stages[k] BY <2>1, <2>2
  <2>5. DOMAIN stages' = 1 .. Len(stages) /\ stages' = [k \in DOMAIN stages' |-> stages'[k]] BY <2>1, <2>2
  <2>6. DOMAIN old = StageFields BY <2>1 DEF Shape, StagesMade, StageMade
  <2>7. new.base = named.text /\ new.platform = built.text
    <3> HIDE DEF old
    <3> QED BY <2>6 DEF StageFields
  <2> HIDE DEF new, old
  <2>8. Sequence(stages') /\ Len(stages') = Len(stages) /\ stages' # <<>> /\ stages # <<>>
    BY <2>1, <2>5, SequenceOf, SequenceEmpty
  <2>9. Reading /\ Reading' /\ Parsed = Len(nodes) /\ Parsed' = Parsed /\ Extensions = Len(metaArgs)
        /\ Extensions' = Extensions /\ Named = next /\ Named' = next + 1
    BY <1>1, <2>2 DEF Reading, Parsed, Extensions, Named
  <2>10. PositionsRead' BY <1>1, <2>2 DEF PositionsRead
  <2>11. GlobalsRead' BY <2>2, <2>8, <2>9 DEF GlobalInv, GlobalsRead
  <2>12. GlobalsScoped' BY <2>2, <2>9 DEF GlobalInv, GlobalsScoped
  <2>13. StagesNamed'
    <3>1. \A i : StageOf(i)' = StageOf(i) BY <2>2 DEF StageOf
    <3>2. Len(nodes) \in Nat BY SequenceFacts DEF Shape, NodesMade
    <3>3. Len(stages) = Cardinality(FromsUpto(nodes, Len(nodes))) BY <2>9 DEF GlobalInv, StagesNamed
    <3>4. ASSUME NEW i \in FromsUpto(nodes, Len(nodes))
          PROVE  IF StageOf(i) < next + 1
                 THEN IsNamed(stages'[StageOf(i)], ParseInstruction(nodes[i]), file, scope)
                 ELSE IsAsRead(stages'[StageOf(i)], ParseInstruction(nodes[i]))
      <4> DEFINE k == StageOf(i)
                 ins == ParseInstruction(nodes[i])
      <4>1. k \in 1 .. Len(stages) BY <3>2, <3>3, FromsFinite DEF StageOf
      <4>2. IF k < next THEN IsNamed(stages[k], ins, file, scope) ELSE IsAsRead(stages[k], ins)
        BY <2>9 DEF GlobalInv, StagesNamed
      <4> HIDE DEF k, ins, scope
      <4>3. CASE k = next
        <5>1. IsAsRead(old, ins) BY <2>1, <4>2, <4>3 DEF old
        <5>2. IsNamed(new, ins, file, scope) BY <2>3, <2>7, <5>1 DEF IsAsRead, IsNamed, old
        <5> QED BY <2>1, <2>4, <4>3, <5>2 DEF k, ins
      <4>4. CASE k # next
        <5>1. stages'[k] = stages[k] BY <2>4, <4>1, <4>4
        <5>2. k < next + 1 <=> k < next BY <2>1, <4>1, <4>4
        <5> QED BY <4>2, <5>1, <5>2 DEF k, ins
      <4> QED BY <4>3, <4>4
    <3> QED BY <2>2, <2>8, <2>9, <3>1, <3>3, <3>4 DEF StagesNamed
  <2> QED BY <2>10, <2>11, <2>12, <2>13 DEF GlobalInv
<1> QED BY <1>1, <1>2, <1>3

LEMMA GlobalStep == Shape /\ GlobalInv /\ [Next]_vars => GlobalInv'
<1> SUFFICES ASSUME Shape, GlobalInv, [Next]_vars PROVE GlobalInv'
  OBVIOUS
<1>1. CASE ReadLine BY <1>1, GlobalReadLine
<1>2. CASE EndOfLines \/ EndOfFile \/ EndOfGlobals BY <1>2, GlobalEnds
<1>3. CASE ParseNode BY <1>3, GlobalParseNode
<1>4. CASE ExpandGlobal BY <1>4, GlobalExpand
<1>5. CASE ExpandBase BY <1>5, GlobalExpandBase
<1>6. CASE NoStage \/ BeginStage \/ SkipStage \/ EndOfStages
  BY <1>6, NotReading DEF NoStage, BeginStage, SkipStage, EndOfStages, Reading
<1>7. CASE Dispatch
  <2>1. phase = "dispatch" BY <1>7 DEF Dispatch, Dispatching
  <2>2. phase' \in {"dispatch", "failed"} BY <1>7, <2>1 DEF Dispatch, Fail
  <2> QED BY <2>2, NotReading DEF Reading
<1>8. CASE UNCHANGED vars
  BY <1>8 DEF vars, GlobalInv, PositionsRead, GlobalsRead, GlobalsScoped, StagesNamed, Reading, Parsed, Extensions,
              Named, StageOf
<1> QED BY <1>1, <1>2, <1>3, <1>4, <1>5, <1>6, <1>7, <1>8 DEF Next

LEMMA GlobalScopeIsOne ==
    ASSUME NEW n \in Nat, NEW f, NEW args, NEW sc, IsGlobalScope(sc, f, args, n), NEW sd, IsGlobalScope(sd, f, args, n)
    PROVE  sd[n] = sc[n]
<1> DEFINE T == {k \in 0 .. n : sd[k] = sc[k]}
<1>1. 0 \in T BY DEF IsGlobalScope
<1>2. ASSUME NEW k \in 1 .. n, k - 1 \in T PROVE k \in T
  <2>1. k \in 0 .. n /\ k # 0 OBVIOUS
  <2>2. sc[k] = ExtendedBy(f, sc[k - 1], args[k]) BY <2>1 DEF IsGlobalScope
  <2>3. sd[k] = ExtendedBy(f, sd[k - 1], args[k]) BY <2>1 DEF IsGlobalScope
  <2> QED BY <1>2, <2>1, <2>2, <2>3
<1> HIDE DEF T
<1>3. 0 .. n \subseteq T BY <1>1, <1>2, SetInduction
<1> QED BY <1>3 DEF T

LEMMA GlobalsAgree == Shape /\ GlobalInv => GlobalsInScope
<1> SUFFICES ASSUME Shape, GlobalInv, phase = "bases" PROVE GlobalsInScope
  BY DEF GlobalsInScope
<1> DEFINE p == Len(nodes)
           given(n, value) == IF n \in DOMAIN file.buildArgs THEN file.buildArgs[n] ELSE value
           extended(old, arg) == [n \in DOMAIN old \cup {arg.key} |->
                                     IF n # arg.key THEN old[n] ELSE given(n, Process(Lex, old, arg.value).text)]
           Is(sc, args, platform) ==
             sc = [k \in 0 .. Len(args) |-> IF k = 0 THEN [n \in DOMAIN platform |-> given(n, platform[n])]
                                            ELSE extended(sc[k - 1], args[k])]
           Scopes(args, platform) == (CHOOSE sc : Is(sc, args, platform))[Len(args)]
           named(stage, ins, scope) ==
             /\ stage.base = Process(Lex, scope, ins.words[1]).text
             /\ stage.platform = Process(Lex, scope, FlagValue(ins.flags, <<"platform">>, <<>>)).text
           order(i) == Cardinality({h \in Froms : h <= i})
           Agrees(scope) ==
             /\ MetaArgsToMap(optMetaArgs) = scope
             /\ \A i \in Froms : order(i) < next => named(stages[order(i)], ParseInstruction(nodes[i]), scope)
           Globals == {i \in DOMAIN nodes : \A f \in Froms : i < f}
           platform == MetaArgsToMap(GetPlatformArgs(file))
           all == FlattenSeq([i \in 1 .. Cardinality(Globals) |-> ArgPairs(ParseInstruction(nodes[i]))])
<1>1. GlobalsInScope <=> Agrees(Scopes(all, platform)) BY DEF GlobalsInScope
<1>2. p \in Nat /\ DOMAIN nodes = 1 .. p BY SequenceFacts DEF Shape, NodesMade
<1>3. Reading /\ Parsed = p /\ Extensions = Len(metaArgs) /\ Named = next BY DEF Reading, Parsed, Extensions, Named
<1>4. Len(metaArgs) \in Nat BY SequenceFacts DEF Shape, ArgsMade, Arguments
<1> HIDE DEF p
<1>5. Froms = FromsUpto(nodes, p) BY <1>2 DEF Froms, FromsUpto
<1>6. all = metaArgs
  <2>1. PICK g : IsGlobals(nodes, p, metaArgs, g) BY <1>3 DEF GlobalInv, GlobalsRead
  <2>2. g \in Nat /\ g <= p BY <1>2, <2>1 DEF IsGlobals
  <2>3. Globals = 1 .. g
    <3>1. ASSUME NEW i \in 1 .. g PROVE i \in Globals
      <4>1. i \in 1 .. p BY <1>2, <2>2
      <4>2. ASSUME NEW f \in Froms PROVE i < f
        <5>1. f \in 1 .. p /\ nodes[f].cmd = "from" BY <1>5 DEF FromsUpto
        <5>2. f \notin 1 .. g BY <2>1, <5>1 DEF IsGlobals
        <5> QED BY <2>2, <5>1, <5>2
      <4> QED BY <1>2, <4>1, <4>2
    <3>2. ASSUME NEW i \in Globals PROVE i \in 1 .. g
      <4>1. i \in 1 .. p /\ \A f \in Froms : i < f BY <1>2
      <4>2. CASE g < p
        <5>1. g + 1 \in Froms BY <1>2, <1>5, <2>1, <2>2, <4>2 DEF IsGlobals, FromsUpto
        <5> QED BY <2>2, <4>1, <5>1
      <4>3. CASE ~(g < p) BY <1>2, <2>2, <4>1, <4>3
      <4> QED BY <4>2, <4>3
    <3> QED BY <3>1, <3>2
  <2>4. Cardinality(Globals) = g
    <3>1. Cardinality(1 .. g) = g BY <2>2, FS_Interval
    <3> QED BY <2>3, <3>1
  <2> QED BY <2>1, <2>4 DEF IsGlobals, ArgsAt
<1>7. \A sc : Is(sc, metaArgs, platform) <=> IsGlobalScope(sc, file, metaArgs, Len(metaArgs))
  BY DEF IsGlobalScope, PlatformScope, ExtendedBy, Given, Text, Lex
<1>8. PICK sc : /\ IsGlobalScope(sc, file, metaArgs, Len(metaArgs))
                /\ MetaArgsToMap(optMetaArgs) = sc[Len(metaArgs)]
  BY <1>3 DEF GlobalInv, GlobalsScoped
<1> HIDE DEF Is, platform, all
<1>9. Scopes(all, platform) = MetaArgsToMap(optMetaArgs)
  <2> DEFINE sd == CHOOSE s : Is(s, metaArgs, platform)
  <2>1. Is(sd, metaArgs, platform) BY <1>7, <1>8
  <2> HIDE DEF sd
  <2>2. IsGlobalScope(sd, file, metaArgs, Len(metaArgs)) BY <1>7, <2>1
  <2>3. sd[Len(metaArgs)] = sc[Len(metaArgs)] BY <1>4, <1>8, <2>2, GlobalScopeIsOne
  <2> QED BY <1>6, <1>8, <2>3 DEF sd
<1> HIDE DEF Scopes
<1> DEFINE scope == MetaArgsToMap(optMetaArgs)
<1>10. ASSUME NEW i \in Froms, order(i) < next PROVE named(stages[order(i)], ParseInstruction(nodes[i]), scope)
  <2>1. i \in 1 .. p BY <1>5 DEF FromsUpto
  <2>2. {h \in Froms : h <= i} = FromsUpto(nodes, i) BY <1>2, <1>5, <2>1 DEF FromsUpto
  <2>3. order(i) = StageOf(i) BY <2>2 DEF StageOf
  <2> HIDE DEF order, scope
  <2>4. IsNamed(stages[StageOf(i)], ParseInstruction(nodes[i]), file, scope)
    BY <1>3, <1>5, <1>10, <2>3 DEF GlobalInv, StagesNamed, scope
  <2> QED BY <2>3, <2>4 DEF IsNamed, Text, Lex
<1> QED BY <1>1, <1>9, <1>10

(* The global ARGs are those before the first FROM, each read in the scope *)
(* of the ones before it; build arguments take the place of declared names *)
(* and of no other; every base name and every platform is read in the      *)
(* scope of all of them (Parse, Dockerfile2LLB): for every Dockerfile,     *)
(* build arguments and platforms.                                          *)
THEOREM GlobalsInTheirScope == Spec => []GlobalsInScope
<1>1. Spec => [](Shape /\ GlobalInv) BY ShapeInit, GlobalInit, ShapeStep, GlobalStep, PTL DEF Spec
<1>2. Shape /\ GlobalInv => GlobalsInScope BY GlobalsAgree
<1> QED BY <1>1, <1>2, PTL

-----------------------------------------------------------------------------
(* The lexer on a text in which a $ can only be the last character: it     *)
(* reads on from later positions, up to one behind the end.                *)
Stops == {EOF, "}", DoubleQuote}
ReadFields == {"ok", "text", "parts", "next"}
IsReading(r, i, n) == DOMAIN r = ReadFields /\ r.ok \in BOOLEAN /\ (r.ok => r.next \in i .. n + 1)
Tame(s) == Sequence(s) /\ \A i \in 1 .. Len(s) : s[i] # EOF /\ (s[i] = "$" => i = Len(s))
Lexed(g, lx, e, s, i, stop) == ReadFrom(lx, e, s, i, stop, LAMBDA j, t : g[<<j, t>>])

LEMMA Failed == \A i, n : IsReading(Failure, i, n) /\ Failure.ok = FALSE
  BY DEF Failure, IsReading, ReadFields

LEMMA WasRead ==
    ASSUME NEW text, NEW i, NEW n, NEW to \in i .. n + 1
    PROVE  IsReading(Read(text, to), i, n) /\ Read(text, to).ok = TRUE /\ Read(text, to).text = text
           /\ Read(text, to).next = to /\ Read(text, to).parts = <<>>
  BY DEF Read, IsReading, ReadFields

PartOf(word, splits) == [text |-> word, splits |-> splits]
IsRead(r, text, parts, to) == DOMAIN r = ReadFields /\ r.ok = TRUE /\ r.text = text /\ r.parts = parts /\ r.next = to

LEMMA TextInFront ==
    ASSUME NEW text, NEW word, NEW splits, NEW rest, NEW more, NEW parts, NEW to, IsRead(rest, more, parts, to)
    PROVE  IsRead(InFront(text, word, splits, rest), text \o more, <<PartOf(word, splits)>> \o parts, to)
<1> DEFINE part == PartOf(word, splits)
           r == InFront(text, word, splits, rest)
           one == [rest EXCEPT !.text = text \o @]
           two == [one EXCEPT !.parts = <<part>> \o @]
<1> HIDE DEF part
<1>0. DOMAIN rest = ReadFields /\ rest.ok = TRUE /\ rest.text = more /\ rest.parts = parts /\ rest.next = to BY DEF IsRead
<1>1. r = two BY <1>0 DEF InFront, part, PartOf
<1>2. /\ DOMAIN one = ReadFields /\ one.text = text \o more /\ one.parts = parts
      /\ one.next = to /\ one.ok = TRUE
  BY <1>0 DEF ReadFields
<1> HIDE DEF one
<1>3. /\ DOMAIN two = ReadFields /\ two.text = one.text /\ two.parts = <<part>> \o one.parts
      /\ two.next = one.next /\ two.ok = TRUE
  BY <1>2 DEF ReadFields
<1> HIDE DEF two, r
<1> QED BY <1>1, <1>2, <1>3 DEF r, part, IsRead

LEMMA ReadInFront ==
    ASSUME NEW text, NEW word, NEW splits, NEW n \in Nat, NEW j \in Int, NEW rest, IsReading(rest, j, n), NEW i \in Int, i <= j
    PROVE  IsReading(InFront(text, word, splits, rest), i, n)
<1> DEFINE r == InFront(text, word, splits, rest)
<1>1. CASE ~rest.ok
  <2>1. r = Failure BY <1>1 DEF InFront
  <2> HIDE DEF r
  <2> QED BY <2>1, Failed DEF r
<1>2. CASE rest.ok
  <2>1. DOMAIN rest = ReadFields /\ rest.ok = TRUE /\ rest.next \in j .. n + 1 BY <1>2 DEF IsReading
  <2>2. IsRead(rest, rest.text, rest.parts, rest.next) BY <2>1 DEF IsRead
  <2>4. IsRead(r, text \o rest.text, <<PartOf(word, splits)>> \o rest.parts, rest.next) BY <2>2, TextInFront
  <2> HIDE DEF r
  <2>3. rest.next \in i .. n + 1 BY <2>1
  <2> QED BY <2>3, <2>4 DEF IsReading, IsRead, r
<1> QED BY <1>1, <1>2

\* The reading of one character, given those of what follows.
LEMMA LexedEnd ==
    ASSUME NEW g, NEW lx, NEW e, NEW s, NEW i \in Int, NEW stop, At(s, i) = EOF
    PROVE  Lexed(g, lx, e, s, i, stop) = IF stop = EOF THEN Read(<<>>, i) ELSE Failure
  BY DEF Lexed, ReadFrom

LEMMA LexedStop ==
    ASSUME NEW g, NEW lx, NEW e, NEW s, NEW i \in Int, NEW stop, At(s, i) # EOF, At(s, i) = stop
    PROVE  Lexed(g, lx, e, s, i, stop) = Read(IF stop = DoubleQuote /\ lx.rawQuotes THEN <<stop>> ELSE <<>>, i + 1)
  BY DEF Lexed, ReadFrom

OneChar(g, c, i, stop) == InFront(<<c>>, <<c>>, TRUE, g[<<i + 1, stop>>])

LEMMA LexedOther ==
    ASSUME NEW g, NEW lx, NEW e, NEW s, NEW i \in Int, NEW stop,
           At(s, i) \notin {EOF, stop, "$", DoubleQuote, lx.escape}, At(s, i) = SingleQuote => stop = DoubleQuote
    PROVE  Lexed(g, lx, e, s, i, stop) = OneChar(g, At(s, i), i, stop)
  BY DEF Lexed, ReadFrom, OneChar

\* what an escape token at i does: whether it escapes, what it adds, and where the text goes on
Escapes(lx, s, i, stop) ==
    /\ At(s, i + 1) # EOF
    /\ stop = DoubleQuote => At(s, i + 1) \in {DoubleQuote, "$", lx.escape}
EscapedText(lx, s, i, stop) ==
    LET Raw(on) == IF on THEN <<lx.escape>> ELSE <<>>
    IN  Raw(stop = DoubleQuote /\ lx.rawEscapes)
          \o (IF Escapes(lx, s, i, stop) THEN <<At(s, i + 1)>> ELSE Raw(stop = DoubleQuote))
EscapedWord(lx, s, i, stop) ==
    LET Raw(on) == IF on THEN <<lx.escape>> ELSE <<>>
    IN  Raw(lx.rawEscapes) \o (IF Escapes(lx, s, i, stop) THEN <<At(s, i + 1)>> ELSE <<>>)

LEMMA LexedEscape ==
    ASSUME NEW g, NEW lx, NEW e, NEW s, NEW i \in Int, NEW stop \in Stops, At(s, i) = lx.escape, lx.escape \in {Backslash, Backtick}
    PROVE  Lexed(g, lx, e, s, i, stop) =
             InFront(EscapedText(lx, s, i, stop), EscapedWord(lx, s, i, stop), FALSE,
                     g[<<IF Escapes(lx, s, i, stop) THEN i + 2 ELSE i + 1, stop>>])
  BY DEF Lexed, ReadFrom, Escapes, EscapedText, EscapedWord, Stops, EOF, SingleQuote, DoubleQuote, Backslash, Backtick

\* a double quote that opens, and what is between it and the next
Quoted(g, lx, inner, stop) ==
    LET text == (IF lx.rawQuotes THEN <<DoubleQuote>> ELSE <<>>) \o inner.text
    IN  IF inner.ok THEN InFront(text, text, FALSE, g[<<inner.next, stop>>]) ELSE Failure

LEMMA LexedDouble ==
    ASSUME NEW g, NEW lx, NEW e, NEW s, NEW i \in Int, NEW stop, At(s, i) = DoubleQuote, stop # DoubleQuote,
           DOMAIN g[<<i + 1, DoubleQuote>>] = ReadFields
    PROVE  Lexed(g, lx, e, s, i, stop) = Quoted(g, lx, g[<<i + 1, DoubleQuote>>], stop)
<1> DEFINE inner == g[<<i + 1, DoubleQuote>>]
           text == (IF lx.rawQuotes THEN <<DoubleQuote>> ELSE <<>>) \o inner.text
           opened == [inner EXCEPT !.text = (IF lx.rawQuotes THEN <<At(s, i)>> ELSE <<>>) \o @]
           splits == At(s, i) = "$"
<1>1. Lexed(g, lx, e, s, i, stop) =
        IF ~opened.ok THEN Failure ELSE InFront(opened.text, opened.text, splits, g[<<opened.next, stop>>])
  BY DEF Lexed, ReadFrom, EOF, SingleQuote, DoubleQuote
<1>2. splits = FALSE BY DEF DoubleQuote
<1>3. opened.ok = inner.ok /\ opened.next = inner.next /\ opened.text = text
  <2> HIDE DEF inner
  <2> QED BY DEF ReadFields, inner
<1> HIDE DEF inner, opened, splits
<1> QED BY <1>1, <1>2, <1>3 DEF Quoted, inner

\* a single quote that opens
Closes(s, i, j) ==
    /\ j <= Len(s) => s[j] = SingleQuote
    /\ \A k \in i + 1 .. j - 1 : s[k] # SingleQuote
Closed(g, lx, s, i, j, stop) ==
    LET text == IF lx.rawQuotes THEN SubSeq(s, i, j) ELSE SubSeq(s, i + 1, j - 1)
    IN  IF j > Len(s) THEN Failure ELSE InFront(text, text, FALSE, g[<<j + 1, stop>>])

LEMMA LexedSingle ==
    ASSUME NEW g, NEW lx, NEW e, NEW s, Sequence(s), NEW i \in 1 .. Len(s), NEW stop \in Stops, stop # DoubleQuote,
           s[i] = SingleQuote
    PROVE  \E j \in i + 1 .. Len(s) + 1 : Closes(s, i, j) /\ Lexed(g, lx, e, s, i, stop) = Closed(g, lx, s, i, j, stop)
<1> DEFINE n == Len(s)
           B == {k \in 1 .. n : s[k] # SingleQuote}
           Inside(c) == c # SingleQuote
           j == RunEnd(s, i + 1, Inside)
           read == ProcessSingleQuote(lx, s, i)
           text == IF lx.rawQuotes THEN SubSeq(s, i, j) ELSE SubSeq(s, i + 1, j - 1)
<1>1. n \in Nat /\ i + 1 \in 1 .. n + 1 BY SequenceFacts
<1>2. \E k \in i + 1 .. n + 1 : (k <= n => s[k] = SingleQuote) /\ \A l \in i + 1 .. k - 1 : s[l] # SingleQuote
  <2>1. \E k \in i + 1 .. n + 1 : (k <= n => k \notin B) /\ \A l \in i + 1 .. k - 1 : l \in B
    <3> HIDE DEF B, n
    <3> QED BY <1>1, FirstOutside
  <2> QED BY <1>1, <2>1
<1>3. j \in i + 1 .. n + 1 /\ (j <= n => s[j] = SingleQuote) /\ \A k \in i + 1 .. j - 1 : s[k] # SingleQuote
  BY <1>2 DEF RunEnd
<1>4. At(s, i) = SingleQuote BY <1>1 DEF At
<1>5. Lexed(g, lx, e, s, i, stop) =
        IF ~read.ok THEN Failure ELSE InFront(read.text, read.text, FALSE, g[<<read.next, stop>>])
  BY <1>4 DEF Lexed, ReadFrom, Stops, EOF, SingleQuote, DoubleQuote
<1>6. read = IF j > n THEN Failure ELSE Read(text, j + 1) BY DEF ProcessSingleQuote
<1> HIDE DEF read, j
<1>7. Lexed(g, lx, e, s, i, stop) = Closed(g, lx, s, i, j, stop)
  BY <1>5, <1>6 DEF Failure, Read, Closed
<1> QED BY <1>3, <1>7 DEF Closes

\* a $ at the end
LEMMA LexedDollar ==
    ASSUME NEW g, NEW lx, NEW e, NEW s, Sequence(s), NEW i \in Int, i = Len(s), i # 0, NEW stop \in Stops, s[i] = "$"
    PROVE  Lexed(g, lx, e, s, i, stop) = OneChar(g, "$", i, stop)
<1> DEFINE form == DollarAt(s, i)
           word == g[<<form.word, "}">>]
           read == ProcessDollar(lx, e, s, i, form, word)
<1>1. i \in Nat /\ At(s, i) = "$" /\ At(s, i + 1) = EOF BY SequenceFacts DEF At
<1>2. NameEnd(s, i + 1) = i + 1 BY <1>1 DEF NameEnd
<1>3. form = DollarForm(s, i + 1, i + 1) BY <1>1, <1>2 DEF DollarAt, EOF
<1>4. (i + 1) - 1 = i /\ SubSeq(s, i + 1, (i + 1) - 1) = <<>>
  <2>1. s \in Seq(ToSet(s)) BY DEF Sequence
  <2> QED BY <1>1, <2>1
<1>5. form.braced = FALSE /\ form.name = <<>> /\ form.end = i + 1
  <2> HIDE DEF form
  <2>1. form.braced = (s[(i + 1) - 1] = "{") BY <1>3 DEF DollarForm
  <2>2. s[(i + 1) - 1] = "$" BY <1>4
  <2>3. form.name = SubSeq(s, i + 1, (i + 1) - 1) BY <1>3 DEF DollarForm
  <2>4. form.end = i + 1 BY <1>3 DEF DollarForm
  <2> QED BY <1>4, <2>1, <2>2, <2>3, <2>4
<1> HIDE DEF form, word
<1>6. read = Read(<<"$">>, i + 1) BY <1>5 DEF ProcessDollar
<1> HIDE DEF read
<1>7. Lexed(g, lx, e, s, i, stop) =
        IF ~read.ok THEN Failure ELSE InFront(read.text, read.text, TRUE, g[<<read.next, stop>>])
  BY <1>1 DEF Lexed, ReadFrom, read, word, form, Stops, EOF, DoubleQuote
<1> QED BY <1>6, <1>7 DEF Read, OneChar

\* What is read at a position depends on what is read at later ones, and goes on there.
Ahead(g, h, i, n) ==
    \A j \in i + 1 .. n + 1 : \A t \in Stops : IsReading(g[<<j, t>>], j, n) /\ h[<<j, t>>] = g[<<j, t>>]

LEMMA ReadsAhead ==
    ASSUME NEW lx, lx.escape \in {Backslash, Backtick}, NEW e, NEW s, Tame(s), NEW i \in 1 .. Len(s) + 1,
           NEW stop \in Stops, NEW g, NEW h, Ahead(g, h, i, Len(s))
    PROVE  /\ IsReading(Lexed(g, lx, e, s, i, stop), i, Len(s))
           /\ Lexed(h, lx, e, s, i, stop) = Lexed(g, lx, e, s, i, stop)
<1> DEFINE n == Len(s)
           c == At(s, i)
           l == Lexed(g, lx, e, s, i, stop)
           m == Lexed(h, lx, e, s, i, stop)
<1>0. Sequence(s) BY DEF Tame
<1>a. n \in Nat BY <1>0, SequenceFacts
<1>b. DoubleQuote \in Stops BY DEF Stops, EOF, DoubleQuote
<1>1. n \in Nat /\ i \in Int BY <1>a
<1> SUFFICES IsReading(l, i, n) /\ m = l
  OBVIOUS
<1>2. ASSUME NEW text, NEW word, NEW splits, NEW j \in i + 1 .. n + 1,
             l = InFront(text, word, splits, g[<<j, stop>>]), m = InFront(text, word, splits, h[<<j, stop>>])
      PROVE  IsReading(l, i, n) /\ m = l
  <2>1. IsReading(g[<<j, stop>>], j, n) /\ h[<<j, stop>>] = g[<<j, stop>>] BY DEF Ahead
  <2>2. j \in Int /\ i <= j BY <1>1
  <2> DEFINE rest == g[<<j, stop>>]
  <2> HIDE DEF rest, n, l, m
  <2>3. IsReading(rest, j, n) /\ l = InFront(text, word, splits, rest) /\ m = l BY <1>2, <2>1 DEF rest
  <2>4. IsReading(InFront(text, word, splits, rest), i, n) BY <1>1, <2>2, <2>3, ReadInFront
  <2> QED BY <2>3, <2>4
<1>3. CASE c = EOF
  <2>1. i \in i .. n + 1 BY <1>1
  <2>2. l = (IF stop = EOF THEN Read(<<>>, i) ELSE Failure) /\ m = l BY <1>1, <1>3, LexedEnd
  <2> HIDE DEF l, m, n
  <2> QED BY <2>1, <2>2, Failed, WasRead
<1>4. CASE c # EOF
  <2>1. i \in 1 .. n /\ c = s[i] BY <1>1, <1>4 DEF At
  <2>2. i + 1 \in i + 1 .. n + 1 /\ i + 1 \in i .. n + 1 BY <1>1, <2>1
  <2>3. CASE c = stop
    <3> DEFINE text == IF stop = DoubleQuote /\ lx.rawQuotes THEN <<stop>> ELSE <<>>
    <3>1. l = Read(text, i + 1) /\ m = l BY <1>1, <1>4, <2>3, LexedStop
    <3> HIDE DEF text, l, m, n
    <3> QED BY <2>2, <3>1, WasRead
  <2>4. CASE c # stop /\ c = "$"
    <3>1. s[i] = "$" BY <2>1, <2>4
    <3>2. i = n /\ i # 0 BY <2>1, <3>1 DEF Tame
    <3>3. l = OneChar(g, "$", i, stop) BY <1>0, <1>1, <3>1, <3>2, LexedDollar
    <3>4. m = OneChar(h, "$", i, stop) BY <1>0, <1>1, <3>1, <3>2, LexedDollar
    <3> HIDE DEF l, m, n
    <3> QED BY <1>2, <2>2, <3>3, <3>4 DEF OneChar
  <2>5. CASE c # stop /\ c = SingleQuote /\ stop # DoubleQuote
    <3>1. s[i] = SingleQuote BY <2>1, <2>5
    <3>2. PICK j \in i + 1 .. n + 1 : Closes(s, i, j) /\ l = Closed(g, lx, s, i, j, stop)
      BY <1>0, <2>1, <2>5, <3>1, LexedSingle
    <3>3. PICK k \in i + 1 .. n + 1 : Closes(s, i, k) /\ m = Closed(h, lx, s, i, k, stop)
      BY <1>0, <2>1, <2>5, <3>1, LexedSingle
    <3>4. k = j
      <4>1. ~(k < j) BY <1>1, <3>2, <3>3 DEF Closes
      <4>2. ~(j < k) BY <1>1, <3>2, <3>3 DEF Closes
      <4> QED BY <1>1, <4>1, <4>2
    <3> DEFINE text == IF lx.rawQuotes THEN SubSeq(s, i, j) ELSE SubSeq(s, i + 1, j - 1)
    <3>5. l = (IF j > n THEN Failure ELSE InFront(text, text, FALSE, g[<<j + 1, stop>>])) BY <3>2 DEF Closed
    <3>6. m = (IF j > n THEN Failure ELSE InFront(text, text, FALSE, h[<<j + 1, stop>>])) BY <3>3, <3>4 DEF Closed
    <3> HIDE DEF l, m, n, text
    <3>7. CASE j > n BY <3>5, <3>6, <3>7, Failed
    <3>8. CASE ~(j > n)
      <4>1. j + 1 \in i + 1 .. n + 1 BY <1>1, <3>8
      <4> QED BY <1>2, <3>5, <3>6, <3>8, <4>1
    <3> QED BY <3>7, <3>8
  <2>6. CASE c # stop /\ c = DoubleQuote
    <3> DEFINE inner == g[<<i + 1, DoubleQuote>>]
               text == (IF lx.rawQuotes THEN <<DoubleQuote>> ELSE <<>>) \o inner.text
    <3>1. IsReading(inner, i + 1, n) /\ h[<<i + 1, DoubleQuote>>] = inner BY <1>1, <1>b, <2>2 DEF Ahead
    <3>2. DOMAIN inner = ReadFields BY <3>1 DEF IsReading
    <3>3. l = Quoted(g, lx, inner, stop) BY <1>1, <2>6, <3>2, LexedDouble
    <3>4. m = Quoted(h, lx, inner, stop)
      <4>1. DOMAIN h[<<i + 1, DoubleQuote>>] = ReadFields BY <3>1, <3>2
      <4>2. m = Quoted(h, lx, h[<<i + 1, DoubleQuote>>], stop) BY <1>1, <2>6, <4>1, LexedDouble
      <4> QED BY <3>1, <4>2
    <3> HIDE DEF inner, text, l, m, n
    <3>5. CASE ~inner.ok BY <3>3, <3>4, <3>5, Failed DEF Quoted
    <3>6. CASE inner.ok
      <4>1. inner.next \in i + 1 .. n + 1 BY <3>1, <3>6 DEF IsReading
      <4> QED BY <1>2, <3>3, <3>4, <3>6, <4>1 DEF Quoted
    <3> QED BY <3>5, <3>6
  <2>7. CASE c = lx.escape
    <3> DEFINE j == IF Escapes(lx, s, i, stop) THEN i + 2 ELSE i + 1
               text == EscapedText(lx, s, i, stop)
               word == EscapedWord(lx, s, i, stop)
    <3>1. l = InFront(text, word, FALSE, g[<<j, stop>>]) BY <1>1, <2>7, LexedEscape
    <3>3. m = InFront(text, word, FALSE, h[<<j, stop>>]) BY <1>1, <2>7, LexedEscape
    <3>2. j \in i + 1 .. n + 1
      <4>1. Escapes(lx, s, i, stop) => i + 1 <= n BY <1>1 DEF Escapes, At
      <4> QED BY <1>1, <2>1, <4>1
    <3> HIDE DEF j, text, word, l, m, n
    <3> QED BY <1>2, <3>1, <3>2, <3>3
  <2>8. CASE c \notin {stop, "$", DoubleQuote, lx.escape} /\ (c = SingleQuote => stop = DoubleQuote)
    <3>1. l = OneChar(g, c, i, stop) BY <1>1, <1>4, <2>8, LexedOther
    <3>2. m = OneChar(h, c, i, stop) BY <1>1, <1>4, <2>8, LexedOther
    <3> HIDE DEF l, m, n, c
    <3> QED BY <1>2, <2>2, <3>1, <3>2 DEF OneChar
  <2> QED BY <2>3, <2>4, <2>5, <2>6, <2>7, <2>8
<1> QED BY <1>3, <1>4

\* The function that reads on from every position exists, and is StopOn.
Reads(g, lx, e, s) == g = [p \in (1 .. Len(s) + 1) \X Stops |-> Lexed(g, lx, e, s, p[1], p[2])]
ReadsFrom(g, lx, e, s, i) ==
    \A j \in i .. Len(s) + 1 : \A t \in Stops :
        g[<<j, t>>] = Lexed(g, lx, e, s, j, t) /\ IsReading(g[<<j, t>>], j, Len(s))

LEMMA ReadingExists ==
    ASSUME NEW lx, lx.escape \in {Backslash, Backtick}, NEW e, NEW s, Tame(s)
    PROVE  \E g : Reads(g, lx, e, s)
<1> DEFINE n == Len(s)
           D == (1 .. n + 1) \X Stops
           T == {k \in 0 .. n + 1 : \E g : g = [p \in D |-> g[p]] /\ ReadsFrom(g, lx, e, s, n + 2 - k)}
<1>1. n \in Nat BY SequenceFacts DEF Tame
<1>2. 0 \in T
  <2> DEFINE g == [p \in D |-> Failure]
  <2>1. g = [p \in D |-> g[p]] OBVIOUS
  <2> HIDE DEF g, D
  <2>2. ReadsFrom(g, lx, e, s, n + 2 - 0) BY <1>1 DEF ReadsFrom
  <2> QED BY <1>1, <2>1, <2>2
<1>3. ASSUME NEW k \in 1 .. n + 1, k - 1 \in T PROVE k \in T
  <2> DEFINE i == n + 2 - k
  <2>1. i \in 1 .. n + 1 /\ i + 1 = n + 2 - (k - 1) /\ i \in Int BY <1>1
  <2>2. PICK g : g = [p \in D |-> g[p]] /\ ReadsFrom(g, lx, e, s, i + 1) BY <1>3, <2>1
  <2> DEFINE h == [p \in D |-> IF p[1] = i THEN Lexed(g, lx, e, s, i, p[2]) ELSE g[p]]
  <2>3. h = [p \in D |-> h[p]] OBVIOUS
  <2>4. \A j \in 1 .. n + 1 : \A t \in Stops : <<j, t>> \in D /\ h[<<j, t>>] = IF j = i THEN Lexed(g, lx, e, s, i, t) ELSE g[<<j, t>>]
    OBVIOUS
  <2> HIDE DEF h, D, n, i
  <2>5. ASSUME NEW j \in i .. n + 1, NEW t \in Stops
        PROVE  h[<<j, t>>] = Lexed(h, lx, e, s, j, t) /\ IsReading(h[<<j, t>>], j, n)
    <3>1. j \in 1 .. Len(s) + 1 BY <1>1, <2>1 DEF n
    <3>2. \A q \in j + 1 .. Len(s) + 1 : q \in i + 1 .. n + 1 /\ q \in 1 .. n + 1 /\ q # i BY <1>1, <2>1 DEF n
    <3>3. Ahead(g, h, j, Len(s)) BY <2>2, <2>4, <3>2 DEF ReadsFrom, Ahead, n
    <3>4. IsReading(Lexed(g, lx, e, s, j, t), j, n) /\ Lexed(h, lx, e, s, j, t) = Lexed(g, lx, e, s, j, t)
      BY <3>1, <3>3, ReadsAhead DEF n
    <3>5. h[<<j, t>>] = Lexed(g, lx, e, s, j, t)
      <4>1. CASE j = i BY <2>4, <3>1, <4>1 DEF n
      <4>2. CASE j # i
        <5>1. j \in i + 1 .. Len(s) + 1 BY <1>1, <2>1, <4>2 DEF n
        <5> QED BY <2>2, <2>4, <3>1, <4>2, <5>1 DEF ReadsFrom, n
      <4> QED BY <4>1, <4>2
    <3> QED BY <3>4, <3>5
  <2>6. ReadsFrom(h, lx, e, s, i) BY <2>5 DEF ReadsFrom, n
  <2>7. k \in 0 .. n + 1 BY <1>1
  <2> QED BY <2>3, <2>6, <2>7 DEF i
<1> HIDE DEF T, D
<1>4. 0 .. n + 1 \subseteq T
  <2>1. n + 1 \in Nat BY <1>1
  <2> HIDE DEF n
  <2> QED BY <1>2, <1>3, <2>1, SetInduction
<1>5. PICK g : g = [p \in D |-> g[p]] /\ ReadsFrom(g, lx, e, s, 1)
  <2>1. n + 1 \in T /\ n + 2 - (n + 1) = 1 BY <1>1, <1>4
  <2> QED BY <2>1 DEF T
<1>6. \A p \in D : g[p] = Lexed(g, lx, e, s, p[1], p[2])
  <2>1. \A p \in D : p = <<p[1], p[2]>> /\ p[1] \in 1 .. n + 1 /\ p[2] \in Stops BY DEF D
  <2> QED BY <1>5, <2>1 DEF ReadsFrom
<1>7. g = [p \in D |-> Lexed(g, lx, e, s, p[1], p[2])] BY <1>5, <1>6
<1> QED BY <1>7 DEF Reads, D

LEMMA StopOnReads ==
    ASSUME NEW lx, lx.escape \in {Backslash, Backtick}, NEW e, NEW s, Tame(s)
    PROVE  ReadsFrom(StopOn(lx, e, s), lx, e, s, 1)
<1> DEFINE g == StopOn(lx, e, s)
           n == Len(s)
<1>1. n \in Nat BY SequenceFacts DEF Tame
<1>2. Reads(g, lx, e, s)
  <2>1. g = CHOOSE f : Reads(f, lx, e, s) BY DEF StopOn, Reads, Lexed, Stops
  <2> QED BY <2>1, ReadingExists
<1> HIDE DEF g
<1>3. \A j \in 1 .. n + 1 : \A t \in Stops : g[<<j, t>>] = Lexed(g, lx, e, s, j, t) BY <1>2 DEF Reads
<1> DEFINE T == {k \in 0 .. n + 1 : ReadsFrom(g, lx, e, s, n + 2 - k)}
<1>4. 0 \in T BY <1>1 DEF ReadsFrom
<1>5. ASSUME NEW k \in 1 .. n + 1, k - 1 \in T PROVE k \in T
  <2> DEFINE i == n + 2 - k
  <2>1. i \in 1 .. Len(s) + 1 /\ i + 1 = n + 2 - (k - 1) /\ i \in Int BY <1>1
  <2>2. ReadsFrom(g, lx, e, s, i + 1) BY <1>5, <2>1
  <2>3. ASSUME NEW t \in Stops PROVE IsReading(g[<<i, t>>], i, Len(s)) /\ g[<<i, t>>] = Lexed(g, lx, e, s, i, t)
    <3> HIDE DEF i
    <3>1. Ahead(g, g, i, Len(s)) BY <2>2 DEF ReadsFrom, Ahead
    <3>2. IsReading(Lexed(g, lx, e, s, i, t), i, Len(s)) BY <2>1, <3>1, ReadsAhead
    <3> QED BY <1>3, <2>1, <3>2
  <2> HIDE DEF i, n
  <2>4. \A j \in i .. n + 1 : j = i \/ j \in i + 1 .. n + 1 BY <1>1, <2>1
  <2>5. ReadsFrom(g, lx, e, s, i) BY <2>2, <2>3, <2>4 DEF ReadsFrom, n
  <2>6. k \in 0 .. n + 1 BY <1>1
  <2> QED BY <2>5, <2>6 DEF i
<1> HIDE DEF T
<1>6. 0 .. n + 1 \subseteq T
  <2>1. n + 1 \in Nat BY <1>1
  <2> HIDE DEF n
  <2> QED BY <1>4, <1>5, <2>1, SetInduction
<1>7. n + 1 \in T /\ n + 2 - (n + 1) = 1 BY <1>1, <1>6
<1> QED BY <1>7 DEF T, g

-----------------------------------------------------------------------------
(* A text without quotes, escapes and variables is read as it is.          *)
IsPlain(s, escape) ==
    /\ \A i \in 1 .. Len(s) : s[i] = "$" => i = Len(s)
    /\ ToSet(s) \cap (Quotes \cup {escape}) = {}

LEMMA TextFrom ==
    ASSUME NEW s \in Texts, NEW i \in 1 .. Len(s)
    PROVE  <<s[i]>> \o SubSeq(s, i + 1, Len(s)) = SubSeq(s, i, Len(s))
<1> DEFINE n == Len(s)
           t == SubSeq(s, i + 1, n)
           u == SubSeq(s, i, n)
           l == <<s[i]>> \o t
<1>1. n \in Nat /\ s[i] \in Chars /\ i \in Nat BY DEF Texts
<1>2. t \in Seq(Chars) /\ Len(t) = n - i /\ \A k \in 1 .. n - i : t[k] = s[i + k] BY <1>1 DEF Texts
<1>3. u \in Seq(Chars) /\ Len(u) = n - i + 1 /\ \A k \in 1 .. n - i + 1 : u[k] = s[i + k - 1] BY <1>1 DEF Texts
<1>4. <<s[i]>> \in Seq(Chars) /\ Len(<<s[i]>>) = 1 /\ <<s[i]>>[1] = s[i] BY <1>1
<1> DEFINE o == <<s[i]>>
<1> HIDE DEF t, u, o
<1>5. l = o \o t BY DEF o
<1> HIDE DEF l, n
<1>6. l \in Seq(Chars) /\ Len(l) = 1 + (n - i) BY <1>2, <1>4, <1>5 DEF o
<1>7. l[1] = s[i] /\ \A k \in 1 .. n - i : l[1 + k] = t[k]
  <2>1. 1 \in 1 .. Len(o) /\ Len(t) = n - i BY <1>2, <1>4 DEF o
  <2>2. \A k \in 1 .. Len(o) : l[k] = o[k] BY <1>2, <1>4, <1>5, Concat DEF o
  <2>3. \A k \in 1 .. Len(t) : l[Len(o) + k] = t[k] BY <1>2, <1>4, <1>5, Concat DEF o
  <2> QED BY <1>4, <2>1, <2>2, <2>3 DEF o
<1>8. ASSUME NEW k \in 1 .. n - i + 1 PROVE l[k] = u[k]
  <2>1. CASE k = 1 BY <1>1, <1>3, <1>7, <2>1
  <2>2. CASE k # 1
    <3>1. k - 1 \in 1 .. n - i /\ 1 + (k - 1) = k /\ i + (k - 1) = i + k - 1 BY <1>1, <2>2 DEF n
    <3> QED BY <1>2, <1>3, <1>7, <3>1
  <2> QED BY <2>1, <2>2
<1>9. l = u
  <2>1. Len(l) = Len(u) /\ DOMAIN l = 1 .. n - i + 1 /\ DOMAIN u = 1 .. n - i + 1 BY <1>1, <1>3, <1>6
  <2> QED BY <1>3, <1>6, <1>8, <2>1
<1> QED BY <1>9 DEF l, t, u, n

LEMMA PlainText ==
    ASSUME NEW s \in Texts, NEW escape \in {Backslash, Backtick}, NEW e, IsPlain(s, escape)
    PROVE  Process(NewLex(escape), e, s).ok = TRUE /\ Process(NewLex(escape), e, s).text = s
<1> DEFINE lx == NewLex(escape)
           g == StopOn(lx, e, s)
           n == Len(s)
           IsRest(i) == g[<<i, EOF>>].ok = TRUE /\ g[<<i, EOF>>].text = SubSeq(s, i, n)
           T == {k \in 0 .. n : IsRest(n + 1 - k)}
<1>1. n \in Nat /\ DOMAIN s = 1 .. n /\ \A i \in 1 .. n : s[i] \in Chars BY DEF Texts
<1>2. Sequence(s) BY SequenceFrom DEF Texts
<1>3. \A i \in 1 .. n : s[i] # EOF BY <1>1, CharFacts
<1>4. Tame(s) BY <1>2, <1>3 DEF Tame, IsPlain
<1>5. lx.escape = escape BY DEF NewLex
<1> HIDE DEF lx
<1>6. ReadsFrom(g, lx, e, s, 1) BY <1>4, <1>5, StopOnReads
<1> HIDE DEF g
<1>7. EOF \in Stops /\ EOF # DoubleQuote BY DEF Stops, EOF, DoubleQuote
<1>8. \A j \in 1 .. n + 1 : g[<<j, EOF>>] = Lexed(g, lx, e, s, j, EOF) /\ IsReading(g[<<j, EOF>>], j, n)
  BY <1>6, <1>7 DEF ReadsFrom
<1>9. 0 \in T
  <2>1. At(s, n + 1) = EOF /\ n + 1 \in 1 .. n + 1 /\ n + 1 \in Int BY <1>1 DEF At
  <2>2. Lexed(g, lx, e, s, n + 1, EOF) = Read(<<>>, n + 1) BY <2>1, LexedEnd
  <2>3. SubSeq(s, n + 1, n) = <<>> BY <1>1 DEF Texts
  <2>4. IsRest(n + 1)
    <3> DEFINE last == g[<<n + 1, EOF>>]
    <3>1. last = Read(<<>>, n + 1) BY <1>8, <2>1, <2>2
    <3> HIDE DEF last
    <3>2. last.ok = TRUE /\ last.text = <<>> BY <3>1 DEF Read
    <3> QED BY <2>3, <3>2 DEF last
  <2> HIDE DEF IsRest
  <2>5. n + 1 - 0 = n + 1 BY <1>1
  <2> QED BY <1>1, <2>4, <2>5
<1>10. ASSUME NEW k \in 1 .. n, k - 1 \in T PROVE k \in T
  <2> DEFINE i == n + 1 - k
             rest == g[<<i + 1, EOF>>]
  <2>1. i \in 1 .. n /\ i \in Int /\ n + 1 - (k - 1) = i + 1 /\ i + 1 \in 1 .. n + 1 /\ i \in 1 .. n + 1 BY <1>1
  <2>2. IsRest(i + 1) BY <1>10, <2>1
  <2> HIDE DEF i
  <2>3. At(s, i) = s[i] /\ s[i] \in ToSet(s) BY <1>1, <2>1 DEF At, ToSet
  <2>4. s[i] \notin Quotes /\ s[i] # escape /\ s[i] # EOF BY <1>3, <2>1, <2>3 DEF IsPlain
  <2>5. Lexed(g, lx, e, s, i, EOF) = OneChar(g, s[i], i, EOF)
    <3>1. CASE s[i] = "$"
      <4>1. i = n /\ i # 0 BY <2>1, <3>1 DEF IsPlain
      <4>2. Lexed(g, lx, e, s, i, EOF) = OneChar(g, "$", i, EOF) BY <1>2, <1>7, <2>1, <3>1, <4>1, LexedDollar
      <4> QED BY <3>1, <4>2
    <3>2. CASE s[i] # "$"
      <4>1. At(s, i) \notin {EOF, EOF, "$", DoubleQuote, lx.escape} /\ At(s, i) # SingleQuote
        BY <1>5, <2>3, <2>4, <3>2 DEF Quotes
      <4> QED BY <2>1, <2>3, <4>1, LexedOther
    <3> QED BY <3>1, <3>2
  <2>6. g[<<i, EOF>>] = InFront(<<s[i]>>, <<s[i]>>, TRUE, rest) BY <1>8, <2>1, <2>5 DEF OneChar
  <2>7. IsReading(rest, i + 1, n) BY <1>8, <2>1
  <2>8. rest.ok = TRUE /\ rest.text = SubSeq(s, i + 1, n) BY <2>2
  <2> HIDE DEF rest
  <2>9. i + 1 \in Int /\ i <= i + 1 BY <2>1
  <2> DEFINE r == InFront(<<s[i]>>, <<s[i]>>, TRUE, rest)
  <2>10. r.ok = rest.ok /\ r.text = <<s[i]>> \o rest.text
    <3> DEFINE one == <<s[i]>>
    <3> HIDE DEF one
    <3>1. IsRead(rest, rest.text, rest.parts, rest.next) BY <2>7, <2>8 DEF IsReading, IsRead
    <3>2. IsRead(InFront(one, one, TRUE, rest), one \o rest.text, <<PartOf(one, TRUE)>> \o rest.parts, rest.next)
      BY <3>1, TextInFront
    <3> QED BY <2>8, <3>2 DEF one, IsRead
  <2>11. g[<<i, EOF>>] = r BY <2>6
  <2> HIDE DEF r
  <2>12. <<s[i]>> \o SubSeq(s, i + 1, n) = SubSeq(s, i, n) BY <2>1, TextFrom
  <2>13. IsRest(i) BY <2>8, <2>10, <2>11, <2>12
  <2> HIDE DEF IsRest
  <2> QED BY <2>13 DEF i
<1> HIDE DEF T
<1>11. 0 .. n \subseteq T
  <2> HIDE DEF n
  <2> QED BY <1>1, <1>9, <1>10, SetInduction
<1>12. IsRest(1)
  <2>1. n \in T /\ n + 1 - n = 1 BY <1>1, <1>11
  <2> HIDE DEF IsRest
  <2> QED BY <2>1 DEF T
<1>13. SubSeq(s, 1, n) = s BY DEF Texts
<1> QED BY <1>12, <1>13 DEF Process, g, lx

-----------------------------------------------------------------------------
(* The mounts of a RUN: the fields of each, and what both passes make of   *)
(* them                                                                    *)
CSVStates(C) == [phase : {"start", "plain", "quoted", "closing", "bad"}, field : Seq(C), fields : Seq(Seq(C))]
NoFields == [phase |-> "start", field |-> <<>>, fields |-> <<>>]

LEMMA CSVCharTyped ==
    ASSUME NEW C, NEW c \in C, NEW st \in CSVStates(C)
    PROVE  CSVChar(st, c) \in CSVStates(C)
<1>1. /\ st.field \in Seq(C) /\ st.fields \in Seq(Seq(C)) /\ Append(st.field, c) \in Seq(C)
      /\ Append(st.fields, st.field) \in Seq(Seq(C)) /\ <<>> \in Seq(C)
  BY DEF CSVStates
<1>2. /\ [st EXCEPT !.phase = "start", !.fields = Append(@, st.field), !.field = <<>>] \in CSVStates(C)
      /\ [st EXCEPT !.phase = "quoted"] \in CSVStates(C)
      /\ [st EXCEPT !.phase = "closing"] \in CSVStates(C)
      /\ [st EXCEPT !.phase = "quoted", !.field = Append(@, c)] \in CSVStates(C)
      /\ [st EXCEPT !.field = Append(@, c)] \in CSVStates(C)
      /\ [st EXCEPT !.phase = "plain", !.field = Append(@, c)] \in CSVStates(C)
      /\ [st EXCEPT !.phase = "bad"] \in CSVStates(C)
  BY <1>1 DEF CSVStates
<1> QED BY <1>2 DEF CSVChar

LEMMA CSVTyped ==
    ASSUME NEW C, NEW value \in Seq(C)
    PROVE  ReadCSV(value).fields \in Seq(Seq(C))
<1> DEFINE n == Len(value)
           X == CSVStates(C)
           F == [i \in 1 .. n |-> [st \in X |-> CSVChar(st, value[i])]]
           Folds(f) == f = [S \in SUBSET (DOMAIN value) |->
                              IF S = {} THEN NoFields ELSE CSVChar(f[S \ {Max(S)}], value[Max(S)])]
           it == CHOOSE f : Folds(f)
<1>1. n \in Nat /\ DOMAIN value = 1 .. n /\ \A i \in 1 .. n : value[i] \in C OBVIOUS
<1>2. ReadCSV(value).fields = Append(it[1 .. n].fields, it[1 .. n].field)
  BY <1>1 DEF ReadCSV, FoldLeft, MapThenFoldSet, NoFields
<1>3. NoFields \in X
  <2>1. <<>> \in Seq(C) /\ <<>> \in Seq(Seq(C)) OBVIOUS
  <2> QED BY <2>1 DEF CSVStates, NoFields
<1>4. F \in Steps(X, n)
  <2> HIDE DEF n
  <2> QED BY <1>1, CSVCharTyped DEF Steps
<1>5. \A S \in SUBSET (1 .. n) : S # {} => Max(S) \in 1 .. n BY <1>1, MaxOf
<1>6. \E f : Folds(f)
  <2>1. PICK g \in [SUBSET (1 .. n) -> X] : Takes(g, n, F, NoFields)
    <3> HIDE DEF X, F, n
    <3> QED BY <1>1, <1>3, <1>4, SubsetRecursion
  <2>2. \A S \in SUBSET (1 .. n) : g[S \ {Max(S)}] \in X OBVIOUS
  <2>3. \A S \in SUBSET (1 .. n) : S # {} =>
          F[Max(S)][g[S \ {Max(S)}]] = CSVChar(g[S \ {Max(S)}], value[Max(S)])
    <3> HIDE DEF X, n
    <3> QED BY <1>5, <2>2
  <2>4. Folds(g)
    <3> HIDE DEF X, n, F
    <3> QED BY <1>1, <2>1, <2>3 DEF Takes
  <2> QED BY <2>4
<1>7. Folds(it) BY <1>6
<1>8. TakesIn(X, it, n, F, NoFields)
  <2>1. it[{}] = NoFields BY <1>7
  <2>2. \A S \in SUBSET (1 .. n) :
          S # {} /\ it[S \ {Max(S)}] \in X => it[S] = F[Max(S)][it[S \ {Max(S)}]]
    <3> HIDE DEF X, n, it
    <3> QED BY <1>1, <1>5, <1>7
  <2> HIDE DEF it, F, X
  <2> QED BY <2>1, <2>2 DEF TakesIn
<1>9. it[1 .. n] \in X
  <2>1. PICK h \in Runs(X, n, F, NoFields) : h[n] = it[1 .. n]
    <3> HIDE DEF X, n, F, it
    <3> QED BY <1>1, <1>3, <1>4, <1>8, FoldRuns
  <2>2. h \in [0 .. n -> X] /\ n \in 0 .. n BY <1>1, <2>1 DEF Runs
  <2> HIDE DEF X, it, n
  <2> QED BY <2>1, <2>2
<1> HIDE DEF it
<1> QED BY <1>2, <1>9 DEF CSVStates

\* The values of the flags, as BFlags.Parse collects them.
FlagValues(allowed) == [ok : BOOLEAN, values : [allowed -> Seq(Texts)]]
NoFlags(allowed) == [ok |-> TRUE, values |-> [name \in allowed |-> <<>>]]
AddFlag(st, arg, allowed) ==
    LET flag == SubSeq(arg, 3, Len(arg))
    IN  IF /\ st.ok /\ HasEq(flag) /\ Key(flag) \in allowed
           /\ st.values[Key(flag)] = <<>> \/ Key(flag) \in Repeatable
        THEN [st EXCEPT !.values[Key(flag)] = Append(@, Value(flag))]
        ELSE [st EXCEPT !.ok = FALSE]

LEMMA AddFlagTyped ==
    ASSUME NEW allowed, NEW st \in FlagValues(allowed), NEW arg \in Texts
    PROVE  AddFlag(st, arg, allowed) \in FlagValues(allowed)
<1> DEFINE flag == SubSeq(arg, 3, Len(arg))
           v == Value(flag)
           k == Key(flag)
<1>1. flag \in Texts
  <2>1. Len(arg) \in Int /\ 3 \in Nat \ {0} BY DEF Texts
  <2> QED BY <2>1, SubText
<1>2. v \in Texts BY <1>1, KeyTexts
<1>3. [st EXCEPT !.ok = FALSE] \in FlagValues(allowed) BY DEF FlagValues
<1>4. AddFlag(st, arg, allowed) \in {[st EXCEPT !.ok = FALSE], [st EXCEPT !.values[k] = Append(@, v)]}
  BY DEF AddFlag
<1> HIDE DEF flag, v, k
<1>5. k \in allowed => [st EXCEPT !.values[k] = Append(@, v)] \in FlagValues(allowed)
  <2> SUFFICES ASSUME k \in allowed PROVE [st EXCEPT !.values[k] = Append(@, v)] \in FlagValues(allowed)
    OBVIOUS
  <2>1. st.values \in [allowed -> Seq(Texts)] BY DEF FlagValues
  <2>2. Append(st.values[k], v) \in Seq(Texts) BY <1>2, <2>1
  <2>3. [st.values EXCEPT ![k] = Append(@, v)] \in [allowed -> Seq(Texts)] BY <2>1, <2>2
  <2> QED BY <2>3 DEF FlagValues
<1>6. k \notin allowed => AddFlag(st, arg, allowed) = [st EXCEPT !.ok = FALSE] BY DEF AddFlag, k, flag
<1> QED BY <1>3, <1>4, <1>5, <1>6

LEMMA FlagValuesTyped ==
    ASSUME NEW args \in Seq(Texts), NEW allowed
    PROVE  ParseFlags(args, allowed) \in FlagValues(allowed)
<1> DEFINE n == Len(args)
           X == FlagValues(allowed)
           b == NoFlags(allowed)
           F == [i \in 1 .. n |-> [st \in X |-> AddFlag(st, args[i], allowed)]]
           Folds(f) == f = [S \in SUBSET (DOMAIN args) |->
                              IF S = {} THEN b ELSE AddFlag(f[S \ {Max(S)}], args[Max(S)], allowed)]
           it == CHOOSE f : Folds(f)
<1>1. n \in Nat /\ DOMAIN args = 1 .. n /\ \A i \in 1 .. n : args[i] \in Texts OBVIOUS
<1>2. ParseFlags(args, allowed) = it[1 .. n]
  BY <1>1 DEF ParseFlags, FoldLeft, MapThenFoldSet, NoFlags, AddFlag
<1>3. b \in X
  <2>1. <<>> \in Seq(Texts) OBVIOUS
  <2> QED BY <2>1 DEF FlagValues, NoFlags
<1>4. F \in Steps(X, n)
  <2> HIDE DEF n
  <2> QED BY <1>1, AddFlagTyped DEF Steps
<1> HIDE DEF b
<1>5. \A S \in SUBSET (1 .. n) : S # {} => Max(S) \in 1 .. n BY <1>1, MaxOf
<1>6. \E f : Folds(f)
  <2>1. PICK g \in [SUBSET (1 .. n) -> X] : Takes(g, n, F, b)
    <3> HIDE DEF X, F, n
    <3> QED BY <1>1, <1>3, <1>4, SubsetRecursion
  <2>2. \A S \in SUBSET (1 .. n) : g[S \ {Max(S)}] \in X OBVIOUS
  <2>3. \A S \in SUBSET (1 .. n) : S # {} =>
          F[Max(S)][g[S \ {Max(S)}]] = AddFlag(g[S \ {Max(S)}], args[Max(S)], allowed)
    <3> HIDE DEF X, n
    <3> QED BY <1>5, <2>2
  <2>4. Folds(g)
    <3> HIDE DEF X, n, F
    <3> QED BY <1>1, <2>1, <2>3 DEF Takes
  <2> QED BY <2>4
<1>7. Folds(it) BY <1>6
<1>8. TakesIn(X, it, n, F, b)
  <2>1. it[{}] = b BY <1>7
  <2>2. \A S \in SUBSET (1 .. n) :
          S # {} /\ it[S \ {Max(S)}] \in X => it[S] = F[Max(S)][it[S \ {Max(S)}]]
    <3> HIDE DEF X, n, it
    <3> QED BY <1>1, <1>5, <1>7
  <2> HIDE DEF it, F, X
  <2> QED BY <2>1, <2>2 DEF TakesIn
<1>9. it[1 .. n] \in X
  <2>1. PICK h \in Runs(X, n, F, b) : h[n] = it[1 .. n]
    <3> HIDE DEF X, n, F, it
    <3> QED BY <1>1, <1>3, <1>4, <1>8, FoldRuns
  <2>2. h \in [0 .. n -> X] /\ n \in 0 .. n BY <1>1, <2>1 DEF Runs
  <2> HIDE DEF X, it, n
  <2> QED BY <2>1, <2>2
<1> HIDE DEF it
<1> QED BY <1>2, <1>9

\* The mounts whose texts are of a set.
Owners == {"mode", "uid", "gid"}
MountsOf(V) ==
    [ok : BOOLEAN, type : MountTypes, from : V, source : V, target : V, readonly : BOOLEAN, roAuto : BOOLEAN,
     required : BOOLEAN, size : V, id : V, sharing : SharingTypes \cup {"none"}, owners : SUBSET Owners]

LEMMA OneOfSet == \A word, set : OneOf(word, set) # "none" => OneOf(word, set) \in set
  BY DEF OneOf

LEMMA BoolFacts == \A value : IsTrue(value) \in BOOLEAN
  BY DEF IsTrue

\* what a field of a key assigns, if it is not refused, and of which other keys the mount is kept
LEMMA KeyValueTyped ==
    ASSUME NEW V, NEW m \in MountsOf(V), NEW key, NEW value \in V
    PROVE  /\ KeyValue(m, key, value) \in MountsOf(V)
           /\ KeyValue(m, key, value).ok => m.ok
           /\ key # "from" => KeyValue(m, key, value).from = m.from
           /\ key = "from" => KeyValue(m, key, value).from = value
<1> DEFINE X == MountsOf(V)
           Good(r) == r \in X /\ (r.ok => m.ok) /\ r.from = m.from
           type == OneOf(value, MountTypes)
           sharing == OneOf(value, SharingTypes)
           true == IsTrue(value)
           r == KeyValue(m, key, value)
<1>1. true \in BOOLEAN BY BoolFacts
<1>2. type # "none" => type \in MountTypes BY OneOfSet
<1>3. sharing # "none" => sharing \in SharingTypes BY OneOfSet
<1> HIDE DEF type, sharing, true
<1>4. Good(m) OBVIOUS
<1>5. Good(Refuse(m)) BY DEF Refuse, MountsOf
<1>6. \A ro \in BOOLEAN : Good(SetReadOnly(m, ro)) BY DEF SetReadOnly, MountsOf
<1>7. type # "none" => Good([m EXCEPT !.type = type]) BY <1>2 DEF MountsOf
<1>8. sharing # "none" => Good([m EXCEPT !.sharing = sharing]) BY <1>3 DEF MountsOf
<1>9. /\ Good([m EXCEPT !.source = value]) /\ Good([m EXCEPT !.target = value])
      /\ Good([m EXCEPT !.size = value]) /\ Good([m EXCEPT !.id = value])
  BY DEF MountsOf
<1>10. Good([m EXCEPT !.required = true]) BY <1>1 DEF MountsOf
<1>11. ASSUME key \in Owners PROVE Good([m EXCEPT !.owners = @ \cup {key}])
  <2>1. m.owners \cup {key} \in SUBSET Owners BY <1>11 DEF MountsOf
  <2> QED BY <2>1 DEF MountsOf
<1>12. /\ [m EXCEPT !.from = value] \in X /\ [m EXCEPT !.from = value].ok = m.ok
       /\ [m EXCEPT !.from = value].from = value
  BY DEF MountsOf
<1>13. CASE key = "from"
  <2>1. r = [m EXCEPT !.from = value] BY <1>13 DEF KeyValue
  <2> HIDE DEF r
  <2> QED BY <1>12, <1>13, <2>1 DEF r
<1>14. key # "from" => Good(r)
  <2> SUFFICES ASSUME key # "from" PROVE Good(r)
    OBVIOUS
  <2> HIDE DEF Good, X
  <2>1. CASE key = "type"
    <3>1. r \in {Refuse(m), [m EXCEPT !.type = type]} /\ (type = "none" => r = Refuse(m)) BY <2>1 DEF KeyValue, type
    <3> QED BY <1>5, <1>7, <3>1
  <2>2. CASE key \in {"source", "src", "target", "dst", "destination", "id"}
    <3>1. r \in {[m EXCEPT !.source = value], [m EXCEPT !.target = value], [m EXCEPT !.id = value]} BY <2>2 DEF KeyValue
    <3> QED BY <1>9, <3>1
  <2>3. CASE key \in {"readonly", "ro", "readwrite", "rw"}
    <3>1. r \in {Refuse(m), SetReadOnly(m, true), SetReadOnly(m, ~true)} BY <2>3 DEF KeyValue, true
    <3>2. (~true) \in BOOLEAN OBVIOUS
    <3> QED BY <1>1, <1>5, <1>6, <3>1, <3>2
  <2>4. CASE key = "required"
    <3>1. r \in {Refuse(m), [m EXCEPT !.required = true]} BY <2>4 DEF KeyValue, true
    <3> QED BY <1>5, <1>10, <3>1
  <2>5. CASE key = "size"
    <3>1. r \in {Refuse(m), [m EXCEPT !.size = value]} BY <2>5 DEF KeyValue
    <3> QED BY <1>5, <1>9, <3>1
  <2>6. CASE key = "sharing"
    <3>1. r \in {Refuse(m), [m EXCEPT !.sharing = sharing]} /\ (sharing = "none" => r = Refuse(m))
      BY <2>6 DEF KeyValue, sharing
    <3> QED BY <1>5, <1>8, <3>1
  <2>7. CASE key \in Owners
    <3>1. r \in {Refuse(m), [m EXCEPT !.owners = @ \cup {key}]} BY <2>7 DEF KeyValue, Owners
    <3> QED BY <1>5, <1>11, <2>7, <3>1
  <2>8. CASE key \notin Owners \cup {"type", "source", "src", "target", "dst", "destination", "id", "readonly", "ro",
                                     "readwrite", "rw", "required", "size", "sharing"}
    <3>1. r = Refuse(m) BY <2>8 DEF KeyValue, Owners
    <3> QED BY <1>5, <3>1
  <2> QED BY <2>1, <2>2, <2>3, <2>4, <2>5, <2>6, <2>7, <2>8
<1> HIDE DEF r
<1> QED BY <1>13, <1>14 DEF r

LEMMA KeyOnlyTyped ==
    ASSUME NEW V, NEW m \in MountsOf(V), NEW key
    PROVE  KeyOnly(m, key) \in MountsOf(V) /\ (KeyOnly(m, key).ok => m.ok) /\ KeyOnly(m, key).from = m.from
<1> DEFINE Good(r) == r \in MountsOf(V) /\ (r.ok => m.ok) /\ r.from = m.from
<1>1. Good(Refuse(m)) BY DEF Refuse, MountsOf
<1>2. Good(SetReadOnly(m, TRUE)) /\ Good(SetReadOnly(m, FALSE)) BY DEF SetReadOnly, MountsOf
<1>3. Good([m EXCEPT !.required = TRUE]) BY DEF MountsOf
<1>4. KeyOnly(m, key) \in {Refuse(m), SetReadOnly(m, TRUE), SetReadOnly(m, FALSE), [m EXCEPT !.required = TRUE]}
  BY DEF KeyOnly
<1> HIDE DEF Good
<1>5. Good(KeyOnly(m, key)) BY <1>1, <1>2, <1>3, <1>4
<1> QED BY <1>5 DEF Good

LEMMA FinishTyped ==
    ASSUME NEW V, NEW m \in MountsOf(V)
    PROVE  (Finish(m).ok => m.ok) /\ Finish(m).from = m.from
<1> DEFINE auto == IF m.roAuto THEN [m EXCEPT !.readonly = m.type \notin {"cache", "tmpfs"}] ELSE m
<1>1. auto \in MountsOf(V) /\ auto.ok = m.ok /\ auto.from = m.from BY DEF MountsOf
<1>2. Finish(m) \in {auto, Refuse(auto)} BY DEF Finish
<1> HIDE DEF auto
<1>3. (Refuse(auto).ok = FALSE) /\ Refuse(auto).from = auto.from BY <1>1 DEF Refuse, MountsOf
<1> DEFINE f == Finish(m)
           g == Refuse(auto)
<1>4. f \in {auto, g} /\ g.ok = FALSE /\ g.from = auto.from BY <1>2, <1>3
<1> HIDE DEF f, g
<1>5. (f.ok => m.ok) /\ f.from = m.from BY <1>1, <1>4
<1> QED BY <1>5 DEF f

\* the texts the fields of a mount may be given: their values as they are and as they are read
TextsOf(lx, e, fields) ==
    {<<>>} \cup {Value(fields[i]) : i \in DOMAIN fields} \cup {Process(lx, e, Value(fields[i])).text : i \in DOMAIN fields}

LEMMA NewMountTyped == \A V : <<>> \in V => NewMount \in MountsOf(V) /\ NewMount.from = <<>>
  BY DEF NewMount, MountsOf, MountTypes

LEMMA FirstPassTyped ==
    ASSUME NEW V, NEW m \in MountsOf(V), NEW field, Value(field) \in V
    PROVE  FirstPass(m, field) \in MountsOf(V)
<1>1. Refuse(m) \in MountsOf(V) BY DEF Refuse, MountsOf
<1>2. KeyValue(m, "from", Value(field)) \in MountsOf(V) BY KeyValueTyped
<1> QED BY <1>1, <1>2 DEF FirstPass

LEMMA SecondPassTyped ==
    ASSUME NEW V, NEW m \in MountsOf(V), NEW lx, NEW e, NEW field, Process(lx, e, Value(field)).text \in V
    PROVE  SecondPass(lx, e, m, field) \in MountsOf(V)
<1> DEFINE text == Process(lx, e, Value(field)).text
           key == OneOf(Key(field), Keys)
           alone == OneOf(field, Keys)
<1>1. Refuse(m) \in MountsOf(V) BY DEF Refuse, MountsOf
<1>2. SecondPass(lx, e, m, field) \in {m, Refuse(m), KeyOnly(m, alone), KeyValue(m, key, text)} BY DEF SecondPass
<1>3. text \in V OBVIOUS
<1> HIDE DEF text, key, alone
<1>4. KeyValue(m, key, text) \in MountsOf(V) BY <1>3, KeyValueTyped
<1>5. KeyOnly(m, alone) \in MountsOf(V) BY KeyOnlyTyped
<1> QED BY <1>1, <1>2, <1>4, <1>5

LEMMA FirstPassRuns ==
    ASSUME NEW V, <<>> \in V, NEW value, NEW n \in Nat, NEW fields, fields = ReadCSV(value).fields, DOMAIN fields = 1 .. n,
           \A i \in 1 .. n : Value(fields[i]) \in V
    PROVE  \E h \in [0 .. n -> MountsOf(V)] :
               /\ h[0] = NewMount
               /\ \A i \in 1 .. n : h[i] = FirstPass(h[i - 1], fields[i])
               /\ ParseMount(value) = IF ReadCSV(value).ok THEN Finish(h[n]) ELSE Refuse(NewMount)
<1> DEFINE X == MountsOf(V)
           F == [i \in 1 .. n |-> [m \in X |-> FirstPass(m, fields[i])]]
           Folds(f) == f = [S \in SUBSET (DOMAIN fields) |->
                              IF S = {} THEN NewMount ELSE FirstPass(f[S \ {Max(S)}], fields[Max(S)])]
           it == CHOOSE f : Folds(f)
<1>2. ParseMount(value) = IF ReadCSV(value).ok THEN Finish(it[1 .. n]) ELSE Refuse(NewMount)
  BY DEF ParseMount, ParsedMount, FoldLeft, MapThenFoldSet
<1>3. NewMount \in X BY NewMountTyped
<1>4. F \in Steps(X, n) BY FirstPassTyped DEF Steps
<1>5. \A S \in SUBSET (1 .. n) : S # {} => Max(S) \in 1 .. n BY MaxOf
<1>6. \E f : Folds(f)
  <2>1. PICK g \in [SUBSET (1 .. n) -> X] : Takes(g, n, F, NewMount)
    <3> HIDE DEF X, F
    <3> QED BY <1>3, <1>4, SubsetRecursion
  <2>2. \A S \in SUBSET (1 .. n) : g[S \ {Max(S)}] \in X OBVIOUS
  <2>3. \A S \in SUBSET (1 .. n) : S # {} =>
          F[Max(S)][g[S \ {Max(S)}]] = FirstPass(g[S \ {Max(S)}], fields[Max(S)])
    <3> HIDE DEF X
    <3> QED BY <1>5, <2>2
  <2>4. Folds(g)
    <3> HIDE DEF X, F
    <3> QED BY <2>1, <2>3 DEF Takes
  <2> QED BY <2>4
<1>7. Folds(it) BY <1>6
<1>8. TakesIn(X, it, n, F, NewMount)
  <2>1. it[{}] = NewMount BY <1>7
  <2>2. \A S \in SUBSET (1 .. n) :
          S # {} /\ it[S \ {Max(S)}] \in X => it[S] = F[Max(S)][it[S \ {Max(S)}]]
    <3> HIDE DEF X, it
    <3> QED BY <1>5, <1>7
  <2> HIDE DEF it, F, X
  <2> QED BY <2>1, <2>2 DEF TakesIn
<1>9. PICK h \in Runs(X, n, F, NewMount) : h[n] = it[1 .. n]
  <2> HIDE DEF X, F, it
  <2> QED BY <1>3, <1>4, <1>8, FoldRuns
<1>10. h \in [0 .. n -> X] /\ h[0] = NewMount /\ \A i \in 1 .. n : h[i] = F[i][h[i - 1]]
  BY <1>9 DEF Runs
<1>11. \A i \in 1 .. n : h[i] = FirstPass(h[i - 1], fields[i])
  <2>1. \A i \in 1 .. n : i - 1 \in 0 .. n OBVIOUS
  <2> HIDE DEF X
  <2> QED BY <1>10, <2>1
<1> HIDE DEF it
<1> QED BY <1>2, <1>9, <1>10, <1>11

\* the mounts of the second pass, one after each field
ExpandsBy(h, lx, e, value, fields, n) ==
    /\ h[0] = NewMount
    /\ \A i \in 1 .. n : h[i] = SecondPass(lx, e, h[i - 1], fields[i])
    /\ ExpandMount(lx, e, value) = IF ReadCSV(value).ok THEN Finish(h[n]) ELSE Refuse(NewMount)

LEMMA SecondPassRuns ==
    ASSUME NEW V, <<>> \in V, NEW lx, NEW e, NEW value, NEW n \in Nat, NEW fields, fields = ReadCSV(value).fields, DOMAIN fields = 1 .. n,
           \A i \in 1 .. n : Process(lx, e, Value(fields[i])).text \in V
    PROVE  \E h \in [0 .. n -> MountsOf(V)] : ExpandsBy(h, lx, e, value, fields, n)
<1> DEFINE X == MountsOf(V)
           F == [i \in 1 .. n |-> [m \in X |-> SecondPass(lx, e, m, fields[i])]]
           Folds(f) == f = [S \in SUBSET (DOMAIN fields) |->
                              IF S = {} THEN NewMount ELSE SecondPass(lx, e, f[S \ {Max(S)}], fields[Max(S)])]
           it == CHOOSE f : Folds(f)
<1>2. ExpandMount(lx, e, value) = IF ReadCSV(value).ok THEN Finish(it[1 .. n]) ELSE Refuse(NewMount)
  BY DEF ExpandMount, ParsedMount, FoldLeft, MapThenFoldSet
<1>3. NewMount \in X BY NewMountTyped
<1>4. F \in Steps(X, n) BY SecondPassTyped DEF Steps
<1>5. \A S \in SUBSET (1 .. n) : S # {} => Max(S) \in 1 .. n BY MaxOf
<1>6. \E f : Folds(f)
  <2>1. PICK g \in [SUBSET (1 .. n) -> X] : Takes(g, n, F, NewMount)
    <3> HIDE DEF X, F
    <3> QED BY <1>3, <1>4, SubsetRecursion
  <2>2. \A S \in SUBSET (1 .. n) : g[S \ {Max(S)}] \in X OBVIOUS
  <2>3. \A S \in SUBSET (1 .. n) : S # {} =>
          F[Max(S)][g[S \ {Max(S)}]] = SecondPass(lx, e, g[S \ {Max(S)}], fields[Max(S)])
    <3> HIDE DEF X
    <3> QED BY <1>5, <2>2
  <2>4. Folds(g)
    <3> HIDE DEF X, F
    <3> QED BY <2>1, <2>3 DEF Takes
  <2> QED BY <2>4
<1>7. Folds(it) BY <1>6
<1>8. TakesIn(X, it, n, F, NewMount)
  <2>1. it[{}] = NewMount BY <1>7
  <2>2. \A S \in SUBSET (1 .. n) :
          S # {} /\ it[S \ {Max(S)}] \in X => it[S] = F[Max(S)][it[S \ {Max(S)}]]
    <3> HIDE DEF X, it
    <3> QED BY <1>5, <1>7
  <2> HIDE DEF it, F, X
  <2> QED BY <2>1, <2>2 DEF TakesIn
<1>9. PICK h \in Runs(X, n, F, NewMount) : h[n] = it[1 .. n]
  <2> HIDE DEF X, F, it
  <2> QED BY <1>3, <1>4, <1>8, FoldRuns
<1>10. h \in [0 .. n -> X] /\ h[0] = NewMount /\ \A i \in 1 .. n : h[i] = F[i][h[i - 1]]
  BY <1>9 DEF Runs
<1>11. \A i \in 1 .. n : h[i] = SecondPass(lx, e, h[i - 1], fields[i])
  <2>1. \A i \in 1 .. n : i - 1 \in 0 .. n OBVIOUS
  <2> HIDE DEF X
  <2> QED BY <1>10, <2>1
<1> HIDE DEF it
<1> QED BY <1>2, <1>9, <1>10, <1>11 DEF ExpandsBy

(* Where two readings of a mount take it from: the same, or it is quoted.  *)
Linked(m, n, escape) == n.from = m.from \/ ToSet(m.from) \cap (Quotes \cup {escape}) # {}

LEMMA FieldLinked ==
    ASSUME NEW V, NEW m \in MountsOf(V), NEW n \in MountsOf(V), NEW escape \in {Backslash, Backtick}, NEW e,
           NEW field \in Texts, Value(field) \in V, Process(NewLex(escape), e, Value(field)).text \in V,
           m.ok /\ n.ok => Linked(m, n, escape)
    PROVE  FirstPass(m, field).ok /\ SecondPass(NewLex(escape), e, n, field).ok =>
             Linked(FirstPass(m, field), SecondPass(NewLex(escape), e, n, field), escape)
<1> DEFINE lx == NewLex(escape)
           v == Value(field)
           text == Process(lx, e, v).text
           key == OneOf(Key(field), Keys)
           p == FirstPass(m, field)
           q == SecondPass(lx, e, n, field)
<1>1. Key(field) \in Texts /\ v \in Texts BY KeyTexts
<1>2. ~m.ok => p = m BY DEF FirstPass
<1>3. ~n.ok => q = n BY DEF SecondPass
<1>4. Refuse(m).ok = FALSE /\ Refuse(n).ok = FALSE BY DEF Refuse, MountsOf
<1> SUFFICES ASSUME m.ok, n.ok, p.ok, q.ok PROVE Linked(p, q, escape)
  <2> HIDE DEF p, q
  <2> QED BY <1>2, <1>3 DEF p, q, lx
<1>5. CASE ~HasEq(field)
  <2> DEFINE alone == OneOf(field, Keys)
  <2>1. p = m /\ q = KeyOnly(n, alone) BY <1>5 DEF FirstPass, SecondPass
  <2>2. KeyOnly(n, alone).from = n.from BY KeyOnlyTyped
  <2> HIDE DEF p, q, alone
  <2> QED BY <2>1, <2>2 DEF Linked
<1>6. HasEq(field) => q \in {Refuse(n), KeyValue(n, key, text)} BY DEF SecondPass
<1>7. HasEq(field) => q = KeyValue(n, key, text)
  <2> HIDE DEF q, key, text
  <2> QED BY <1>4, <1>6
<1>8. CASE HasEq(field) /\ Key(field) # <<"from">>
  <2>1. p = m BY <1>8 DEF FirstPass
  <2>2. key # "from"
    <3> SUFFICES ASSUME key = "from" PROVE FALSE
      OBVIOUS
    <3>1. Len(Key(field)) = 1 /\ Key(field)[1] = "from" BY DEF OneOf
    <3>2. Key(field) \in Seq(Chars) BY <1>1 DEF Texts
    <3>3. Key(field) = <<"from">> BY <3>1, <3>2
    <3> QED BY <1>8, <3>3
  <2>3. KeyValue(n, key, text).from = n.from
    <3>1. text \in V OBVIOUS
    <3> HIDE DEF text, key
    <3> QED BY <2>2, <3>1, KeyValueTyped
  <2> HIDE DEF p, q, key, text
  <2> QED BY <1>7, <1>8, <2>1, <2>3 DEF Linked
<1>9. CASE HasEq(field) /\ Key(field) = <<"from">>
  <2>1. key = "from"
    <3>1. Len(<<"from">>) = 1 /\ <<"from">>[1] = "from" OBVIOUS
    <3> QED BY <1>9, <3>1 DEF OneOf, Keys
  <2>2. p = IF HasVariable(v) THEN Refuse(m) ELSE KeyValue(m, "from", v) BY <1>9 DEF FirstPass
  <2>3. ~HasVariable(v) /\ p = KeyValue(m, "from", v)
    <3> HIDE DEF p
    <3> QED BY <1>4, <2>2
  <2>4. KeyValue(m, "from", v).from = v /\ KeyValue(n, "from", text).from = text
    <3>1. v \in V /\ text \in V OBVIOUS
    <3> HIDE DEF v, text
    <3> QED BY <3>1, KeyValueTyped
  <2>5. CASE ToSet(v) \cap (Quotes \cup {escape}) = {}
    <3>1. IsPlain(v, escape)
      <4>1. Len(v) \in Nat /\ DOMAIN v = 1 .. Len(v) BY <1>1 DEF Texts
      <4>2. ~HasVariable(v) BY <2>3
      <4> HIDE DEF v
      <4>3. ASSUME NEW i \in 1 .. Len(v), v[i] = "$" PROVE i = Len(v)
        <5>1. ~(i < Len(v)) BY <4>1, <4>2, <4>3 DEF HasVariable
        <5>2. \A a \in Nat : \A b \in 1 .. a : ~(b < a) => b = a OBVIOUS
        <5> DEFINE a == Len(v)
        <5>3. a \in Nat /\ i \in 1 .. a /\ ~(i < a) BY <4>1, <5>1
        <5> HIDE DEF a
        <5>4. i = a BY <5>2, <5>3
        <5> QED BY <5>4 DEF a
      <4> QED BY <2>5, <4>3 DEF IsPlain
    <3>2. text = v
      <4> HIDE DEF v
      <4> QED BY <1>1, <3>1, PlainText
    <3> HIDE DEF p, q, v, text, key
    <3> QED BY <1>7, <1>9, <2>1, <2>3, <2>4, <3>2 DEF Linked
  <2>6. CASE ToSet(v) \cap (Quotes \cup {escape}) # {}
    <3> HIDE DEF p, q, v, text, key
    <3> QED BY <2>3, <2>4, <2>6 DEF Linked
  <2> QED BY <2>5, <2>6
<1> QED BY <1>5, <1>8, <1>9

LEMMA MountLinked ==
    ASSUME NEW value \in Texts, NEW escape \in {Backslash, Backtick}, NEW e,
           ParseMount(value).ok, ExpandMount(NewLex(escape), e, value).ok
    PROVE  Linked(ParseMount(value), ExpandMount(NewLex(escape), e, value), escape)
<1> DEFINE lx == NewLex(escape)
           fields == ReadCSV(value).fields
           n == Len(fields)
           V == TextsOf(lx, e, fields)
           X == MountsOf(V)
<1>1. fields \in Seq(Texts) BY CSVTyped DEF Texts
<1>2. n \in Nat /\ DOMAIN fields = 1 .. n /\ (\A i \in 1 .. n : fields[i] \in Texts) BY <1>1
<1>3. <<>> \in V BY DEF TextsOf
<1>4. \A i \in 1 .. n : Value(fields[i]) \in V /\ Process(lx, e, Value(fields[i])).text \in V BY <1>2 DEF TextsOf
<1> HIDE DEF lx, n, V
<1>5. PICK h \in [0 .. n -> X] : /\ h[0] = NewMount
                                 /\ \A i \in 1 .. n : h[i] = FirstPass(h[i - 1], fields[i])
                                 /\ ParseMount(value) = IF ReadCSV(value).ok THEN Finish(h[n]) ELSE Refuse(NewMount)
  BY <1>2, <1>3, <1>4, FirstPassRuns
<1>6. PICK g \in [0 .. n -> X] : ExpandsBy(g, lx, e, value, fields, n)
  <2>1. \A i \in 1 .. n : Process(lx, e, Value(fields[i])).text \in V BY <1>4
  <2>2. fields = ReadCSV(value).fields OBVIOUS
  <2> HIDE DEF fields
  <2> QED BY <1>2, <1>3, <2>1, <2>2, SecondPassRuns
<1> DEFINE T == {i \in 0 .. n : h[i].ok /\ g[i].ok => Linked(h[i], g[i], escape)}
<1> HIDE DEF fields, X
<1>7. 0 \in T BY <1>2, <1>5, <1>6 DEF Linked, ExpandsBy
<1>8. ASSUME NEW i \in 1 .. n, i - 1 \in T PROVE i \in T
  <2>1. h[i - 1] \in X /\ g[i - 1] \in X BY <1>5, <1>6, <1>8
  <2>2. FirstPass(h[i - 1], fields[i]).ok /\ SecondPass(lx, e, g[i - 1], fields[i]).ok =>
          Linked(FirstPass(h[i - 1], fields[i]), SecondPass(lx, e, g[i - 1], fields[i]), escape)
    BY <1>2, <1>4, <1>8, <2>1, FieldLinked DEF X, lx
  <2>3. i \in 0 .. n OBVIOUS
  <2> QED BY <1>5, <1>6, <2>2, <2>3 DEF ExpandsBy
<1> HIDE DEF T
<1>9. 0 .. n \subseteq T BY <1>2, <1>7, <1>8, SetInduction
<1>10. h[n].ok /\ g[n].ok => Linked(h[n], g[n], escape) BY <1>2, <1>9 DEF T
<1>11. NewMount \in X BY <1>3, NewMountTyped DEF X
<1>12. Refuse(NewMount).ok = FALSE BY <1>11 DEF Refuse, X, MountsOf
<1>13. h[n] \in X /\ g[n] \in X BY <1>2, <1>5, <1>6
<1> DEFINE hm == h[n]
           gm == g[n]
<1>14. (Finish(hm).ok => hm.ok) /\ Finish(hm).from = hm.from BY <1>13, FinishTyped DEF X
<1>15. (Finish(gm).ok => gm.ok) /\ Finish(gm).from = gm.from BY <1>13, FinishTyped DEF X
<1>16. ParseMount(value) = Finish(hm) /\ ExpandMount(lx, e, value) = Finish(gm) BY <1>5, <1>6, <1>12 DEF ExpandsBy, lx
<1>17. Finish(hm).ok /\ Finish(gm).ok BY <1>16 DEF lx
<1>18. Linked(hm, gm, escape) BY <1>10, <1>14, <1>15, <1>17
<1> HIDE DEF hm, gm
<1> QED BY <1>14, <1>15, <1>16, <1>18 DEF Linked, lx

-----------------------------------------------------------------------------
(* The mounts of an instruction, as it is parsed and as it is dispatched.  *)
MountFlag == <<"mount">>

\* the mounts of an instruction are the first readings of the texts of its flags, none of them refused
MountsParsed(ins, values) ==
    /\ ins.flags[MountFlag] = values
    /\ ins.mounts = [i \in DOMAIN values |-> ParseMount(values[i])]
    /\ \A i \in DOMAIN values : values[i] \in Texts /\ ParseMount(values[i]).ok

LEMMA MountsOfNode ==
    ASSUME NEW node, Node(node), ParseInstruction(node).ok
    PROVE  IF ParseInstruction(node).name = "run" THEN \E values : MountsParsed(ParseInstruction(node), values)
           ELSE ParseInstruction(node).mounts = <<>>
<1> DEFINE args == IF ParsesFlags(node) THEN node.flags ELSE <<>>
           flags == ParseFlags(args, FlagsOf(node.cmd))
           ins == ParseInstruction(node)
           made == Instruction(node, flags.values)
<1>1. ins = IF flags.ok /\ Accepts(node, flags.values) THEN made ELSE NoInstruction BY DEF ParseInstruction
<1>2. NoInstruction.ok = FALSE BY DEF NoInstruction
<1>3. ins = made /\ Accepts(node, flags.values)
  <2> HIDE DEF ins, made, flags
  <2> QED BY <1>1, <1>2 DEF ins
<1>4. args \in Seq(Texts) BY DEF Node
<1>5. flags \in FlagValues(FlagsOf(node.cmd))
  <2> HIDE DEF args
  <2> QED BY <1>4, FlagValuesTyped
<1>6. /\ made.name = node.cmd /\ made.flags = flags.values
      /\ made.mounts = IF node.cmd = "run"
                       THEN [i \in DOMAIN flags.values[<<"mount">>] |-> ParseMount(flags.values[<<"mount">>][i])] ELSE <<>>
  <2> HIDE DEF flags
  <2> QED BY DEF Instruction, InstructionWith
<1> HIDE DEF ins, made, flags, args
<1>7. CASE node.cmd = "run"
  <2> DEFINE values == flags.values[MountFlag]
  <2>1. MountFlag \in FlagsOf(node.cmd) BY <1>7 DEF FlagsOf, MountFlag
  <2>2. flags.values \in [FlagsOf(node.cmd) -> Seq(Texts)] BY <1>5 DEF FlagValues
  <2>3. values \in Seq(Texts) BY <2>1, <2>2
  <2>4. IsRun(flags.values) BY <1>3, <1>7 DEF Accepts
  <2>5. \A i \in DOMAIN values : ParseMount(values[i]).ok BY <2>4 DEF IsRun, MountFlag
  <2>6. \A i \in DOMAIN values : values[i] \in Texts BY <2>3
  <2>7. ins.mounts = [i \in DOMAIN values |-> ParseMount(values[i])] BY <1>3, <1>6, <1>7 DEF MountFlag
  <2>8. ins.flags[MountFlag] = values BY <1>3, <1>6
  <2> HIDE DEF values
  <2>9. MountsParsed(ins, values) BY <2>5, <2>6, <2>7, <2>8 DEF MountsParsed
  <2> QED BY <1>3, <1>6, <1>7, <2>9 DEF ins
<1>8. CASE node.cmd # "run" BY <1>3, <1>6, <1>8 DEF ins
<1> QED BY <1>7, <1>8

LEMMA MountsExpanded ==
    ASSUME NEW ins, IsCommand(ins), NEW lx, NEW e, Expand(ins, lx, e).ok
    PROVE  IF ins.name = "run"
           THEN /\ Expand(ins, lx, e).mounts = [i \in DOMAIN ins.mounts |-> ExpandMount(lx, e, ins.flags[MountFlag][i])]
                /\ \A i \in DOMAIN ins.mounts : ExpandMount(lx, e, ins.flags[MountFlag][i]).ok
           ELSE Expand(ins, lx, e).mounts = ins.mounts
<1> DEFINE d == Expand(ins, lx, e)
           mount(i) == ExpandMount(lx, e, ins.flags[<<"mount">>][i])
           mounts == [i \in DOMAIN ins.mounts |-> mount(i)]
           read == [i \in DOMAIN ins.words |-> Process(lx, e, ins.words[i])]
<1>1. DOMAIN ins = InstructionFields BY DEF IsCommand
<1>2. NoInstruction.ok = FALSE BY DEF NoInstruction
<1>3. CASE ins.name = "run"
  <2>1. d = WithMounts(ins, mounts) BY <1>3 DEF Expand, Expandable
  <2>2. DOMAIN mounts = DOMAIN ins.mounts /\ \A i \in DOMAIN ins.mounts : mounts[i] = mount(i) OBVIOUS
  <2> HIDE DEF d, mount, mounts
  <2>3. d = IF \E i \in DOMAIN mounts : ~mounts[i].ok THEN NoInstruction ELSE [ins EXCEPT !.mounts = mounts]
    BY <2>1 DEF WithMounts, Checked
  <2>4. (\A i \in DOMAIN mounts : mounts[i].ok) /\ d = [ins EXCEPT !.mounts = mounts] BY <1>2, <2>3 DEF d
  <2>5. d.mounts = mounts BY <1>1, <2>4 DEF InstructionFields
  <2>6. \A i \in DOMAIN ins.mounts : mount(i).ok BY <2>2, <2>4
  <2> QED BY <1>3, <2>5, <2>6 DEF d, mounts, mount, MountFlag
<1>4. CASE ins.name \in Expandable \cup {"expose"}
  <2> DEFINE all == IF ins.name = "expose" THEN FlattenSeq([i \in DOMAIN read |-> read[i].words])
                    ELSE [i \in DOMAIN read |-> read[i].text]
  <2>1. d = WithWords(ins, read) BY <1>4 DEF Expand, Expandable
  <2> HIDE DEF read, d
  <2>2. d \in {NoInstruction, [ins EXCEPT !.words = all]} BY <2>1 DEF WithWords, Checked
  <2> HIDE DEF all
  <2>3. d = [ins EXCEPT !.words = all] BY <1>2, <2>2 DEF d
  <2>4. d.mounts = ins.mounts BY <1>1, <2>3 DEF InstructionFields
  <2>5. ins.name # "run" BY <1>4 DEF Expandable
  <2> QED BY <2>4, <2>5 DEF d
<1>5. CASE ins.name \notin Expandable \cup {"expose", "run"}
  <2>1. d = ins BY <1>5 DEF Expand
  <2> QED BY <1>5, <2>1
<1> QED BY <1>3, <1>4, <1>5

LEMMA GoodDispatch == Shape /\ GoodSoFar /\ Dispatch => GoodSoFar'
<1> SUFFICES ASSUME Shape, GoodSoFar, Dispatch PROVE GoodSoFar'
  OBVIOUS
<1>1. CASE Fail BY <1>1 DEF Fail, GoodSoFar, Done
<1>2. CASE ~Fail
  <2> DEFINE n == Len(log)
             ins == Expand(Command, Lex, env)
             cs == stages[n].commands
  <2>1. Dispatched(n, ins) BY <1>2, DispatchIs
  <2> HIDE DEF ins
  <2>2. /\ Sequence(Done) /\ Len(Done) \in Nat /\ Len(Done) = next - 1 /\ next \in 1 .. Len(cs) /\ Done' = Append(Done, ins)
        /\ log # <<>> /\ Len(log') = n /\ UNCHANGED stages /\ ins.ok
    BY <2>1 DEF Dispatched
  <2>3. /\ Len(Done') = Len(Done) + 1 /\ Done'[Len(Done) + 1] = ins
        /\ \A j \in 1 .. Len(Done) : Done'[j] = Done[j]
    BY <2>2, SequenceAppend
  <2>4. \A j \in 1 .. Len(Done) : j <= Len(cs) /\ Done[j].ok BY <2>2 DEF GoodSoFar
  <2> HIDE DEF n, cs
  <2>5. ASSUME NEW j \in 1 .. Len(Done') PROVE j <= Len(cs) /\ Done'[j].ok
    <3>1. CASE j = Len(Done) + 1 BY <2>2, <2>3, <3>1
    <3>2. CASE j # Len(Done) + 1
      <4>1. j \in 1 .. Len(Done) BY <2>2, <2>3, <3>2
      <4> QED BY <2>3, <2>4, <4>1
    <3> QED BY <3>1, <3>2
  <2> QED BY <2>2, <2>5 DEF GoodSoFar, cs, n
<1> QED BY <1>1, <1>2

LEMMA GoodStep == Shape /\ GoodSoFar /\ [Next]_vars => GoodSoFar'
<1> SUFFICES ASSUME Shape, GoodSoFar, [Next]_vars PROVE GoodSoFar'
  OBVIOUS
<1>1. CASE ReadLine \/ EndOfLines \/ ParseNode \/ EndOfFile \/ ExpandGlobal \/ EndOfGlobals \/ ExpandBase
  <2>1. phase \in {"lines", "parse", "globals", "bases"} /\ log' = log
    BY <1>1 DEF ReadLine, EndOfLines, ParseNode, EndOfFile, ExpandGlobal, EndOfGlobals, ExpandBase, NameBase,
                AddMetaArg, AddStage, AddCommand, Reject, Fail
  <2>2. log' = <<>> BY <2>1 DEF Shape, LogMade
  <2> QED BY <2>2 DEF GoodSoFar
<1>2. CASE NoStage \/ EndOfStages \/ UNCHANGED vars
  BY <1>2 DEF NoStage, EndOfStages, vars, GoodSoFar, Done
<1>3. CASE BeginStage \/ SkipStage
  <2>1. PICK e : log' = Append(log, [began |-> e, done |-> <<>>]) BY <1>3 DEF BeginStage, SkipStage
  <2>2. Sequence(log) BY DEF Shape, LogMade
  <2> DEFINE entry == [began |-> e, done |-> <<>>]
  <2>3. entry.done = <<>> OBVIOUS
  <2> HIDE DEF entry
  <2>4. Len(log') = Len(log) + 1 /\ log'[Len(log) + 1] = entry BY <2>1, <2>2, SequenceAppend DEF entry
  <2>5. Done' = <<>> BY <2>3, <2>4 DEF Done
  <2> QED BY <2>5, SequenceEmpty DEF GoodSoFar
<1> QED BY <1>1, <1>2, <1>3, GoodDispatch DEF Next

LEMMA GoodInit == Init => GoodSoFar BY DEF Init, GoodSoFar

LEMMA MountsLinked == Shape /\ InScope /\ GoodSoFar => LinkedAsMounted
<1> SUFFICES ASSUME Shape, InScope, GoodSoFar, NEW j \in DOMAIN Done, NEW i \in DOMAIN Done[j].mounts
             PROVE  Linked(Source(j).mounts[i], Done[j].mounts[i], file.escape)
  BY DEF LinkedAsMounted, Linked
<1> DEFINE n == Len(log)
           cs == stages[n].commands
           ins == Source(j)
           d == Done[j]
<1>1. log # <<>>
  <2> SUFFICES ASSUME log = <<>> PROVE FALSE
    OBVIOUS
  <2>1. Done = <<>> BY DEF Done
  <2>2. DOMAIN Done = {} BY <2>1
  <2> HIDE DEF d
  <2> QED BY <2>2
<1>2. Sequence(log) /\ n \in Nat /\ n \in 1 .. Len(log) BY <1>1, SequenceFacts DEF Shape, LogMade, Sequence
<1>3. Sequence(Done) /\ DOMAIN Done = 1 .. Len(Done) BY <1>1, <1>2, SequenceFacts DEF Done, Shape, LogMade
<1>4. n \in 1 .. Len(stages)
  <2>1. Len(stages) \in Nat BY SequenceFacts DEF Shape, StagesMade
  <2> QED BY <1>2, <2>1 DEF Shape, LogMade
<1>5. j \in 1 .. Len(cs) /\ d.ok
  <2>1. Sequence(cs) BY <1>4 DEF Shape, StagesMade, StageMade
  <2>2. Len(cs) \in Nat /\ Len(Done) \in Nat BY <1>3, <2>1, SequenceFacts
  <2>3. j \in 1 .. Len(Done) BY <1>3
  <2>4. j <= Len(cs) /\ d.ok BY <1>1, <2>3 DEF GoodSoFar
  <2> HIDE DEF cs, d
  <2> QED BY <2>2, <2>3, <2>4
<1>6. PICK node : Node(node) /\ ins = ParseInstruction(node) /\ ins.ok /\ IsCommand(ins)
  <2>1. StageMade(stages[n], nodes) BY <1>4 DEF Shape, StagesMade
  <2> DEFINE at == stages[n].lines[j]
  <2>2. at \in 1 .. Len(nodes) /\ cs[j].ok /\ cs[j] = ParseInstruction(nodes[at]) BY <1>5, <2>1 DEF StageMade
  <2>3. Node(nodes[at]) /\ IsCommand(ParseInstruction(nodes[at])) BY <2>2, MadeNode
  <2>4. ins = cs[j] BY DEF Source
  <2> QED BY <2>2, <2>3, <2>4
<1>7. PICK e : d = Expand(ins, Lex, e)
  <2>1. PICK sc : ReadInScope(sc, file, cs, Done) BY <1>1 DEF InScope
  <2>2. d = Expand(cs[j], NewLex(file.escape), sc[j - 1]) BY <2>1 DEF ReadInScope
  <2>3. ins = cs[j] BY DEF Source
  <2> QED BY <2>2, <2>3 DEF Lex
<1> HIDE DEF ins, d, cs, n
<1>8. CASE ins.name = "run"
  <2>1. PICK values : MountsParsed(ins, values) BY <1>6, <1>8, MountsOfNode
  <2>2. /\ d.mounts = [k \in DOMAIN ins.mounts |-> ExpandMount(Lex, e, ins.flags[MountFlag][k])]
        /\ \A k \in DOMAIN ins.mounts : ExpandMount(Lex, e, ins.flags[MountFlag][k]).ok
    BY <1>5, <1>6, <1>7, <1>8, MountsExpanded
  <2>3. /\ ins.flags[MountFlag] = values /\ ins.mounts = [k \in DOMAIN values |-> ParseMount(values[k])]
        /\ \A k \in DOMAIN values : values[k] \in Texts /\ ParseMount(values[k]).ok
    BY <2>1 DEF MountsParsed
  <2>4. i \in DOMAIN values BY <2>2, <2>3 DEF d
  <2> DEFINE v == values[i]
  <2>5. ins.mounts[i] = ParseMount(v) /\ d.mounts[i] = ExpandMount(Lex, e, v) BY <2>2, <2>3, <2>4
  <2>6. v \in Texts /\ ParseMount(v).ok /\ ExpandMount(Lex, e, v).ok BY <2>2, <2>3, <2>4
  <2> HIDE DEF v
  <2>7. file.escape \in {Backslash, Backtick} BY DEF Shape, FileGiven
  <2>8. Linked(ParseMount(v), ExpandMount(NewLex(file.escape), e, v), file.escape)
    BY <2>6, <2>7, MountLinked DEF Lex
  <2> QED BY <2>5, <2>8 DEF Lex, ins, d
<1>9. CASE ins.name # "run"
  <2>1. ins.mounts = <<>> BY <1>6, <1>9, MountsOfNode
  <2>2. d.mounts = ins.mounts BY <1>5, <1>6, <1>7, <1>9, MountsExpanded
  <2>3. DOMAIN d.mounts = {} BY <2>1, <2>2
  <2>4. i \in DOMAIN d.mounts BY DEF d
  <2> QED BY <2>3, <2>4
<1> QED BY <1>8, <1>9

(* The stage a mount was linked to when the Dockerfile was parsed is the   *)
(* one it is mounted from when the instruction is dispatched, whatever the *)
(* variables are, unless its name is quoted or escaped (parseMount,        *)
(* detectRunMount): for every Dockerfile, build arguments and bases.       *)
THEOREM MountedFromItsLink == Spec => []LinkedAsMounted
<1>1. Spec => [](Shape /\ InScope /\ GoodSoFar)
  BY ShapeInit, InScopeInit, GoodInit, ShapeStep, InScopeStep, GoodStep, PTL DEF Spec
<1>2. Shape /\ InScope /\ GoodSoFar => LinkedAsMounted BY MountsLinked
<1> QED BY <1>1, <1>2, PTL

-----------------------------------------------------------------------------
(* What a mount without quotes, escapes and variables means: each field is *)
(* read as it is, and says one thing about the mount.                      *)
Bare == Chars \ (Quotes \cup {"$", Backslash, Backtick})

NameOf(field) == OneOf(IF HasEq(field) THEN Key(field) ELSE field, Keys)
CanonOf(name) ==
    CASE name = "src" -> "source"
      [] name \in {"dst", "destination"} -> "target"
      [] name \in {"ro", "rw", "readwrite"} -> "readonly"
      [] OTHER -> name
FieldOf(field) ==
    [key |-> CanonOf(NameOf(field)), alone |-> ~HasEq(field), negated |-> NameOf(field) \in {"rw", "readwrite"},
     value |-> IF HasEq(field) THEN Value(field) ELSE <<>>]

LEMMA FieldsAre == \A value : MountFields(value) = [i \in DOMAIN ReadCSV(value).fields |-> FieldOf(ReadCSV(value).fields[i])]
  BY DEF MountFields, FieldOf, NameOf, CanonOf

\* whether a field is accepted for a mount of that type, and what it says of its key
Fits(f, type) ==
    /\ f.key # "none"
    /\ f.alone => f.key \in {"readonly", "required"}
    /\ f.key \in {"readonly", "required"} => f.alone \/ IsBool(f.value)
    /\ f.key \in {"size", "mode", "uid", "gid"} => IsNumber(f.value)
    /\ f.key = "type" => OneOf(f.value, MountTypes) # "none"
    /\ f.key = "sharing" => OneOf(f.value, SharingTypes) # "none"
    /\ f.key = "size" => type = "tmpfs"
    /\ f.key = "required" => type \in {"secret", "ssh"}
Meaning(f) ==
    CASE f.key = "readonly" -> (f.alone \/ IsTrue(f.value)) # f.negated
      [] f.key = "required" -> f.alone \/ IsTrue(f.value)
      [] f.key = "sharing" -> OneOf(f.value, SharingTypes)
      [] OTHER -> f.value
Noted(m, f) ==
    CASE f.key = "type" -> [m EXCEPT !.type = OneOf(f.value, MountTypes)]
      [] f.key = "from" -> [m EXCEPT !.from = Meaning(f)]
      [] f.key = "source" -> [m EXCEPT !.source = Meaning(f)]
      [] f.key = "target" -> [m EXCEPT !.target = Meaning(f)]
      [] f.key = "size" -> [m EXCEPT !.size = Meaning(f)]
      [] f.key = "id" -> [m EXCEPT !.id = Meaning(f)]
      [] f.key = "readonly" -> SetReadOnly(m, Meaning(f))
      [] f.key = "required" -> [m EXCEPT !.required = Meaning(f)]
      [] f.key = "sharing" -> [m EXCEPT !.sharing = Meaning(f)]
      [] f.key \in Owners -> [m EXCEPT !.owners = @ \cup {f.key}]

LEMMA OneOfKeys == \A word : OneOf(word, Keys) \in Keys \cup {"none"}
  BY DEF OneOf

LEMMA BareField ==
    ASSUME NEW escape \in {Backslash, Backtick}, NEW e, NEW m, NEW field \in Seq(Bare), m.ok
    PROVE  SecondPass(NewLex(escape), e, m, field) =
             IF HasEq(field) THEN KeyValue(m, NameOf(field), Value(field)) ELSE KeyOnly(m, NameOf(field))
<1> DEFINE v == Value(field)
           r == Process(NewLex(escape), e, v)
<1>1. v \in Seq(Bare) BY KeyParts
<1> HIDE DEF v
<1>2. v \in Texts BY <1>1 DEF Texts, Bare
<1>3. \A i \in 1 .. Len(v) : v[i] \in Bare BY <1>1
<1>4. IsPlain(v, escape)
  <2>1. \A i \in 1 .. Len(v) : v[i] # "$" BY <1>3 DEF Bare
  <2>2. ToSet(v) \subseteq Bare BY <1>1 DEF ToSet
  <2> QED BY <2>1, <2>2 DEF IsPlain, Bare
<1>5. r.ok = TRUE /\ r.text = v BY <1>2, <1>4, PlainText
<1> DEFINE ok == r.ok
           text == r.text
<1>6. SecondPass(NewLex(escape), e, m, field) =
        IF ~HasEq(field) THEN KeyOnly(m, OneOf(field, Keys))
        ELSE IF ok THEN KeyValue(m, OneOf(Key(field), Keys), text) ELSE Refuse(m)
  BY DEF SecondPass, v
<1>7. ok = TRUE /\ text = v BY <1>5
<1> HIDE DEF ok, text
<1> QED BY <1>6, <1>7 DEF NameOf, v

LEMMA FieldFacts ==
    ASSUME NEW field
    PROVE  LET f == FieldOf(field)
           IN  /\ f.key = CanonOf(NameOf(field)) /\ f.alone = ~HasEq(field) /\ f.alone \in BOOLEAN
               /\ f.negated = (IF NameOf(field) \in {"rw", "readwrite"} THEN TRUE ELSE FALSE) /\ f.negated \in BOOLEAN
               /\ HasEq(field) => f.value = Value(field)
<1> DEFINE g == NameOf(field) \in {"rw", "readwrite"}
           f == FieldOf(field)
<1>1. HasEq(field) \in BOOLEAN BY DEF HasEq
<1>2. f.negated = g BY DEF FieldOf
<1>3. f.key = CanonOf(NameOf(field)) /\ f.alone = ~HasEq(field) /\ (HasEq(field) => f.value = Value(field)) BY DEF FieldOf
<1>4. f.negated = (IF g THEN TRUE ELSE FALSE) /\ f.negated \in BOOLEAN
  <2> DEFINE x == f.negated
  <2>1. x = g /\ g \in BOOLEAN BY <1>2
  <2> HIDE DEF g, x
  <2>2. x = (IF g THEN TRUE ELSE FALSE) /\ x \in BOOLEAN BY <2>1
  <2> QED BY <2>2 DEF x
<1> HIDE DEF f
<1> QED BY <1>1, <1>3, <1>4 DEF f

LEMMA FieldAlone ==
    ASSUME NEW V, NEW m \in MountsOf(V), NEW field, ~HasEq(field)
    PROVE  KeyOnly(m, NameOf(field)) = IF Fits(FieldOf(field), m.type) THEN Noted(m, FieldOf(field)) ELSE Refuse(m)
<1> DEFINE f == FieldOf(field)
           name == NameOf(field)
           true == IsTrue(f.value)
<1>1. f.key = CanonOf(name) /\ f.alone = TRUE /\ f.negated = (IF name \in {"rw", "readwrite"} THEN TRUE ELSE FALSE) BY FieldFacts
<1>2. name \in Keys \cup {"none"} BY OneOfKeys DEF NameOf
<1> HIDE DEF f, name
<1>3. CASE name \in {"readonly", "ro"}
  <2>1. f.key = "readonly" /\ f.negated = FALSE BY <1>1, <1>3 DEF CanonOf
  <2>2. KeyOnly(m, name) = SetReadOnly(m, TRUE) BY <1>3 DEF KeyOnly
  <2>3. Fits(f, m.type) BY <1>1, <2>1 DEF Fits
  <2>4. Meaning(f) = TRUE BY <1>1, <2>1 DEF Meaning
  <2>5. Noted(m, f) = SetReadOnly(m, Meaning(f)) BY <2>1 DEF Noted, Owners
  <2> QED BY <2>2, <2>3, <2>4, <2>5 DEF f, name
<1>4. CASE name \in {"readwrite", "rw"}
  <2>1. f.key = "readonly" /\ f.negated = TRUE BY <1>1, <1>4 DEF CanonOf
  <2>2. KeyOnly(m, name) = SetReadOnly(m, FALSE) BY <1>4 DEF KeyOnly
  <2>3. Fits(f, m.type) BY <1>1, <2>1 DEF Fits
  <2>4. Meaning(f) = FALSE BY <1>1, <2>1 DEF Meaning
  <2>5. Noted(m, f) = SetReadOnly(m, Meaning(f)) BY <2>1 DEF Noted, Owners
  <2> QED BY <2>2, <2>3, <2>4, <2>5 DEF f, name
<1>5. CASE name = "required"
  <2>1. f.key = "required" BY <1>1, <1>5 DEF CanonOf
  <2>2. KeyOnly(m, name) = IF m.type \in {"secret", "ssh"} THEN [m EXCEPT !.required = TRUE] ELSE Refuse(m)
    BY <1>5 DEF KeyOnly
  <2>3. Fits(f, m.type) <=> m.type \in {"secret", "ssh"} BY <1>1, <2>1 DEF Fits
  <2>4. Meaning(f) = TRUE BY <1>1, <2>1 DEF Meaning
  <2>5. Noted(m, f) = [m EXCEPT !.required = Meaning(f)] BY <2>1 DEF Noted, Owners
  <2> QED BY <2>2, <2>3, <2>4, <2>5 DEF f, name
<1>6. CASE name \notin {"readonly", "ro", "readwrite", "rw", "required"}
  <2>1. f.key \notin {"readonly", "required"} BY <1>1, <1>2, <1>6 DEF CanonOf, Keys
  <2>2. KeyOnly(m, name) = Refuse(m) BY <1>6 DEF KeyOnly
  <2>3. ~Fits(f, m.type) BY <1>1, <2>1 DEF Fits
  <2> QED BY <2>2, <2>3 DEF f, name
<1> QED BY <1>3, <1>4, <1>5, <1>6

LEMMA FieldValue ==
    ASSUME NEW V, NEW m \in MountsOf(V), NEW field, HasEq(field)
    PROVE  KeyValue(m, NameOf(field), Value(field)) =
             IF Fits(FieldOf(field), m.type) THEN Noted(m, FieldOf(field)) ELSE Refuse(m)
<1> DEFINE f == FieldOf(field)
           name == NameOf(field)
           v == Value(field)
           r == KeyValue(m, name, v)
           true == IsTrue(v)
           said == Meaning(f)
<1>1. f.key = CanonOf(name) /\ f.alone = FALSE /\ f.negated = (IF name \in {"rw", "readwrite"} THEN TRUE ELSE FALSE) /\ f.value = v BY FieldFacts
<1>2. name \in Keys \cup {"none"} BY OneOfKeys DEF NameOf
<1>3. true \in BOOLEAN BY BoolFacts
<1> DEFINE Wanted == r = IF Fits(f, m.type) THEN Noted(m, f) ELSE Refuse(m)
<1> SUFFICES Wanted
  OBVIOUS
<1> HIDE DEF f, name, v, true
<1>4. CASE name = "type"
  <2>1. f.key = "type" BY <1>1, <1>4 DEF CanonOf
  <2>2. r = IF OneOf(v, MountTypes) # "none" THEN [m EXCEPT !.type = OneOf(v, MountTypes)] ELSE Refuse(m)
    BY <1>4 DEF KeyValue
  <2>3. Fits(f, m.type) <=> OneOf(v, MountTypes) # "none" BY <1>1, <2>1 DEF Fits
  <2>4. Noted(m, f) = [m EXCEPT !.type = OneOf(v, MountTypes)] BY <1>1, <2>1 DEF Noted, Owners
  <2> QED BY <2>2, <2>3, <2>4
<1>5. CASE name \in {"from", "source", "src", "target", "dst", "destination", "id"}
  <2>1. f.key = CASE name \in {"source", "src"} -> "source" [] name \in {"target", "dst", "destination"} -> "target" [] OTHER -> name
    BY <1>1, <1>5 DEF CanonOf
  <2>2. r = CASE name = "from" -> [m EXCEPT !.from = v]
              [] name \in {"source", "src"} -> [m EXCEPT !.source = v]
              [] name \in {"target", "dst", "destination"} -> [m EXCEPT !.target = v]
              [] name = "id" -> [m EXCEPT !.id = v]
    BY <1>5 DEF KeyValue
  <2>3. f.key \in {"from", "source", "target", "id"} BY <1>5, <2>1
  <2>4. Fits(f, m.type) BY <1>1, <2>3 DEF Fits
  <2>5. said = v BY <1>1, <2>3 DEF Meaning
  <2>6. Noted(m, f) = CASE f.key = "from" -> [m EXCEPT !.from = said]
                        [] f.key = "source" -> [m EXCEPT !.source = said]
                        [] f.key = "target" -> [m EXCEPT !.target = said]
                        [] f.key = "id" -> [m EXCEPT !.id = said]
    BY <2>3 DEF Noted, Owners
  <2>7. r = Noted(m, f)
    <3> HIDE DEF r, said
    <3>1. CASE name = "from" BY <2>1, <2>2, <2>5, <2>6, <3>1
    <3>2. CASE name \in {"source", "src"} BY <2>1, <2>2, <2>5, <2>6, <3>2
    <3>3. CASE name \in {"target", "dst", "destination"} BY <2>1, <2>2, <2>5, <2>6, <3>3
    <3>4. CASE name = "id" BY <2>1, <2>2, <2>5, <2>6, <3>4
    <3> QED BY <1>5, <3>1, <3>2, <3>3, <3>4
  <2> HIDE DEF r
  <2> QED BY <2>4, <2>7
<1>6. CASE name \in {"readonly", "ro", "readwrite", "rw"}
  <2>1. f.key = "readonly" BY <1>1, <1>6 DEF CanonOf
  <2>2. r = IF IsBool(v) THEN SetReadOnly(m, IF name \in {"readonly", "ro"} THEN true ELSE ~true) ELSE Refuse(m)
    BY <1>6 DEF KeyValue, true
  <2>3. Fits(f, m.type) <=> IsBool(v) BY <1>1, <2>1 DEF Fits
  <2>4. said = (true # f.negated) BY <1>1, <1>3, <2>1 DEF Meaning, true
  <2>5. said = IF name \in {"readonly", "ro"} THEN true ELSE ~true
    <3> HIDE DEF said
    <3>1. CASE name \in {"readonly", "ro"}
      <4>1. f.negated = FALSE BY <1>1, <3>1
      <4> QED BY <1>3, <2>4, <3>1, <4>1
    <3>2. CASE name \in {"readwrite", "rw"}
      <4>1. f.negated = TRUE BY <1>1, <3>2
      <4> QED BY <1>3, <2>4, <3>2, <4>1
    <3> QED BY <1>6, <3>1, <3>2
  <2>6. Noted(m, f) = SetReadOnly(m, said) BY <2>1 DEF Noted, Owners
  <2> HIDE DEF r, said
  <2> QED BY <2>2, <2>3, <2>5, <2>6
<1>7. CASE name = "required"
  <2>1. f.key = "required" BY <1>1, <1>7 DEF CanonOf
  <2>2. r = IF m.type \in {"secret", "ssh"} /\ IsBool(v) THEN [m EXCEPT !.required = true] ELSE Refuse(m)
    BY <1>7 DEF KeyValue, true
  <2>3. Fits(f, m.type) <=> m.type \in {"secret", "ssh"} /\ IsBool(v) BY <1>1, <2>1 DEF Fits
  <2>4. said = true BY <1>1, <1>3, <2>1 DEF Meaning, true
  <2>5. Noted(m, f) = [m EXCEPT !.required = said] BY <2>1 DEF Noted, Owners
  <2> HIDE DEF r, said
  <2> QED BY <2>2, <2>3, <2>4, <2>5
<1>8. CASE name = "size"
  <2>1. f.key = "size" BY <1>1, <1>8 DEF CanonOf
  <2>2. r = IF m.type = "tmpfs" /\ IsNumber(v) THEN [m EXCEPT !.size = v] ELSE Refuse(m) BY <1>8 DEF KeyValue
  <2>3. Fits(f, m.type) <=> m.type = "tmpfs" /\ IsNumber(v) BY <1>1, <2>1 DEF Fits
  <2>4. said = v BY <1>1, <2>1 DEF Meaning
  <2>5. Noted(m, f) = [m EXCEPT !.size = said] BY <2>1 DEF Noted, Owners
  <2> HIDE DEF r, said
  <2> QED BY <2>2, <2>3, <2>4, <2>5
<1>9. CASE name = "sharing"
  <2>1. f.key = "sharing" BY <1>1, <1>9 DEF CanonOf
  <2>2. r = IF OneOf(v, SharingTypes) # "none" THEN [m EXCEPT !.sharing = OneOf(v, SharingTypes)] ELSE Refuse(m)
    BY <1>9 DEF KeyValue
  <2>3. Fits(f, m.type) <=> OneOf(v, SharingTypes) # "none" BY <1>1, <2>1 DEF Fits
  <2>4. said = OneOf(v, SharingTypes) BY <1>1, <2>1 DEF Meaning
  <2>5. Noted(m, f) = [m EXCEPT !.sharing = said] BY <2>1 DEF Noted, Owners
  <2> HIDE DEF r, said
  <2> QED BY <2>2, <2>3, <2>4, <2>5
<1>10. CASE name \in Owners
  <2>1. f.key = name BY <1>1, <1>10 DEF CanonOf, Owners
  <2>2. r = IF IsNumber(v) THEN [m EXCEPT !.owners = @ \cup {name}] ELSE Refuse(m) BY <1>10 DEF KeyValue, Owners
  <2>3. Fits(f, m.type) <=> IsNumber(v) BY <1>1, <1>10, <2>1 DEF Fits, Owners
  <2>4. Noted(m, f) = [m EXCEPT !.owners = @ \cup {name}] BY <1>10, <2>1 DEF Noted, Owners
  <2> HIDE DEF r
  <2> QED BY <2>2, <2>3, <2>4
<1>11. CASE name = "none"
  <2>1. f.key = "none" BY <1>1, <1>11 DEF CanonOf
  <2>2. r = Refuse(m) BY <1>11 DEF KeyValue
  <2> QED BY <2>1, <2>2 DEF Fits
<1> QED BY <1>2, <1>4, <1>5, <1>6, <1>7, <1>8, <1>9, <1>10, <1>11 DEF Keys, Owners

\* what a field leaves of a mount: all but the key it says something about
Single == {"from", "source", "target", "readonly", "required", "size", "id", "sharing"}
Canonical == Single \cup Owners \cup {"type", "none"}

LEMMA CanonicalKey == \A field : FieldOf(field).key \in Canonical
<1>1. \A name \in Keys \cup {"none"} : CanonOf(name) \in Canonical BY DEF CanonOf, Canonical, Single, Owners, Keys
<1>2. \A field : NameOf(field) \in Keys \cup {"none"} BY OneOfKeys DEF NameOf
<1>3. \A field : FieldOf(field).key = CanonOf(NameOf(field)) BY FieldFacts
<1> QED BY <1>1, <1>2, <1>3

IsNoted(p, m, f) ==
    /\ p.ok = m.ok
    /\ \A key \in Single : p[key] = IF key = f.key THEN Meaning(f) ELSE m[key]
    /\ p.type = IF f.key = "type" THEN OneOf(f.value, MountTypes) ELSE m.type
    /\ p.roAuto = IF f.key = "readonly" THEN FALSE ELSE m.roAuto
    /\ p.owners = IF f.key \in Owners THEN m.owners \cup {f.key} ELSE m.owners

LEMMA NotedIs ==
    ASSUME NEW V, NEW m \in MountsOf(V), NEW f, f.key \in Canonical \ {"none"}
    PROVE  IsNoted(Noted(m, f), m, f)
<1> DEFINE said == Meaning(f)
           type == OneOf(f.value, MountTypes)
           key == f.key
           p == Noted(m, f)
<1>1. DOMAIN m = {"ok", "type", "from", "source", "target", "readonly", "roAuto", "required", "size", "id", "sharing", "owners"}
  BY DEF MountsOf
<1>2. CASE key = "type"
  <2>1. p = [m EXCEPT !.type = type] BY <1>2 DEF Noted, Owners
  <2> HIDE DEF p, type, key
  <2> QED BY <1>1, <1>2, <2>1 DEF IsNoted, Single, Owners, p, type, key
<1>3. CASE key = "from"
  <2>1. p = [m EXCEPT !.from = said] BY <1>3 DEF Noted, Owners
  <2> HIDE DEF p, said, key
  <2> QED BY <1>1, <1>3, <2>1 DEF IsNoted, Single, Owners, p, said, key
<1>4. CASE key = "source"
  <2>1. p = [m EXCEPT !.source = said] BY <1>4 DEF Noted, Owners
  <2> HIDE DEF p, said, key
  <2> QED BY <1>1, <1>4, <2>1 DEF IsNoted, Single, Owners, p, said, key
<1>5. CASE key = "target"
  <2>1. p = [m EXCEPT !.target = said] BY <1>5 DEF Noted, Owners
  <2> HIDE DEF p, said, key
  <2> QED BY <1>1, <1>5, <2>1 DEF IsNoted, Single, Owners, p, said, key
<1>6. CASE key = "size"
  <2>1. p = [m EXCEPT !.size = said] BY <1>6 DEF Noted, Owners
  <2> HIDE DEF p, said, key
  <2> QED BY <1>1, <1>6, <2>1 DEF IsNoted, Single, Owners, p, said, key
<1>7. CASE key = "id"
  <2>1. p = [m EXCEPT !.id = said] BY <1>7 DEF Noted, Owners
  <2> HIDE DEF p, said, key
  <2> QED BY <1>1, <1>7, <2>1 DEF IsNoted, Single, Owners, p, said, key
<1>8. CASE key = "required"
  <2>1. p = [m EXCEPT !.required = said] BY <1>8 DEF Noted, Owners
  <2> HIDE DEF p, said, key
  <2> QED BY <1>1, <1>8, <2>1 DEF IsNoted, Single, Owners, p, said, key
<1>9. CASE key = "sharing"
  <2>1. p = [m EXCEPT !.sharing = said] BY <1>9 DEF Noted, Owners
  <2> HIDE DEF p, said, key
  <2> QED BY <1>1, <1>9, <2>1 DEF IsNoted, Single, Owners, p, said, key
<1>10. CASE key = "readonly"
  <2>1. p = [m EXCEPT !.readonly = said, !.roAuto = FALSE] BY <1>10 DEF Noted, Owners, SetReadOnly
  <2> HIDE DEF p, said, key
  <2> QED BY <1>1, <1>10, <2>1 DEF IsNoted, Single, Owners, p, said, key
<1>11. CASE key \in Owners
  <2>1. p = [m EXCEPT !.owners = @ \cup {key}] BY <1>11 DEF Noted, Owners
  <2> HIDE DEF p, said, key
  <2> QED BY <1>1, <1>11, <2>1 DEF IsNoted, Single, Owners, p, said, key
<1> QED BY <1>2, <1>3, <1>4, <1>5, <1>6, <1>7, <1>8, <1>9, <1>10, <1>11 DEF Canonical, Single

(* A mount after its first i fields: it is refused if one of them does not *)
(* fit the type, and else has what they say.                               *)
InOrder(fs, n) ==
    /\ \A k, l \in 1 .. n : fs[k].key = fs[l].key => k = l
    /\ \A k \in 1 .. n : fs[k].key = "type" => k = 1
TypeSaid(fs, n) == IF 1 <= n /\ fs[1].key = "type" THEN OneOf(fs[1].value, MountTypes) ELSE "bind"
SaysOf(fs, i, key, x) ==
    /\ \A k \in 1 .. i : fs[k].key = key => x = Meaning(fs[k])
    /\ (\A k \in 1 .. i : fs[k].key # key) => x = NewMount[key]
AllSaid(m, fs, i) == \A key \in Single : SaysOf(fs, i, key, m[key])
AllFit(fs, i, type) == \A k \in 1 .. i : Fits(fs[k], type)
OwnersSaid(fs, i) == {key \in Owners : \E k \in 1 .. i : fs[k].key = key}
Described(m, fs, i, type) ==
    /\ m.ok = AllFit(fs, i, type)
    /\ m.ok => /\ AllSaid(m, fs, i)
               /\ m.type = IF i = 0 THEN "bind" ELSE type
               /\ m.roAuto = (\A k \in 1 .. i : fs[k].key # "readonly")
               /\ m.owners = OwnersSaid(fs, i)
Taken(m, f) == IF ~m.ok THEN m ELSE IF Fits(f, m.type) THEN Noted(m, f) ELSE Refuse(m)

LEMMA DescribedFirst == \A fs, type : Described(NewMount, fs, 0, type)
<1> SUFFICES ASSUME NEW fs, NEW type PROVE Described(NewMount, fs, 0, type)
  OBVIOUS
<1>1. AllFit(fs, 0, type) = TRUE BY DEF AllFit
<1>2. NewMount.ok = TRUE /\ NewMount.type = "bind" /\ NewMount.roAuto = TRUE /\ NewMount.owners = {} BY DEF NewMount
<1>3. AllSaid(NewMount, fs, 0) BY DEF AllSaid, SaysOf
<1>4. OwnersSaid(fs, 0) = {} BY DEF OwnersSaid
<1>5. \A k \in 1 .. 0 : fs[k].key # "readonly" OBVIOUS
<1> QED BY <1>1, <1>2, <1>3, <1>4, <1>5 DEF Described

LEMMA DescribedNext ==
    ASSUME NEW V, NEW n \in Nat, NEW j \in 1 .. n, NEW fs, InOrder(fs, n), fs[j].key \in Canonical,
           NEW m \in MountsOf(V), Described(m, fs, j - 1, TypeSaid(fs, n))
    PROVE  Described(Taken(m, fs[j]), fs, j, TypeSaid(fs, n))
<1> DEFINE i == j - 1
           f == fs[j]
           key == f.key
           T == TypeSaid(fs, n)
           p == Taken(m, f)
<1>1. \A k : k \in 1 .. j <=> k \in 1 .. i \/ k = j OBVIOUS
<1>2. j \in 1 .. n /\ j # 0 /\ i \in 0 .. n /\ (i = 0 <=> j = 1) OBVIOUS
<1>3. \A k \in 1 .. i : fs[k].key # key BY DEF InOrder
<1>4. Described(m, fs, i, T) OBVIOUS
<1>5. key = "type" => j = 1 /\ T = OneOf(f.value, MountTypes) BY DEF InOrder, TypeSaid
<1>6. key # "type" /\ j = 1 => T = "bind" BY DEF TypeSaid
<1>7. AllFit(fs, j, T) <=> AllFit(fs, i, T) /\ Fits(f, T) BY <1>1 DEF AllFit
<1>8. AllFit(fs, j, T) \in BOOLEAN /\ AllFit(fs, i, T) \in BOOLEAN BY DEF AllFit
<1> HIDE DEF i, f, key, T
<1>9. CASE ~m.ok
  <2>1. p = m BY <1>9 DEF Taken
  <2>2. m.ok = FALSE /\ ~AllFit(fs, i, T) BY <1>4, <1>9 DEF Described, MountsOf
  <2>3. m.ok = AllFit(fs, j, T) BY <1>7, <1>8, <2>2
  <2> HIDE DEF p
  <2>4. Described(p, fs, j, T) BY <1>9, <2>1, <2>3 DEF Described
  <2> QED BY <2>4 DEF p, T, f
<1>10. CASE m.ok
  <2>1. m.ok = TRUE /\ AllFit(fs, i, T) BY <1>4, <1>10 DEF Described, MountsOf
  <2>2. /\ AllSaid(m, fs, i) /\ m.type = (IF i = 0 THEN "bind" ELSE T) /\ m.owners = OwnersSaid(fs, i)
        /\ m.roAuto = (\A k \in 1 .. i : fs[k].key # "readonly")
    BY <1>4, <1>10 DEF Described
  <2>3. Fits(f, m.type) <=> Fits(f, T)
    <3>1. CASE i # 0 BY <2>2, <3>1
    <3>2. CASE i = 0 /\ key = "type" BY <3>2 DEF Fits, key
    <3>3. CASE i = 0 /\ key # "type"
      <4>1. m.type = T BY <1>2, <1>6, <2>2, <3>3
      <4> QED BY <4>1
    <3> QED BY <3>1, <3>2, <3>3
  <2>4. CASE ~Fits(f, T)
    <3>1. p = Refuse(m) BY <1>10, <2>3, <2>4 DEF Taken
    <3>2. Refuse(m).ok = FALSE BY DEF Refuse, MountsOf
    <3>3. AllFit(fs, j, T) = FALSE BY <1>7, <1>8, <2>4
    <3> HIDE DEF p
    <3>4. Described(p, fs, j, T) BY <3>1, <3>2, <3>3 DEF Described
    <3> QED BY <3>4 DEF p, T, f
  <2>5. CASE Fits(f, T)
    <3>1. p = Noted(m, f) BY <1>10, <2>3, <2>5 DEF Taken
    <3>2. key \in Canonical \ {"none"} BY <2>5 DEF Fits, key, f
    <3>3. IsNoted(p, m, f) BY <3>1, <3>2, NotedIs DEF key
    <3> HIDE DEF p
    <3>4. p.ok = AllFit(fs, j, T) BY <1>7, <1>8, <2>1, <2>5, <3>3 DEF IsNoted
    <3>5. AllSaid(p, fs, j)
      <4> SUFFICES ASSUME NEW w \in Single PROVE SaysOf(fs, j, w, p[w])
        BY DEF AllSaid
      <4>1. p[w] = IF w = key THEN Meaning(f) ELSE m[w] BY <3>3 DEF IsNoted, key
      <4>2. SaysOf(fs, i, w, m[w]) BY <2>2 DEF AllSaid
      <4>3. CASE w = key
        <5>1. p[w] = Meaning(f) BY <4>1, <4>3
        <5>2. fs[j].key = w /\ f = fs[j] BY <4>3 DEF key, f
        <5>3. \A k \in 1 .. j : fs[k].key = w => k = j BY <1>1, <1>3, <4>3
        <5>4. j \in 1 .. j OBVIOUS
        <5> QED BY <5>1, <5>2, <5>3, <5>4 DEF SaysOf
      <4>4. CASE w # key
        <5>1. p[w] = m[w] /\ fs[j].key # w BY <4>1, <4>4 DEF key, f
        <5> QED BY <1>1, <4>2, <5>1 DEF SaysOf
      <4> QED BY <4>3, <4>4
    <3>6. p.type = T
      <4>1. CASE key = "type" BY <1>5, <3>3, <4>1 DEF IsNoted, key
      <4>2. CASE key # "type"
        <5>1. p.type = m.type BY <3>3, <4>2 DEF IsNoted, key
        <5> QED BY <1>2, <1>6, <2>2, <4>2, <5>1
      <4> QED BY <4>1, <4>2
    <3>7. p.roAuto = (\A k \in 1 .. j : fs[k].key # "readonly")
      <4>1. fs[j].key = key BY DEF key, f
      <4>2. CASE key = "readonly"
        <5>1. p.roAuto = FALSE BY <3>3, <4>2 DEF IsNoted, key
        <5>2. ~(\A k \in 1 .. j : fs[k].key # "readonly") BY <1>1, <4>1, <4>2
        <5> QED BY <5>1, <5>2
      <4>3. CASE key # "readonly"
        <5>1. p.roAuto = m.roAuto BY <3>3, <4>3 DEF IsNoted, key
        <5>2. (\A k \in 1 .. j : fs[k].key # "readonly") <=> (\A k \in 1 .. i : fs[k].key # "readonly")
          BY <1>1, <4>1, <4>3
        <5> QED BY <2>2, <5>1, <5>2
      <4> QED BY <4>2, <4>3
    <3>8. p.owners = OwnersSaid(fs, j)
      <4>1. fs[j].key = key BY DEF key, f
      <4>2. p.owners = IF key \in Owners THEN OwnersSaid(fs, i) \cup {key} ELSE OwnersSaid(fs, i)
        BY <2>2, <3>3 DEF IsNoted, key
      <4>3. \A w \in Owners : (\E k \in 1 .. j : fs[k].key = w) <=> (\E k \in 1 .. i : fs[k].key = w) \/ w = key
        BY <1>1, <4>1
      <4> QED BY <4>2, <4>3 DEF OwnersSaid
    <3>9. Described(p, fs, j, T) BY <1>2, <3>4, <3>5, <3>6, <3>7, <3>8 DEF Described
    <3> QED BY <3>9 DEF p, T, f
  <2> QED BY <2>4, <2>5
<1> QED BY <1>9, <1>10

(* What a set of fields says: the parts of MeantMount.                     *)
GivenIn(S, key) == \E f \in S : f.key = key
FieldIn(S, key) == CHOOSE f \in S : f.key = key
TextIn(S, key) == IF GivenIn(S, key) THEN FieldIn(S, key).value ELSE <<>>
TypeIn(S) == IF GivenIn(S, "type") THEN OneOf(TextIn(S, "type"), MountTypes) ELSE "bind"
SaidIn(S, key) == FieldIn(S, key).alone \/ IsTrue(FieldIn(S, key).value)
OnlyIn(S, key, types) == GivenIn(S, key) => TypeIn(S) \in types
FitIn(S) ==
    /\ \A f \in S : f.key # "none" /\ (f.alone => f.key \in {"readonly", "required"})
    /\ \A f \in S : f.key \in {"readonly", "required"} => f.alone \/ IsBool(f.value)
    /\ \A f \in S : f.key \in {"size", "mode", "uid", "gid"} => IsNumber(f.value)
    /\ TypeIn(S) # "none"
    /\ GivenIn(S, "sharing") => OneOf(TextIn(S, "sharing"), SharingTypes) # "none"
    /\ OnlyIn(S, "size", {"tmpfs"}) /\ OnlyIn(S, "required", {"secret", "ssh"})
SoundIn(S) ==
    /\ OnlyIn(S, "sharing", {"cache"})
    /\ \A key \in Owners : OnlyIn(S, key, {"cache", "secret", "ssh"})
    /\ TypeIn(S) = "secret" => /\ TextIn(S, "from") = <<>>
                               /\ <<TextIn(S, "source"), TextIn(S, "target"), TextIn(S, "id")>> # <<<<>>, <<>>, <<>>>>
                               /\ <<>> \in {TextIn(S, "source"), TextIn(S, "id")}
MeantFields == {"ok", "type", "from", "source", "target", "readonly", "required", "size", "id", "sharing", "owners"}

LEMMA MeantIs ==
    ASSUME NEW S
    PROVE  LET m == MeantMount(S)
           IN  /\ DOMAIN m = MeantFields /\ m.ok = (FitIn(S) /\ SoundIn(S)) /\ m.type = TypeIn(S)
               /\ m.from = TextIn(S, "from") /\ m.source = TextIn(S, "source") /\ m.target = TextIn(S, "target")
               /\ m.size = TextIn(S, "size") /\ m.id = TextIn(S, "id")
               /\ m.readonly = IF GivenIn(S, "readonly") THEN SaidIn(S, "readonly") # FieldIn(S, "readonly").negated
                               ELSE TypeIn(S) \notin {"cache", "tmpfs"}
               /\ m.required = (GivenIn(S, "required") /\ SaidIn(S, "required"))
               /\ m.sharing = IF GivenIn(S, "sharing") THEN OneOf(TextIn(S, "sharing"), SharingTypes) ELSE "none"
               /\ m.owners = {key \in Owners : GivenIn(S, key)}
<1> DEFINE m == MeantMount(S)
<1>1. DOMAIN m = MeantFields BY DEF MeantMount, MeantFields
<1>2. m.ok = (FitIn(S) /\ SoundIn(S))
  BY DEF MeantMount, FitIn, SoundIn, OnlyIn, TypeIn, TextIn, FieldIn, GivenIn, Owners
<1>3. m.type = TypeIn(S) BY DEF MeantMount, TypeIn, TextIn, FieldIn, GivenIn
<1>4. /\ m.from = TextIn(S, "from") /\ m.source = TextIn(S, "source") /\ m.target = TextIn(S, "target")
      /\ m.size = TextIn(S, "size") /\ m.id = TextIn(S, "id")
  BY DEF MeantMount, TextIn, FieldIn, GivenIn
<1>5. m.readonly = IF GivenIn(S, "readonly") THEN SaidIn(S, "readonly") # FieldIn(S, "readonly").negated
                   ELSE TypeIn(S) \notin {"cache", "tmpfs"}
  BY DEF MeantMount, SaidIn, TypeIn, TextIn, FieldIn, GivenIn
<1>6. m.required = (GivenIn(S, "required") /\ SaidIn(S, "required")) BY DEF MeantMount, SaidIn, FieldIn, GivenIn
<1>7. m.sharing = IF GivenIn(S, "sharing") THEN OneOf(TextIn(S, "sharing"), SharingTypes) ELSE "none"
  BY DEF MeantMount, TextIn, FieldIn, GivenIn
<1>8. m.owners = {key \in Owners : GivenIn(S, key)} BY DEF MeantMount, Owners, GivenIn
<1> HIDE DEF m
<1> QED BY <1>1, <1>2, <1>3, <1>4, <1>5, <1>6, <1>7, <1>8 DEF m

LEMMA GivenFacts ==
    ASSUME NEW n \in Nat, NEW fs, InOrder(fs, n), NEW S, S = {fs[k] : k \in 1 .. n}
    PROVE  /\ \A key : GivenIn(S, key) <=> \E k \in 1 .. n : fs[k].key = key
           /\ \A k \in 1 .. n : FieldIn(S, fs[k].key) = fs[k]
           /\ TypeIn(S) = TypeSaid(fs, n)
<1>1. \A key : GivenIn(S, key) <=> \E k \in 1 .. n : fs[k].key = key BY DEF GivenIn
<1>2. ASSUME NEW k \in 1 .. n PROVE FieldIn(S, fs[k].key) = fs[k]
  <2> DEFINE key == fs[k].key
  <2>1. \E f \in S : f.key = key OBVIOUS
  <2>2. FieldIn(S, key) \in S /\ FieldIn(S, key).key = key
    <3> HIDE DEF key
    <3> QED BY <2>1 DEF FieldIn
  <2>3. PICK l \in 1 .. n : FieldIn(S, key) = fs[l] BY <2>2
  <2>4. fs[l].key = fs[k].key BY <2>2, <2>3
  <2> QED BY <2>3, <2>4 DEF InOrder
<1>3. TypeIn(S) = TypeSaid(fs, n)
  <2>1. CASE GivenIn(S, "type")
    <3>1. PICK k \in 1 .. n : fs[k].key = "type" BY <1>1, <2>1
    <3>2. k = 1 /\ 1 <= n BY <3>1 DEF InOrder
    <3>3. FieldIn(S, "type") = fs[1] BY <1>2, <3>1, <3>2
    <3> QED BY <2>1, <3>1, <3>2, <3>3 DEF TypeIn, TextIn, TypeSaid
  <2>2. CASE ~GivenIn(S, "type")
    <3>1. ~(1 <= n /\ fs[1].key = "type") BY <1>1, <2>2
    <3> QED BY <2>2, <3>1 DEF TypeIn, TypeSaid
  <2> QED BY <2>1, <2>2
<1> QED BY <1>1, <1>2, <1>3

LEMMA FitsIn ==
    ASSUME NEW n \in Nat, NEW fs, InOrder(fs, n), NEW S, S = {fs[k] : k \in 1 .. n}
    PROVE  AllFit(fs, n, TypeSaid(fs, n)) <=> FitIn(S)
<1> DEFINE T == TypeSaid(fs, n)
<1>1. \A key : GivenIn(S, key) <=> \E k \in 1 .. n : fs[k].key = key BY DEF GivenIn
<1>2. \A k \in 1 .. n : FieldIn(S, fs[k].key) = fs[k] BY GivenFacts
<1>3. TypeIn(S) = T BY GivenFacts
<1>4. \A k \in 1 .. n : fs[k] \in S OBVIOUS
<1>5. \A k \in 1 .. n : GivenIn(S, fs[k].key) /\ TextIn(S, fs[k].key) = fs[k].value BY <1>1, <1>2 DEF TextIn
<1>6. \A k \in 1 .. n : fs[k].key = "type" => T = OneOf(fs[k].value, MountTypes) BY DEF InOrder, TypeSaid
<1>7. T = "bind" \/ \E k \in 1 .. n : fs[k].key = "type" BY DEF TypeSaid
<1> HIDE DEF T
<1>8. ASSUME AllFit(fs, n, T) PROVE FitIn(S)
  <2>1. \A k \in 1 .. n : Fits(fs[k], T) BY <1>8 DEF AllFit
  <2>2. \A f \in S : f.key # "none" /\ (f.alone => f.key \in {"readonly", "required"}) BY <2>1 DEF Fits
  <2>3. \A f \in S : f.key \in {"readonly", "required"} => f.alone \/ IsBool(f.value) BY <2>1 DEF Fits
  <2>4. \A f \in S : f.key \in {"size", "mode", "uid", "gid"} => IsNumber(f.value) BY <2>1 DEF Fits
  <2>5. T # "none" BY <1>6, <1>7, <2>1 DEF Fits
  <2>6. GivenIn(S, "sharing") => OneOf(TextIn(S, "sharing"), SharingTypes) # "none"
    <3> SUFFICES ASSUME GivenIn(S, "sharing") PROVE OneOf(TextIn(S, "sharing"), SharingTypes) # "none"
      OBVIOUS
    <3>1. PICK k \in 1 .. n : fs[k].key = "sharing" BY <1>1
    <3>2. TextIn(S, "sharing") = fs[k].value BY <1>5, <3>1
    <3> QED BY <2>1, <3>1, <3>2 DEF Fits
  <2>7. OnlyIn(S, "size", {"tmpfs"}) BY <1>1, <1>3, <2>1 DEF OnlyIn, Fits
  <2>8. OnlyIn(S, "required", {"secret", "ssh"}) BY <1>1, <1>3, <2>1 DEF OnlyIn, Fits
  <2> QED BY <1>3, <2>2, <2>3, <2>4, <2>5, <2>6, <2>7, <2>8 DEF FitIn
<1>9. ASSUME FitIn(S) PROVE AllFit(fs, n, T)
  <2> SUFFICES ASSUME NEW k \in 1 .. n PROVE Fits(fs[k], T)
    BY DEF AllFit
  <2> DEFINE f == fs[k]
  <2>1. f \in S /\ GivenIn(S, f.key) /\ TextIn(S, f.key) = f.value BY <1>4, <1>5
  <2>2. f.key = "type" => T = OneOf(f.value, MountTypes) BY <1>6
  <2> HIDE DEF f
  <2>3. f.key # "none" /\ (f.alone => f.key \in {"readonly", "required"}) BY <1>9, <2>1 DEF FitIn
  <2>4. f.key \in {"readonly", "required"} => f.alone \/ IsBool(f.value) BY <1>9, <2>1 DEF FitIn
  <2>5. f.key \in {"size", "mode", "uid", "gid"} => IsNumber(f.value) BY <1>9, <2>1 DEF FitIn
  <2>6. f.key = "type" => OneOf(f.value, MountTypes) # "none" BY <1>3, <1>9, <2>2 DEF FitIn
  <2>7. f.key = "sharing" => OneOf(f.value, SharingTypes) # "none" BY <1>9, <2>1 DEF FitIn
  <2>8. f.key = "size" => T = "tmpfs" BY <1>3, <1>9, <2>1 DEF FitIn, OnlyIn
  <2>9. f.key = "required" => T \in {"secret", "ssh"} BY <1>3, <1>9, <2>1 DEF FitIn, OnlyIn
  <2>10. Fits(f, T) BY <2>3, <2>4, <2>5, <2>6, <2>7, <2>8, <2>9 DEF Fits
  <2> QED BY <2>10 DEF f
<1> QED BY <1>8, <1>9 DEF T

LEMMA SaidByKey ==
    ASSUME NEW n \in Nat, NEW fs, InOrder(fs, n), NEW S, S = {fs[k] : k \in 1 .. n}, NEW m, AllSaid(m, fs, n),
           NEW key \in Single
    PROVE  IF GivenIn(S, key) THEN FieldIn(S, key).key = key /\ m[key] = Meaning(FieldIn(S, key)) ELSE m[key] = NewMount[key]
<1>1. GivenIn(S, key) <=> \E k \in 1 .. n : fs[k].key = key BY DEF GivenIn
<1>2. \A k \in 1 .. n : FieldIn(S, fs[k].key) = fs[k] BY GivenFacts
<1>3. SaysOf(fs, n, key, m[key]) BY DEF AllSaid
<1>4. CASE GivenIn(S, key)
  <2>1. PICK k \in 1 .. n : fs[k].key = key BY <1>1, <1>4
  <2>2. FieldIn(S, key) = fs[k] BY <1>2, <2>1
  <2> QED BY <1>3, <1>4, <2>1, <2>2 DEF SaysOf
<1>5. CASE ~GivenIn(S, key) BY <1>1, <1>3, <1>5 DEF SaysOf
<1> QED BY <1>4, <1>5

\* the mount the fields leave, by what they say
HasSaid(m, S) ==
    /\ m.from = TextIn(S, "from") /\ m.source = TextIn(S, "source") /\ m.target = TextIn(S, "target")
    /\ m.size = TextIn(S, "size") /\ m.id = TextIn(S, "id")
    /\ m.roAuto = ~GivenIn(S, "readonly")
    /\ GivenIn(S, "readonly") => m.readonly = (SaidIn(S, "readonly") # FieldIn(S, "readonly").negated)
    /\ m.required = (GivenIn(S, "required") /\ SaidIn(S, "required"))
    /\ m.sharing = IF GivenIn(S, "sharing") THEN OneOf(TextIn(S, "sharing"), SharingTypes) ELSE "none"
    /\ m.owners = {key \in Owners : GivenIn(S, key)}

LEMMA SaidIs ==
    ASSUME NEW n \in Nat, NEW fs, InOrder(fs, n), NEW S, S = {fs[k] : k \in 1 .. n},
           NEW V, NEW m \in MountsOf(V), AllSaid(m, fs, n), m.owners = OwnersSaid(fs, n),
           m.roAuto = (\A k \in 1 .. n : fs[k].key # "readonly")
    PROVE  HasSaid(m, S)
<1>1. \A key : GivenIn(S, key) <=> \E k \in 1 .. n : fs[k].key = key BY DEF GivenIn
<1>2. /\ NewMount["from"] = <<>> /\ NewMount["source"] = <<>> /\ NewMount["target"] = <<>> /\ NewMount["size"] = <<>>
      /\ NewMount["id"] = <<>> /\ NewMount["required"] = FALSE /\ NewMount["sharing"] = "none"
  BY DEF NewMount
<1> DEFINE Said(key) == IF GivenIn(S, key) THEN FieldIn(S, key).key = key /\ m[key] = Meaning(FieldIn(S, key))
                        ELSE m[key] = NewMount[key]
<1>3. \A key \in Single : Said(key) BY SaidByKey
<1>4. ASSUME NEW key \in {"from", "source", "target", "size", "id"} PROVE m[key] = TextIn(S, key)
  <2>1. Said(key) BY <1>3 DEF Single
  <2>2. GivenIn(S, key) => Meaning(FieldIn(S, key)) = FieldIn(S, key).value BY <2>1 DEF Meaning
  <2> QED BY <1>2, <2>1, <2>2 DEF TextIn
<1>5. GivenIn(S, "readonly") => m.readonly = (SaidIn(S, "readonly") # FieldIn(S, "readonly").negated)
  <2>1. Said("readonly") BY <1>3 DEF Single
  <2>2. GivenIn(S, "readonly") =>
          Meaning(FieldIn(S, "readonly")) = (SaidIn(S, "readonly") # FieldIn(S, "readonly").negated)
    BY <2>1 DEF Meaning, SaidIn
  <2> QED BY <2>1, <2>2
<1>6. m.required = (GivenIn(S, "required") /\ SaidIn(S, "required"))
  <2>1. Said("required") BY <1>3 DEF Single
  <2>2. CASE GivenIn(S, "required")
    <3>1. Meaning(FieldIn(S, "required")) = SaidIn(S, "required") BY <2>1, <2>2 DEF Meaning, SaidIn
    <3>2. m.required = SaidIn(S, "required") BY <2>1, <2>2, <3>1
    <3>3. SaidIn(S, "required") \in BOOLEAN BY DEF SaidIn
    <3> QED BY <2>2, <3>2, <3>3
  <2>3. CASE ~GivenIn(S, "required")
    <3>1. m.required = FALSE BY <1>2, <2>1, <2>3
    <3> QED BY <2>3, <3>1
  <2> QED BY <2>2, <2>3
<1>7. m.sharing = IF GivenIn(S, "sharing") THEN OneOf(TextIn(S, "sharing"), SharingTypes) ELSE "none"
  <2>1. Said("sharing") BY <1>3 DEF Single
  <2>2. GivenIn(S, "sharing") => Meaning(FieldIn(S, "sharing")) = OneOf(TextIn(S, "sharing"), SharingTypes)
    BY <2>1 DEF Meaning, TextIn
  <2> QED BY <1>2, <2>1, <2>2
<1>8. m.roAuto = ~GivenIn(S, "readonly")
  <2>1. (\A k \in 1 .. n : fs[k].key # "readonly") <=> ~GivenIn(S, "readonly") BY <1>1
  <2>2. GivenIn(S, "readonly") \in BOOLEAN BY DEF GivenIn
  <2> QED BY <2>1, <2>2
<1>9. m.owners = {key \in Owners : GivenIn(S, key)} BY <1>1 DEF OwnersSaid
<1>10. /\ m.from = TextIn(S, "from") /\ m.source = TextIn(S, "source") /\ m.target = TextIn(S, "target")
       /\ m.size = TextIn(S, "size") /\ m.id = TextIn(S, "id")
  BY <1>4
<1> QED BY <1>5, <1>6, <1>7, <1>8, <1>9, <1>10 DEF HasSaid

Unsound(m) ==
    \/ m.owners # {} /\ m.type \notin {"secret", "ssh", "cache"}
    \/ m.sharing # "none" /\ m.type # "cache"
    \/ /\ m.type = "secret"
       /\ \/ m.from # <<>>
          \/ m.source = <<>> /\ m.target = <<>> /\ m.id = <<>>
          \/ m.source # <<>> /\ m.id # <<>>

LEMMA FinishIs ==
    ASSUME NEW V, NEW m \in MountsOf(V)
    PROVE  LET r == Finish(m)
           IN  /\ r.ok = (m.ok /\ ~Unsound(m))
               /\ r.readonly = IF m.roAuto THEN m.type \notin {"cache", "tmpfs"} ELSE m.readonly
               /\ r.type = m.type /\ r.from = m.from /\ r.source = m.source /\ r.target = m.target /\ r.size = m.size
               /\ r.id = m.id /\ r.required = m.required /\ r.sharing = m.sharing /\ r.owners = m.owners
<1> DEFINE ro == m.type \notin {"cache", "tmpfs"}
           auto == IF m.roAuto THEN [m EXCEPT !.readonly = ro] ELSE m
           Same(r) == /\ r.type = m.type /\ r.from = m.from /\ r.source = m.source /\ r.target = m.target
                      /\ r.size = m.size /\ r.id = m.id /\ r.required = m.required /\ r.sharing = m.sharing
                      /\ r.owners = m.owners /\ r.readonly = (IF m.roAuto THEN ro ELSE m.readonly)
<1>1. auto \in MountsOf(V) /\ auto.ok = m.ok /\ Same(auto) BY DEF MountsOf
<1>2. Finish(m) = IF Unsound(m) THEN Refuse(auto) ELSE auto BY DEF Finish, Unsound, MountsOf
<1> DEFINE r == Finish(m)
           refused == Refuse(auto)
<1> HIDE DEF auto, ro
<1>3. refused.ok = FALSE /\ Same(refused) BY <1>1 DEF Refuse, MountsOf
<1>4. r = IF Unsound(m) THEN refused ELSE auto BY <1>2
<1>5. m.ok \in BOOLEAN BY DEF MountsOf
<1> HIDE DEF r, refused
<1>6. r.ok = (m.ok /\ ~Unsound(m))
  <2>1. CASE Unsound(m) BY <1>3, <1>4, <2>1
  <2>2. CASE ~Unsound(m) BY <1>1, <1>4, <1>5, <2>2
  <2> QED BY <2>1, <2>2
<1>7. Same(r) BY <1>1, <1>3, <1>4
<1> QED BY <1>6, <1>7 DEF r, ro

LEMMA PassTaken ==
    ASSUME NEW V, NEW m \in MountsOf(V), NEW escape \in {Backslash, Backtick}, NEW e, NEW field \in Seq(Bare)
    PROVE  SecondPass(NewLex(escape), e, m, field) = Taken(m, FieldOf(field))
<1> DEFINE p == SecondPass(NewLex(escape), e, m, field)
           f == FieldOf(field)
<1>1. CASE ~m.ok BY <1>1 DEF SecondPass, Taken
<1>2. CASE m.ok
  <2>1. p = IF HasEq(field) THEN KeyValue(m, NameOf(field), Value(field)) ELSE KeyOnly(m, NameOf(field)) BY <1>2, BareField
  <2>2. p = IF Fits(f, m.type) THEN Noted(m, f) ELSE Refuse(m)
    <3>1. CASE HasEq(field)
      <4>1. KeyValue(m, NameOf(field), Value(field)) = IF Fits(f, m.type) THEN Noted(m, f) ELSE Refuse(m)
        BY <3>1, FieldValue
      <4> HIDE DEF p, f
      <4> QED BY <2>1, <3>1, <4>1
    <3>2. CASE ~HasEq(field)
      <4>1. KeyOnly(m, NameOf(field)) = IF Fits(f, m.type) THEN Noted(m, f) ELSE Refuse(m) BY <3>2, FieldAlone
      <4> HIDE DEF p, f
      <4> QED BY <2>1, <3>2, <4>1
    <3> QED BY <3>1, <3>2
  <2> HIDE DEF p, f
  <2> QED BY <1>2, <2>2 DEF Taken, p, f
<1> QED BY <1>1, <1>2

\* a mount that is described, at its end
MeansTheSame(read, meant) == read.ok = meant.ok /\ (read.ok => \A f \in DOMAIN meant : read[f] = meant[f])

LEMMA DescribedLast ==
    ASSUME NEW n \in Nat, NEW fs, InOrder(fs, n), NEW S, S = {fs[k] : k \in 1 .. n},
           NEW V, NEW m \in MountsOf(V), Described(m, fs, n, TypeSaid(fs, n))
    PROVE  MeansTheSame(Finish(m), MeantMount(S))
<1> DEFINE T == TypeSaid(fs, n)
           r == Finish(m)
           w == MeantMount(S)
<1>1. TypeIn(S) = T BY GivenFacts
<1>2. AllFit(fs, n, T) <=> FitIn(S) BY FitsIn
<1>3. r.ok = (m.ok /\ ~Unsound(m)) BY FinishIs
<1>4. w.ok = (FitIn(S) /\ SoundIn(S)) BY MeantIs
<1>5. FitIn(S) \in BOOLEAN /\ SoundIn(S) \in BOOLEAN /\ Unsound(m) \in BOOLEAN /\ AllFit(fs, n, T) \in BOOLEAN
  BY DEF FitIn, SoundIn, Unsound, AllFit
<1>6. m.ok = AllFit(fs, n, T) BY DEF Described
<1>7. CASE ~m.ok
  <2> HIDE DEF r, w, T
  <2>1. r.ok = FALSE /\ w.ok = FALSE BY <1>2, <1>3, <1>4, <1>5, <1>6, <1>7
  <2>2. MeansTheSame(r, w) BY <2>1 DEF MeansTheSame
  <2> QED BY <2>2 DEF r, w
<1>8. CASE m.ok
  <2>1. FitIn(S) BY <1>2, <1>6, <1>8
  <2>2. /\ AllSaid(m, fs, n) /\ m.roAuto = (\A k \in 1 .. n : fs[k].key # "readonly") /\ m.owners = OwnersSaid(fs, n)
        /\ m.type = IF n = 0 THEN "bind" ELSE T
    BY <1>8 DEF Described
  <2>3. m.type = T BY <2>2 DEF TypeSaid
  <2>4. /\ m.from = TextIn(S, "from") /\ m.source = TextIn(S, "source") /\ m.target = TextIn(S, "target")
        /\ m.size = TextIn(S, "size") /\ m.id = TextIn(S, "id")
        /\ m.roAuto = ~GivenIn(S, "readonly")
        /\ GivenIn(S, "readonly") => m.readonly = (SaidIn(S, "readonly") # FieldIn(S, "readonly").negated)
        /\ m.required = (GivenIn(S, "required") /\ SaidIn(S, "required"))
        /\ m.sharing = IF GivenIn(S, "sharing") THEN OneOf(TextIn(S, "sharing"), SharingTypes) ELSE "none"
        /\ m.owners = {key \in Owners : GivenIn(S, key)}
    <3>1. HasSaid(m, S)
      <4> HIDE DEF T, r, w
      <4> QED BY <2>2, SaidIs
    <3> QED BY <3>1 DEF HasSaid
  <2>5. Unsound(m) <=> ~SoundIn(S)
    <3>1. m.owners # {} <=> \E key \in Owners : GivenIn(S, key) BY <2>4
    <3>2. m.sharing # "none" <=> GivenIn(S, "sharing") BY <2>1, <2>4 DEF FitIn
    <3>3. m.type = TypeIn(S) BY <1>1, <2>3
    <3>4. (m.owners # {} /\ m.type \notin {"secret", "ssh", "cache"})
            <=> ~(\A key \in Owners : OnlyIn(S, key, {"cache", "secret", "ssh"}))
      BY <3>1, <3>3 DEF OnlyIn
    <3>5. (m.sharing # "none" /\ m.type # "cache") <=> ~OnlyIn(S, "sharing", {"cache"}) BY <3>2, <3>3 DEF OnlyIn
    <3> DEFINE src == TextIn(S, "source")
               dst == TextIn(S, "target")
               id == TextIn(S, "id")
    <3>6. m.source = src /\ m.target = dst /\ m.id = id /\ m.from = TextIn(S, "from") BY <2>4
    <3>7. (<<src, dst, id>> # <<<<>>, <<>>, <<>>>> <=> ~(src = <<>> /\ dst = <<>> /\ id = <<>>)) BY SMT
    <3> HIDE DEF src, dst, id
    <3>8. (m.type = "secret" /\ (\/ m.from # <<>>
                                 \/ m.source = <<>> /\ m.target = <<>> /\ m.id = <<>>
                                 \/ m.source # <<>> /\ m.id # <<>>))
            <=> ~(TypeIn(S) = "secret" => /\ TextIn(S, "from") = <<>>
                                          /\ <<src, dst, id>> # <<<<>>, <<>>, <<>>>> /\ <<>> \in {src, id})
      BY <3>3, <3>6, <3>7
    <3> QED BY <3>4, <3>5, <3>8 DEF Unsound, SoundIn, src, dst, id
  <2>6. r.ok = w.ok BY <1>3, <1>4, <1>5, <1>8, <2>1, <2>5
  <2>7. /\ DOMAIN w = MeantFields /\ w.type = TypeIn(S)
        /\ w.from = TextIn(S, "from") /\ w.source = TextIn(S, "source") /\ w.target = TextIn(S, "target")
        /\ w.size = TextIn(S, "size") /\ w.id = TextIn(S, "id")
        /\ w.readonly = (IF GivenIn(S, "readonly") THEN SaidIn(S, "readonly") # FieldIn(S, "readonly").negated
                         ELSE TypeIn(S) \notin {"cache", "tmpfs"})
        /\ w.required = (GivenIn(S, "required") /\ SaidIn(S, "required"))
        /\ w.sharing = IF GivenIn(S, "sharing") THEN OneOf(TextIn(S, "sharing"), SharingTypes) ELSE "none"
        /\ w.owners = {key \in Owners : GivenIn(S, key)}
    BY MeantIs
  <2>8. /\ r.readonly = (IF m.roAuto THEN m.type \notin {"cache", "tmpfs"} ELSE m.readonly)
        /\ r.type = m.type /\ r.from = m.from /\ r.source = m.source /\ r.target = m.target /\ r.size = m.size
        /\ r.id = m.id /\ r.required = m.required /\ r.sharing = m.sharing /\ r.owners = m.owners
    BY FinishIs
  <2> HIDE DEF r, w, T
  <2>9. r.readonly = w.readonly
    <3>1. CASE GivenIn(S, "readonly")
      <4>1. m.roAuto = FALSE BY <2>4, <3>1
      <4> QED BY <2>4, <2>7, <2>8, <3>1, <4>1
    <3>2. CASE ~GivenIn(S, "readonly")
      <4>1. m.roAuto = TRUE /\ m.type = TypeIn(S) BY <1>1, <2>3, <2>4, <3>2
      <4> QED BY <2>7, <2>8, <3>2, <4>1
    <3> QED BY <3>1, <3>2
  <2>10. r.type = w.type /\ r.required = w.required /\ r.sharing = w.sharing /\ r.owners = w.owners
    BY <1>1, <2>3, <2>4, <2>7, <2>8
  <2>11. r.from = w.from /\ r.source = w.source /\ r.target = w.target /\ r.size = w.size /\ r.id = w.id
    BY <2>4, <2>7, <2>8
  <2>12. \A f \in MeantFields : r[f] = w[f] BY <2>6, <2>9, <2>10, <2>11 DEF MeantFields
  <2>13. MeansTheSame(r, w) BY <2>6, <2>7, <2>12 DEF MeansTheSame
  <2> QED BY <2>13 DEF r, w
<1> QED BY <1>7, <1>8

LEMMA BareFields ==
    ASSUME NEW value \in Texts, Unquoted(value)
    PROVE  ReadCSV(value).fields \in Seq(Seq(Bare))
<1>1. \A i \in 1 .. Len(value) : value[i] \in Bare
  <2> SUFFICES ASSUME NEW i \in 1 .. Len(value) PROVE value[i] \in Bare
    OBVIOUS
  <2>1. value[i] \in Chars /\ value[i] \in ToSet(value) BY DEF Texts, ToSet
  <2> QED BY <2>1 DEF Bare, Unquoted
<1>2. value \in Seq(Bare)
  <2>1. Len(value) \in Nat /\ value = [i \in 1 .. Len(value) |-> value[i]] BY DEF Texts
  <2> DEFINE v == [i \in 1 .. Len(value) |-> value[i]]
  <2>2. v \in Seq(Bare) BY <1>1, <2>1
  <2> HIDE DEF v
  <2> QED BY <2>1, <2>2 DEF v
<1> QED BY <1>2, CSVTyped

LEMMA MountMeant ==
    ASSUME NEW value \in Texts, NEW escape \in {Backslash, Backtick}, NEW e, ReadCSV(value).ok, Unquoted(value),
           NEW n \in Nat, DOMAIN ReadCSV(value).fields = 1 .. n, NEW fs,
           \A i \in 1 .. n : fs[i] = FieldOf(ReadCSV(value).fields[i]), InOrder(fs, n),
           NEW S, S = {fs[k] : k \in 1 .. n}
    PROVE  MeansTheSame(ExpandMount(NewLex(escape), e, value), MeantMount(S))
<1> DEFINE lx == NewLex(escape)
           fields == ReadCSV(value).fields
           V == TextsOf(lx, e, fields)
           X == MountsOf(V)
           T == TypeSaid(fs, n)
<1>1. fields \in Seq(Seq(Bare)) BY BareFields
<1>2. \A i \in 1 .. n : fields[i] \in Seq(Bare) BY <1>1
<1>3. <<>> \in V BY DEF TextsOf
<1>4. \A i \in 1 .. n : Process(lx, e, Value(fields[i])).text \in V BY DEF TextsOf
<1> HIDE DEF lx, V
<1>5. fields = ReadCSV(value).fields /\ DOMAIN fields = 1 .. n OBVIOUS
<1>6. \A i \in 1 .. n : fs[i] = FieldOf(fields[i]) OBVIOUS
<1> HIDE DEF fields
<1>7. PICK h \in [0 .. n -> X] : ExpandsBy(h, lx, e, value, fields, n)
  BY <1>3, <1>4, <1>5, SecondPassRuns
<1>8. \A i \in 1 .. n : fs[i].key \in Canonical BY <1>6, CanonicalKey
<1> DEFINE D == {i \in 0 .. n : Described(h[i], fs, i, T)}
<1>9. 0 \in D BY <1>7, DescribedFirst DEF ExpandsBy
<1>10. ASSUME NEW i \in 1 .. n, i - 1 \in D PROVE i \in D
  <2>1. i \in 0 .. n /\ i - 1 \in 0 .. n OBVIOUS
  <2>2. h[i - 1] \in MountsOf(V) /\ fields[i] \in Seq(Bare) /\ fs[i].key \in Canonical BY <1>2, <1>7, <1>8, <2>1
  <2>3. Described(h[i - 1], fs, i - 1, TypeSaid(fs, n)) BY <1>10
  <2> DEFINE m == h[i - 1]
             p == h[i]
  <2>4. p = SecondPass(lx, e, m, fields[i]) BY <1>7 DEF ExpandsBy
  <2> HIDE DEF m, p
  <2>5. p = Taken(m, fs[i])
    <3>1. m \in MountsOf(V) BY <2>2 DEF m
    <3>2. SecondPass(lx, e, m, fields[i]) = Taken(m, FieldOf(fields[i])) BY <2>2, <3>1, PassTaken DEF lx
    <3> QED BY <1>6, <2>4, <3>2
  <2>6. Described(Taken(m, fs[i]), fs, i, TypeSaid(fs, n))
    <3>1. m \in MountsOf(V) /\ Described(m, fs, i - 1, TypeSaid(fs, n)) BY <2>2, <2>3 DEF m
    <3> QED BY <2>2, <3>1, DescribedNext
  <2> QED BY <2>1, <2>5, <2>6 DEF p
<1> HIDE DEF D
<1>11. 0 .. n \subseteq D BY <1>9, <1>10, SetInduction
<1> DEFINE last == h[n]
<1>12. n \in 0 .. n OBVIOUS
<1>13. last \in MountsOf(V) BY <1>7, <1>12
<1>14. Described(last, fs, n, TypeSaid(fs, n)) BY <1>11, <1>12 DEF D
<1>15. ExpandMount(lx, e, value) = Finish(last) BY <1>7 DEF ExpandsBy
<1> HIDE DEF last
<1>16. MeansTheSame(Finish(last), MeantMount(S)) BY <1>13, <1>14, DescribedLast
<1> QED BY <1>15, <1>16 DEF lx

LEMMA MountsRead == Shape => MountsMeant
<1> DEFINE KeysIn(value) == [k \in DOMAIN MountFields(value) |-> MountFields(value)[k].key]
           Ordered(value) == /\ IsInjective(KeysIn(value))
                             /\ \A k \in DOMAIN KeysIn(value) : KeysIn(value)[k] = "type" => k = 1
<1> SUFFICES ASSUME Shape, Dispatching, Command.name = "run",
                    NEW value \in ToSet(Command.flags[MountFlag]), ReadCSV(value).ok, Unquoted(value), Ordered(value)
             PROVE  MeansTheSame(ExpandMount(Lex, env, value), MeantMount(ToSet(MountFields(value))))
  BY DEF MountsMeant, MeansTheSame, MountFlag
<1>1. value \in Texts
  <2> DEFINE s == stages[Len(log)]
             ins == Command
  <2>1. /\ s \in {stages[i] : i \in 1 .. Len(stages)} /\ next \in 1 .. Len(s.commands)
    <3>1. log # <<>> /\ Sequence(log) /\ Len(log) <= Len(stages) BY DEF Dispatching, Shape, LogMade
    <3>2. Len(log) \in 1 .. Len(stages)
      <4>1. Sequence(stages) BY DEF Shape, StagesMade
      <4>2. Len(log) \in Nat /\ Len(stages) \in Nat /\ Len(log) # 0
        BY <3>1, <4>1, SequenceFacts, SequenceEmpty
      <4> QED BY <3>1, <4>2
    <3>3. Sequence(s.commands) BY <3>2 DEF Shape, StagesMade, StageMade
    <3>4. Len(s.commands) \in Nat BY <3>3, SequenceFacts
    <3>5. next \in Nat \ {0} /\ next <= Len(s.commands) BY DEF Dispatching, Shape, Position
    <3> QED BY <3>2, <3>4, <3>5
  <2>2. StageMade(s, nodes) BY <2>1 DEF Shape, StagesMade
  <2> DEFINE at == s.lines[next]
  <2>3. at \in 1 .. Len(nodes) /\ ins.ok /\ ins = ParseInstruction(nodes[at]) BY <2>1, <2>2 DEF StageMade, Command
  <2>4. Node(nodes[at]) BY <2>3, MadeNode
  <2> DEFINE node == nodes[at]
  <2> HIDE DEF at
  <2>5. PICK values : MountsParsed(ParseInstruction(node), values)
    <3>1. Node(node) /\ ParseInstruction(node).ok /\ ParseInstruction(node).name = "run" BY <2>3, <2>4
    <3> HIDE DEF node
    <3> QED BY <3>1, MountsOfNode
  <2>6. Command.flags[MountFlag] = values /\ \A i \in DOMAIN values : values[i] \in Texts BY <2>3, <2>5 DEF MountsParsed
  <2>7. value \in ToSet(values) BY <2>6
  <2> QED BY <2>6, <2>7 DEF ToSet
<1>2. file.escape \in {Backslash, Backtick} BY DEF Shape, FileGiven
<1> DEFINE fields == ReadCSV(value).fields
           fs == MountFields(value)
           n == Len(fields)
<1>3. n \in Nat /\ DOMAIN fields = 1 .. n BY <1>1, BareFields
<1>4. DOMAIN fs = 1 .. n /\ \A i \in 1 .. n : fs[i] = FieldOf(fields[i]) BY <1>3, FieldsAre
<1>5. Ordered(value) OBVIOUS
<1> HIDE DEF n
<1>6. InOrder(fs, n)
  <2>1. DOMAIN KeysIn(value) = 1 .. n /\ \A k \in 1 .. n : KeysIn(value)[k] = fs[k].key BY <1>4
  <2> HIDE DEF KeysIn, fs
  <2> QED BY <1>5, <2>1 DEF InOrder, IsInjective
<1>7. ToSet(fs) = {fs[k] : k \in 1 .. n} BY <1>4 DEF ToSet
<1> DEFINE S == ToSet(fs)
<1> HIDE DEF fs, S
<1>8. S = {fs[k] : k \in 1 .. n} BY <1>7 DEF S
<1>9. MeansTheSame(ExpandMount(NewLex(file.escape), env, value), MeantMount(S))
  BY <1>1, <1>2, <1>3, <1>4, <1>6, <1>8, MountMeant
<1> QED BY <1>9 DEF S, fs, Lex

(* A mount that names its type first and no key twice is read, when its    *)
(* instruction is dispatched, as what its keys say together, whatever      *)
(* their order (parseMount): for every Dockerfile, build arguments and     *)
(* bases, and in the scope of every instruction.                           *)
THEOREM MountsAsMeant == Spec => []MountsMeant
<1>1. Spec => []Shape BY ShapeAlways
<1>2. Shape => MountsMeant BY MountsRead
<1> QED BY <1>1, <1>2, PTL

-----------------------------------------------------------------------------
(* The lexer on a text without variables: how it reads each character is   *)
(* said by the modes of the text, and every position moves a text and its  *)
(* words on.                                                               *)
ModeSet == {"plain", "single", "double", "escaped", "inner"}
IsModes(ms, s, escape) ==
    /\ ms[1] = "plain"
    /\ \A i \in 1 .. Len(s) : ms[i + 1] = NextMode(ms[i], s, i, escape)
    /\ \A i \in 1 .. Len(s) + 1 : ms[i] \in ModeSet

LEMMA NextModeTyped == \A m, s, i, escape : NextMode(m, s, i, escape) \in ModeSet
  BY DEF NextMode, ModeSet

LEMMA ModesRun ==
    ASSUME NEW s \in Texts, NEW escape
    PROVE  \E h \in [0 .. Len(s) -> Seq(ModeSet) \ {<<>>}] :
               /\ h[0] = <<"plain">>
               /\ \A i \in 1 .. Len(s) : h[i] = Append(h[i - 1], NextMode(Last(h[i - 1]), s, i, escape))
               /\ Modes(s, escape) = h[Len(s)]
<1> DEFINE n == Len(s)
           X == Seq(ModeSet) \ {<<>>}
           b == <<"plain">>
           Char(st, i) == Append(st, NextMode(Last(st), s, i, escape))
           F == [i \in 1 .. n |-> [st \in X |-> Char(st, i)]]
           Folds(f) == f = [S \in SUBSET (DOMAIN [i \in DOMAIN s |-> i]) |->
                              IF S = {} THEN b
                              ELSE Char(f[S \ {Max(S)}], [i \in DOMAIN s |-> i][Max(S)])]
           it == CHOOSE f : Folds(f)
<1>1. n \in Nat /\ DOMAIN s = 1 .. n /\ DOMAIN [i \in DOMAIN s |-> i] = 1 .. n BY DEF Texts
<1>2. Modes(s, escape) = it[1 .. n]
  BY <1>1 DEF Modes, FoldLeftDomain, FoldLeft, MapThenFoldSet
<1>3. b \in X BY DEF ModeSet
<1>4. F \in Steps(X, n)
  <2>1. ASSUME NEW i \in 1 .. n, NEW st \in X PROVE Char(st, i) \in X
    <3> DEFINE m == NextMode(Last(st), s, i, escape)
    <3>1. m \in ModeSet BY NextModeTyped
    <3> HIDE DEF m
    <3>2. Append(st, m) \in X
      <4> DEFINE t == Append(st, m)
      <4>1. t \in Seq(ModeSet) /\ Len(t) = Len(st) + 1 /\ Len(st) \in Nat BY <3>1
      <4>2. t # <<>> BY <4>1
      <4> QED BY <4>1, <4>2
    <3> QED BY <3>2 DEF m
  <2> HIDE DEF Char, X
  <2> QED BY <2>1 DEF Steps
<1>5. \A S \in SUBSET (1 .. n) : S # {} => Max(S) \in 1 .. n BY <1>1, MaxOf
<1> HIDE DEF Char, b
<1>6. \E f : Folds(f)
  <2>1. PICK g \in [SUBSET (1 .. n) -> X] : Takes(g, n, F, b)
    <3> HIDE DEF X, F, n
    <3> QED BY <1>1, <1>3, <1>4, SubsetRecursion
  <2>2. \A S \in SUBSET (1 .. n) : g[S \ {Max(S)}] \in X OBVIOUS
  <2>3. \A S \in SUBSET (1 .. n) : S # {} =>
          F[Max(S)][g[S \ {Max(S)}]] = Char(g[S \ {Max(S)}], [i \in DOMAIN s |-> i][Max(S)])
    <3> HIDE DEF X, n
    <3> QED BY <1>1, <1>5, <2>2
  <2>4. Folds(g)
    <3> HIDE DEF X, n, F
    <3> QED BY <1>1, <2>1, <2>3 DEF Takes
  <2> QED BY <2>4
<1>7. Folds(it) BY <1>6
<1>8. TakesIn(X, it, n, F, b)
  <2>1. it[{}] = b BY <1>7
  <2>2. \A S \in SUBSET (1 .. n) :
          S # {} /\ it[S \ {Max(S)}] \in X => it[S] = F[Max(S)][it[S \ {Max(S)}]]
    <3> HIDE DEF X, n, it
    <3> QED BY <1>1, <1>5, <1>7
  <2> HIDE DEF it, F, X
  <2> QED BY <2>1, <2>2 DEF TakesIn
<1>10. PICK h \in Runs(X, n, F, b) : h[n] = it[1 .. n]
  <2> HIDE DEF X, n, F, it
  <2> QED BY <1>1, <1>3, <1>4, <1>8, FoldRuns
<1>11. h \in [0 .. n -> X] /\ h[0] = b /\ \A i \in 1 .. n : h[i] = F[i][h[i - 1]]
  BY <1>10 DEF Runs
<1>12. \A i \in 1 .. n : h[i] = Char(h[i - 1], i)
  <2>1. \A i \in 1 .. n : i - 1 \in 0 .. n BY <1>1
  <2> HIDE DEF X, n
  <2> QED BY <1>11, <2>1
<1> QED BY <1>2, <1>10, <1>11, <1>12 DEF Char, b

LEMMA ModesAre ==
    ASSUME NEW s \in Texts, NEW escape
    PROVE  /\ IsModes(Modes(s, escape), s, escape) /\ Last(Modes(s, escape)) = Modes(s, escape)[Len(s) + 1]
           /\ Modes(s, escape) \in Seq(ModeSet) /\ Len(Modes(s, escape)) = Len(s) + 1
<1> DEFINE n == Len(s)
           X == Seq(ModeSet) \ {<<>>}
           IsUpto(ms, i) ==
               /\ Len(ms) = i + 1 /\ ms[1] = "plain"
               /\ \A k \in 1 .. i : ms[k + 1] = NextMode(ms[k], s, k, escape)
<1>1. n \in Nat BY DEF Texts
<1>2. PICK h \in [0 .. n -> X] :
               /\ h[0] = <<"plain">>
               /\ \A i \in 1 .. n : h[i] = Append(h[i - 1], NextMode(Last(h[i - 1]), s, i, escape))
               /\ Modes(s, escape) = h[n]
  BY ModesRun
<1> HIDE DEF n
<1> DEFINE T == {i \in 0 .. n : IsUpto(h[i], i)}
<1>3. 0 \in T
  <2> DEFINE u == h[0]
  <2>1. Len(u) = 0 + 1 /\ u[1] = "plain" BY <1>2
  <2> HIDE DEF u
  <2>2. IsUpto(u, 0) BY <2>1
  <2> QED BY <1>1, <2>2 DEF u
<1>4. ASSUME NEW i \in 1 .. n, i - 1 \in T PROVE i \in T
  <2> DEFINE u == h[i - 1]
             m == NextMode(Last(u), s, i, escape)
             v == h[i]
  <2>1. i - 1 \in 0 .. n /\ i \in 0 .. n /\ i \in Nat BY <1>1
  <2>2. u \in Seq(ModeSet) /\ v = Append(u, m) BY <1>2, <2>1
  <2>3. Len(u) = i /\ u[1] = "plain" /\ \A k \in 1 .. i - 1 : u[k + 1] = NextMode(u[k], s, k, escape) BY <1>4, <2>1
  <2>4. m = NextMode(u[i], s, i, escape) BY <2>3 DEF Last
  <2>5. m \in ModeSet BY NextModeTyped
  <2> HIDE DEF u, v, m
  <2>6. Len(v) = i + 1 /\ v[i + 1] = m /\ \A k \in 1 .. i : v[k] = u[k] BY <2>1, <2>2, <2>3, <2>5
  <2>7. ASSUME NEW k \in 1 .. i PROVE v[k + 1] = NextMode(v[k], s, k, escape)
    <3>1. CASE k = i BY <2>4, <2>6, <3>1
    <3>2. CASE k # i
      <4>1. k \in 1 .. i - 1 /\ k + 1 \in 1 .. i BY <2>1, <3>2
      <4> QED BY <2>3, <2>6, <4>1
    <3> QED BY <3>1, <3>2
  <2>8. v[1] = "plain" BY <2>1, <2>3, <2>6
  <2>9. IsUpto(v, i) BY <2>6, <2>7, <2>8
  <2> QED BY <2>1, <2>9 DEF v
<1> HIDE DEF T
<1>5. n \in T
  <2>1. 0 .. n \subseteq T BY <1>1, <1>3, <1>4, SetInduction
  <2> QED BY <1>1, <2>1
<1> DEFINE ms == h[n]
<1>6. ms \in Seq(ModeSet) /\ IsUpto(ms, n) BY <1>1, <1>2, <1>5 DEF T
<1> HIDE DEF ms
<1>7. \A i \in 1 .. n + 1 : ms[i] \in ModeSet BY <1>6
<1>8. Last(ms) = ms[n + 1] BY <1>6 DEF Last
<1>9. IsModes(ms, s, escape) BY <1>6, <1>7 DEF IsModes, n
<1> QED BY <1>2, <1>6, <1>8, <1>9 DEF ms, n

\* the text and the words so far, and what one more character adds to them
Marks == [text : Seq(Chars), word : Seq(Chars), words : Seq(Seq(Chars))]
NoMarks == [text |-> <<>>, word |-> <<>>, words |-> <<>>]
Breaks(s, ms, i) == s[i] = Space /\ ms[i] = "plain"
Remains(lx, s, ms, i) ==
    ms[i] \in {"escaped", "inner"} \/ ms[i + 1] = ms[i] \/ (lx.rawQuotes /\ s[i] \in Quotes)
PieceOf(lx, s, ms, i) == IF Remains(lx, s, ms, i) THEN <<s[i]>> ELSE <<>>
WithWord(word, words) == IF word = <<>> THEN words ELSE Append(words, word)
Marked(v, lx, s, ms, i) ==
    [text |-> v.text \o PieceOf(lx, s, ms, i),
     word |-> IF Breaks(s, ms, i) THEN <<>> ELSE v.word \o PieceOf(lx, s, ms, i),
     words |-> IF Breaks(s, ms, i) THEN WithWord(v.word, v.words) ELSE v.words]
IsMarks(V, lx, s, ms) == V[0] = NoMarks /\ \A i \in 1 .. Len(s) : V[i] = Marked(V[i - 1], lx, s, ms, i)

LEMMA MarkedTyped ==
    ASSUME NEW v \in Marks, NEW lx, NEW s \in Texts, NEW ms, NEW i \in 1 .. Len(s)
    PROVE  Marked(v, lx, s, ms, i) \in Marks /\ PieceOf(lx, s, ms, i) \in Seq(Chars)
<1> DEFINE piece == PieceOf(lx, s, ms, i)
           words == WithWord(v.word, v.words)
<1>1. v.text \in Seq(Chars) /\ v.word \in Seq(Chars) /\ v.words \in Seq(Seq(Chars)) BY DEF Marks
<1>2. s[i] \in Chars BY DEF Texts
<1>3. piece \in Seq(Chars) BY <1>2 DEF PieceOf
<1>4. words \in Seq(Seq(Chars)) BY <1>1 DEF WithWord
<1> HIDE DEF piece, words
<1>5. v.text \o piece \in Seq(Chars) /\ v.word \o piece \in Seq(Chars) /\ <<>> \in Seq(Chars) BY <1>1, <1>3
<1> QED BY <1>1, <1>3, <1>4, <1>5 DEF Marked, Marks, piece, words

LEMMA MarksExist ==
    ASSUME NEW lx, NEW s \in Texts, NEW ms
    PROVE  \E V \in [0 .. Len(s) -> Marks] : IsMarks(V, lx, s, ms)
<1> DEFINE n == Len(s)
           F == [i \in 1 .. n |-> [v \in Marks |-> Marked(v, lx, s, ms, i)]]
<1>1. n \in Nat BY DEF Texts
<1>2. F \in Steps(Marks, n) BY MarkedTyped DEF Steps
<1>3. NoMarks \in Marks BY DEF NoMarks, Marks
<1>4. PICK V : V \in Runs(Marks, n, F, NoMarks)
  <2> HIDE DEF F, n
  <2> QED BY <1>1, <1>2, <1>3, Recursion
<1>5. V \in [0 .. n -> Marks] /\ V[0] = NoMarks /\ \A i \in 1 .. n : V[i] = F[i][V[i - 1]] BY <1>4 DEF Runs
<1>6. \A i \in 1 .. n : V[i] = Marked(V[i - 1], lx, s, ms, i)
  <2>1. \A i \in 1 .. n : i - 1 \in 0 .. n BY <1>1
  <2> QED BY <1>5, <2>1
<1> QED BY <1>5, <1>6 DEF IsMarks

\* a text that is added in one word
Adds(u, v, text) == v.text = u.text \o text /\ v.word = u.word \o text /\ v.words = u.words

LEMMA AddsTwo ==
    ASSUME NEW u \in Marks, NEW v \in Marks, NEW w \in Marks, NEW a \in Seq(Chars), NEW b \in Seq(Chars),
           Adds(u, v, a), Adds(v, w, b)
    PROVE  Adds(u, w, a \o b)
<1>1. u.text \in Seq(Chars) /\ u.word \in Seq(Chars) BY DEF Marks
<1>2. \A x \in Seq(Chars) : (x \o a) \o b = x \o (a \o b) OBVIOUS
<1> QED BY <1>1, <1>2 DEF Adds

LEMMA AddsNone == \A u \in Marks : Adds(u, u, <<>>)
<1>1. \A x \in Seq(Chars) : x \o <<>> = x OBVIOUS
<1> QED BY <1>1 DEF Adds, Marks

\* a text that is read by its modes
Lexing(lx, s, ms, V) ==
    /\ s \in Texts /\ "$" \notin ToSet(s)
    /\ lx.escape \in {Backslash, Backtick} /\ lx.rawEscapes = FALSE /\ lx.rawQuotes \in BOOLEAN
    /\ IsModes(ms, s, lx.escape) /\ V \in [0 .. Len(s) -> Marks] /\ IsMarks(V, lx, s, ms)

LEMMA LexingText ==
    ASSUME NEW lx, NEW s, NEW ms, NEW V, Lexing(lx, s, ms, V)
    PROVE  /\ Len(s) \in Nat /\ DOMAIN s = 1 .. Len(s) /\ Sequence(s) /\ Tame(s)
           /\ \A i \in 1 .. Len(s) : s[i] \in Chars /\ s[i] # EOF /\ s[i] # "$"
           /\ \A i \in 1 .. Len(s) + 1 : ms[i] \in ModeSet /\ V[i - 1] \in Marks
           /\ \A i \in 1 .. Len(s) : V[i] \in Marks /\ V[i] = Marked(V[i - 1], lx, s, ms, i)
<1>1. s \in Texts /\ "$" \notin ToSet(s) BY DEF Lexing
<1>2. Len(s) \in Nat /\ DOMAIN s = 1 .. Len(s) /\ \A i \in 1 .. Len(s) : s[i] \in Chars BY <1>1 DEF Texts
<1>3. Sequence(s) BY <1>1, SequenceFrom DEF Texts
<1>4. \A i \in 1 .. Len(s) : s[i] # EOF /\ s[i] # "$" BY <1>1, <1>2, CharFacts DEF ToSet
<1>5. \A i \in 1 .. Len(s) + 1 : ms[i] \in ModeSet BY DEF Lexing, IsModes
<1>6. \A i \in 1 .. Len(s) : V[i] = Marked(V[i - 1], lx, s, ms, i) BY DEF Lexing, IsMarks
<1>7. \A i \in 1 .. Len(s) + 1 : V[i - 1] \in Marks
  <2>1. \A i \in 1 .. Len(s) + 1 : i - 1 \in 0 .. Len(s) BY <1>2
  <2> QED BY <2>1 DEF Lexing
<1>8. \A i \in 1 .. Len(s) : V[i] \in Marks BY <1>2 DEF Lexing
<1> QED BY <1>2, <1>3, <1>4, <1>5, <1>6, <1>7, <1>8 DEF Tame

LEMMA PieceAdds ==
    ASSUME NEW lx, NEW s, NEW ms, NEW V, Lexing(lx, s, ms, V), NEW i \in 1 .. Len(s), ~Breaks(s, ms, i)
    PROVE  Adds(V[i - 1], V[i], PieceOf(lx, s, ms, i)) /\ PieceOf(lx, s, ms, i) \in Seq(Chars)
<1>1. V[i] = Marked(V[i - 1], lx, s, ms, i) BY LexingText
<1>2. s \in Texts /\ V[i - 1] \in Marks
  <2>1. Len(s) \in Nat BY LexingText
  <2>2. i \in 1 .. Len(s) + 1 BY <2>1
  <2> QED BY <2>2, LexingText DEF Lexing
<1> DEFINE u == V[i - 1]
           v == V[i]
<1>3. v = Marked(u, lx, s, ms, i) /\ u \in Marks BY <1>1, <1>2
<1> HIDE DEF u, v
<1>4. Adds(u, v, PieceOf(lx, s, ms, i)) BY <1>3 DEF Marked, Adds
<1>5. PieceOf(lx, s, ms, i) \in Seq(Chars) BY <1>2, <1>3, MarkedTyped
<1> QED BY <1>4, <1>5 DEF u, v

\* What is read behind a double quote ends with the next in effect, or at the end of the text.
ReadInside(g, s, ms, V, i) ==
    LET r == g[<<i, DoubleQuote>>]
    IN  /\ r.ok => /\ r.next \in i + 1 .. Len(s) + 1 /\ ms[r.next] = "plain"
                   /\ r.text \in Seq(Chars) /\ Adds(V[i - 1], V[r.next - 1], r.text)
        /\ ~r.ok => ms[Len(s) + 1] \notin {"plain", "escaped"}

LEMMA InsideGoesOn ==
    ASSUME NEW lx, NEW s, NEW ms, NEW V, Lexing(lx, s, ms, V), NEW g, NEW i \in 1 .. Len(s), NEW j \in i + 1 .. Len(s) + 1,
           NEW text \in Seq(Chars), NEW word, NEW splits,
           IsReading(g[<<j, DoubleQuote>>], j, Len(s)), ReadInside(g, s, ms, V, j), Adds(V[i - 1], V[j - 1], text),
           g[<<i, DoubleQuote>>] = InFront(text, word, splits, g[<<j, DoubleQuote>>])
    PROVE  ReadInside(g, s, ms, V, i)
<1> DEFINE r == g[<<i, DoubleQuote>>]
           rest == g[<<j, DoubleQuote>>]
           n == Len(s)
<1>1. n \in Nat BY LexingText
<1>2. r = InFront(text, word, splits, rest) OBVIOUS
<1>3. IsReading(rest, j, n) OBVIOUS
<1>4. /\ rest.ok => /\ rest.next \in j + 1 .. n + 1 /\ ms[rest.next] = "plain"
                    /\ rest.text \in Seq(Chars) /\ Adds(V[j - 1], V[rest.next - 1], rest.text)
      /\ ~rest.ok => ms[n + 1] \notin {"plain", "escaped"}
  BY DEF ReadInside
<1> HIDE DEF r, rest
<1>5. CASE ~rest.ok
  <2>1. r = Failure BY <1>2, <1>5 DEF InFront
  <2>2. r.ok = FALSE BY <2>1 DEF Failure
  <2> QED BY <1>4, <1>5, <2>2 DEF ReadInside, r
<1>6. CASE rest.ok
  <2> DEFINE to == rest.next
             more == rest.text
  <2>1. IsRead(rest, more, rest.parts, to) BY <1>3, <1>6 DEF IsReading, IsRead
  <2>2. IsRead(r, text \o more, <<PartOf(word, splits)>> \o rest.parts, to)
    <3> HIDE DEF to, more
    <3> QED BY <1>2, <2>1, TextInFront
  <2>3. r.ok = TRUE /\ r.next = to /\ r.text = text \o more BY <2>2 DEF IsRead
  <2>4. to \in j + 1 .. n + 1 /\ ms[to] = "plain" /\ more \in Seq(Chars) /\ Adds(V[j - 1], V[to - 1], more)
    BY <1>4, <1>6
  <2> HIDE DEF to, more
  <2>5. to \in i + 1 .. n + 1 /\ to \in 1 .. n + 1 /\ j \in 1 .. n + 1 /\ i \in 1 .. n + 1 BY <1>1, <2>4
  <2>6. V[i - 1] \in Marks /\ V[j - 1] \in Marks /\ V[to - 1] \in Marks BY <2>5, LexingText
  <2>7. Adds(V[i - 1], V[to - 1], text \o more) BY <2>4, <2>6, AddsTwo
  <2>8. text \o more \in Seq(Chars) BY <2>4
  <2> QED BY <2>3, <2>4, <2>5, <2>7, <2>8 DEF ReadInside, r
<1> QED BY <1>5, <1>6

LEMMA LexingReads ==
    ASSUME NEW lx, NEW e, NEW s, NEW ms, NEW V, Lexing(lx, s, ms, V)
    PROVE  \A i \in 1 .. Len(s) + 1 : \A t \in {EOF, DoubleQuote} :
               /\ StopOn(lx, e, s)[<<i, t>>] = Lexed(StopOn(lx, e, s), lx, e, s, i, t)
               /\ IsReading(StopOn(lx, e, s)[<<i, t>>], i, Len(s))
<1> DEFINE g == StopOn(lx, e, s)
<1>1. Tame(s) BY LexingText
<1>2. ReadsFrom(g, lx, e, s, 1) BY <1>1, StopOnReads DEF Lexing
<1> HIDE DEF g
<1>3. \A i \in 1 .. Len(s) + 1 : \A t \in {EOF, DoubleQuote} :
        g[<<i, t>>] = Lexed(g, lx, e, s, i, t) /\ IsReading(g[<<i, t>>], i, Len(s))
  BY <1>2 DEF ReadsFrom, Stops
<1> QED BY <1>3 DEF g

LEMMA ModesNext ==
    ASSUME NEW s, NEW i, NEW escape \in {Backslash, Backtick}
    PROVE  /\ NextMode("plain", s, i, escape) =
                IF s[i] = SingleQuote THEN "single" ELSE IF s[i] = DoubleQuote THEN "double"
                ELSE IF s[i] = escape THEN "escaped" ELSE "plain"
           /\ NextMode("single", s, i, escape) = IF s[i] = SingleQuote THEN "plain" ELSE "single"
           /\ NextMode("double", s, i, escape) =
                IF s[i] = escape /\ At(s, i + 1) \in {DoubleQuote, "$", escape} THEN "inner"
                ELSE IF s[i] = DoubleQuote THEN "plain" ELSE "double"
           /\ NextMode("inner", s, i, escape) = "double" /\ NextMode("escaped", s, i, escape) = "plain"
<1> DEFINE c == s[i]
           d == At(s, i + 1)
<1>1. SingleQuote # DoubleQuote /\ escape \notin {SingleQuote, DoubleQuote}
  BY DEF SingleQuote, DoubleQuote, Backslash, Backtick
<1> DEFINE escapes == c = escape /\ d \in {DoubleQuote, "$", escape}
<1>2. \A m : NextMode(m, s, i, escape) =
        CASE m = "plain" /\ c = SingleQuote -> "single"
          [] m = "plain" /\ c = DoubleQuote -> "double"
          [] m = "plain" /\ c = escape -> "escaped"
          [] m = "single" /\ c # SingleQuote -> "single"
          [] m = "double" /\ escapes -> "inner"
          [] m = "inner" \/ (m = "double" /\ c # DoubleQuote /\ ~escapes) -> "double"
          [] OTHER -> "plain"
  BY DEF NextMode
<1> HIDE DEF c, d
<1>3. NextMode("plain", s, i, escape) =
        IF c = SingleQuote THEN "single" ELSE IF c = DoubleQuote THEN "double" ELSE IF c = escape THEN "escaped" ELSE "plain"
  BY <1>1, <1>2
<1>4. NextMode("single", s, i, escape) = IF c = SingleQuote THEN "plain" ELSE "single" BY <1>1, <1>2
<1>5. NextMode("double", s, i, escape) = IF escapes THEN "inner" ELSE IF c = DoubleQuote THEN "plain" ELSE "double"
  <2>1. escapes => c # DoubleQuote BY <1>1
  <2> HIDE DEF escapes
  <2> QED BY <1>2, <2>1
<1>6. NextMode("inner", s, i, escape) = "double" /\ NextMode("escaped", s, i, escape) = "plain" BY <1>1, <1>2
<1> QED BY <1>3, <1>4, <1>5, <1>6 DEF c, d

LEMMA InsideStep ==
    ASSUME NEW lx, NEW e, NEW s, NEW ms, NEW V, Lexing(lx, s, ms, V), NEW i \in 1 .. Len(s), ms[i] = "double",
           \A j \in i + 1 .. Len(s) + 1 : ms[j] = "double" => ReadInside(StopOn(lx, e, s), s, ms, V, j)
    PROVE  ReadInside(StopOn(lx, e, s), s, ms, V, i)
<1> DEFINE g == StopOn(lx, e, s)
           n == Len(s)
           c == s[i]
           r == g[<<i, DoubleQuote>>]
           piece == PieceOf(lx, s, ms, i)
<1>1. n \in Nat /\ i \in Int /\ i \in 1 .. n + 1 /\ i + 1 \in i + 1 .. n + 1 /\ i + 1 \in 1 .. n + 1 BY LexingText
<1>2. c \in Chars /\ c # EOF /\ c # "$" /\ At(s, i) = c BY <1>1, LexingText DEF At
<1>3. lx.escape \in {Backslash, Backtick} /\ lx.rawEscapes = FALSE BY DEF Lexing
<1>4. ms[i + 1] = IF c = lx.escape /\ At(s, i + 1) \in {DoubleQuote, "$", lx.escape} THEN "inner"
                  ELSE IF c = DoubleQuote THEN "plain" ELSE "double"
  <2>1. ms[i + 1] = NextMode("double", s, i, lx.escape) BY DEF Lexing, IsModes
  <2> QED BY <1>3, <2>1, ModesNext
<1>5. \A j \in 1 .. n + 1 : \A t \in {EOF, DoubleQuote} :
        g[<<j, t>>] = Lexed(g, lx, e, s, j, t) /\ IsReading(g[<<j, t>>], j, n)
  BY LexingReads
<1>6. ~Breaks(s, ms, i) BY DEF Breaks
<1>7. Adds(V[i - 1], V[i], piece) /\ piece \in Seq(Chars) BY <1>6, PieceAdds
<1>8. DoubleQuote \in Stops /\ DoubleQuote # EOF BY DEF Stops, DoubleQuote, EOF
<1> SUFFICES ReadInside(g, s, ms, V, i)
  OBVIOUS
<1> HIDE DEF g, n, r, c
<1>9. r = Lexed(g, lx, e, s, i, DoubleQuote) BY <1>1, <1>5 DEF r
<1>10. (i + 1) - 1 = i BY <1>1
\* one character that stays
<1>11. ASSUME ms[i + 1] = "double", NEW word, NEW splits,
              r = InFront(<<c>>, word, splits, g[<<i + 1, DoubleQuote>>])
       PROVE  ReadInside(g, s, ms, V, i)
  <2>1. piece = <<c>> BY <1>11 DEF PieceOf, Remains, c
  <2>2. ReadInside(g, s, ms, V, i + 1) BY <1>1, <1>11 DEF g, n
  <2>3. IsReading(g[<<i + 1, DoubleQuote>>], i + 1, n) BY <1>1, <1>5
  <2>4. Adds(V[i - 1], V[(i + 1) - 1], piece) BY <1>7, <1>10
  <2>5. g[<<i, DoubleQuote>>] = InFront(piece, word, splits, g[<<i + 1, DoubleQuote>>]) BY <1>11, <2>1 DEF r
  <2>6. i + 1 \in i + 1 .. Len(s) + 1 BY <1>1 DEF n
  <2> HIDE DEF piece
  <2> QED BY <1>7, <2>2, <2>3, <2>4, <2>5, <2>6, InsideGoesOn DEF n
<1>12. CASE c = DoubleQuote
  <2> DEFINE text == IF lx.rawQuotes THEN <<DoubleQuote>> ELSE <<>>
             stop == DoubleQuote
             quoted == IF stop = DoubleQuote /\ lx.rawQuotes THEN <<stop>> ELSE <<>>
  <2>1. r = Read(quoted, i + 1) BY <1>1, <1>2, <1>8, <1>9, <1>12, LexedStop
  <2>2. quoted = text OBVIOUS
  <2>3. ms[i + 1] = "plain"
    <3>1. c # lx.escape BY <1>3, <1>12 DEF Backslash, Backtick, DoubleQuote
    <3> QED BY <1>4, <1>12, <3>1
  <2>4. piece = text BY <1>12, <2>3 DEF PieceOf, Remains, c, Quotes
  <2>5. r.ok = TRUE /\ r.next = i + 1 /\ r.text = text
    <3> HIDE DEF quoted, text
    <3> QED BY <2>1, <2>2 DEF Read
  <2> HIDE DEF text, piece
  <2>6. r.text \in Seq(Chars) /\ Adds(V[i - 1], V[r.next - 1], r.text) BY <1>7, <1>10, <2>4, <2>5
  <2> QED BY <1>1, <2>3, <2>5, <2>6 DEF ReadInside, r, n
<1>13. CASE c = lx.escape
  <2> DEFINE d == At(s, i + 1)
             esc == EscapedText(lx, s, i, DoubleQuote)
             word == EscapedWord(lx, s, i, DoubleQuote)
             to == IF Escapes(lx, s, i, DoubleQuote) THEN i + 2 ELSE i + 1
  <2>1. r = InFront(esc, word, FALSE, g[<<to, DoubleQuote>>])
    <3>1. At(s, i) = lx.escape BY <1>2, <1>13
    <3>2. \A t \in Stops :
            Lexed(g, lx, e, s, i, t) =
              InFront(EscapedText(lx, s, i, t), EscapedWord(lx, s, i, t), FALSE,
                      g[<<IF Escapes(lx, s, i, t) THEN i + 2 ELSE i + 1, t>>])
      BY <1>1, <1>3, <3>1, LexedEscape
    <3> QED BY <1>8, <1>9, <3>2
  <2>2. c # DoubleQuote /\ c # SingleQuote BY <1>3, <1>13 DEF Backslash, Backtick, DoubleQuote, SingleQuote
  <2>3. Escapes(lx, s, i, DoubleQuote) <=> d # EOF /\ d \in {DoubleQuote, "$", lx.escape} BY DEF Escapes
  <2>4. esc = IF Escapes(lx, s, i, DoubleQuote) THEN <<d>> ELSE <<lx.escape>>
    <3>1. \A x : <<>> \o <<x>> = <<x>>
      <4> TAKE x
      <4>1. <<x>> \in Seq({x}) OBVIOUS
      <4> DEFINE one == <<x>>
      <4> HIDE DEF one
      <4>2. one \in Seq({x}) => <<>> \o one = one OBVIOUS
      <4> QED BY <4>1, <4>2 DEF one
    <3> QED BY <1>3, <3>1 DEF EscapedText
  <2>5. CASE Escapes(lx, s, i, DoubleQuote)
    <3>1. i + 1 \in 1 .. n /\ d = s[i + 1] BY <1>1, <2>3, <2>5 DEF At, n
    <3>2. ms[i + 1] = "inner" BY <1>4, <1>13, <2>3, <2>5
    <3>3. ms[i + 2] = "double"
      <4>1. ms[(i + 1) + 1] = NextMode(ms[i + 1], s, i + 1, lx.escape) BY <3>1 DEF Lexing, IsModes, n
      <4>2. NextMode("inner", s, i + 1, lx.escape) = "double" BY <1>3, ModesNext
      <4>3. (i + 1) + 1 = i + 2 BY <1>1
      <4> QED BY <3>2, <4>1, <4>2, <4>3
    <3>4. piece = <<>> BY <1>13, <2>2, <3>2 DEF PieceOf, Remains, c, Quotes
    <3> DEFINE second == PieceOf(lx, s, ms, i + 1)
    <3>5. ~Breaks(s, ms, i + 1) BY <3>2 DEF Breaks
    <3>6. Adds(V[(i + 1) - 1], V[i + 1], second) /\ second \in Seq(Chars) BY <3>1, <3>5, PieceAdds DEF n
    <3>7. second = <<d>> BY <3>1, <3>2 DEF PieceOf, Remains
    <3>8. i + 2 \in i + 1 .. n + 1 /\ i + 2 \in 1 .. n + 1 /\ (i + 2) - 1 = i + 1 BY <1>1, <3>1
    <3>9. V[i - 1] \in Marks /\ V[i] \in Marks /\ V[i + 1] \in Marks BY <1>1, <3>1, LexingText DEF n
    <3> HIDE DEF second
    <3>10. Adds(V[i - 1], V[(i + 2) - 1], second)
      <4>1. Adds(V[i - 1], V[i], <<>>) /\ Adds(V[i], V[i + 1], second) /\ <<>> \in Seq(Chars)
        BY <1>7, <1>10, <3>4, <3>6
      <4>2. Adds(V[i - 1], V[i + 1], <<>> \o second) BY <3>6, <3>9, <4>1, AddsTwo
      <4>3. <<>> \o second = second BY <3>6
      <4> QED BY <3>8, <4>2, <4>3
    <3>11. ReadInside(g, s, ms, V, i + 2) BY <3>3, <3>8 DEF g, n
    <3>12. IsReading(g[<<i + 2, DoubleQuote>>], i + 2, n) BY <1>5, <3>8
    <3>13. g[<<i, DoubleQuote>>] = InFront(second, word, FALSE, g[<<i + 2, DoubleQuote>>])
      <4>1. to = i + 2 /\ esc = second BY <2>4, <2>5, <3>7
      <4> HIDE DEF to, esc, word
      <4> QED BY <2>1, <4>1 DEF r
    <3> HIDE DEF word
    <3> QED BY <3>6, <3>8, <3>10, <3>11, <3>12, <3>13, InsideGoesOn DEF n
  <2>6. CASE ~Escapes(lx, s, i, DoubleQuote)
    <3>1. d \notin {DoubleQuote, "$", lx.escape}
      BY <1>3, <2>3, <2>6 DEF EOF, DoubleQuote, Backslash, Backtick
    <3>2. ms[i + 1] = "double" BY <1>4, <2>2, <3>1
    <3>3. to = i + 1 /\ esc = <<c>> BY <1>13, <2>4, <2>6
    <3> HIDE DEF to, esc, word
    <3> QED BY <1>11, <2>1, <3>2, <3>3
  <2> QED BY <2>5, <2>6
<1>14. CASE c \notin {DoubleQuote, lx.escape}
  <2>1. r = OneChar(g, c, i, DoubleQuote)
    <3>1. At(s, i) \notin {EOF, DoubleQuote, "$", DoubleQuote, lx.escape} BY <1>2, <1>14
    <3> QED BY <1>1, <1>2, <1>9, <3>1, LexedOther
  <2>2. ms[i + 1] = "double" BY <1>4, <1>14
  <2> QED BY <1>11, <2>1, <2>2 DEF OneChar
<1> QED BY <1>12, <1>13, <1>14 DEF g

LEMMA InsideRead ==
    ASSUME NEW lx, NEW e, NEW s, NEW ms, NEW V, Lexing(lx, s, ms, V), NEW i \in 1 .. Len(s) + 1, ms[i] = "double"
    PROVE  ReadInside(StopOn(lx, e, s), s, ms, V, i)
<1> DEFINE g == StopOn(lx, e, s)
           n == Len(s)
           T == {k \in 0 .. n : \A j \in n + 1 - k .. n + 1 : ms[j] = "double" => ReadInside(g, s, ms, V, j)}
<1>1. n \in Nat BY LexingText
<1>2. 0 \in T
  <2> DEFINE r == g[<<n + 1, DoubleQuote>>]
  <2>1. At(s, n + 1) = EOF /\ n + 1 \in 1 .. n + 1 /\ n + 1 \in Int BY <1>1 DEF At
  <2>2. r = Lexed(g, lx, e, s, n + 1, DoubleQuote) BY <2>1, LexingReads
  <2> HIDE DEF g, r
  <2>3. r = Failure BY <2>1, <2>2, LexedEnd DEF DoubleQuote, EOF
  <2>4. r.ok = FALSE BY <2>3 DEF Failure
  <2>5. ms[n + 1] = "double" => ReadInside(g, s, ms, V, n + 1) BY <2>4 DEF ReadInside, r
  <2> HIDE DEF n
  <2>6. \A j \in n + 1 - 0 .. n + 1 : j = n + 1 BY <1>1
  <2> QED BY <1>1, <2>5, <2>6
<1>3. ASSUME NEW k \in 1 .. n, k - 1 \in T PROVE k \in T
  <2> DEFINE m == n + 1 - k
  <2>1. m \in 1 .. Len(s) /\ n + 1 - (k - 1) = m + 1 /\ k \in 0 .. n BY <1>1
  <2>2. \A j \in m + 1 .. Len(s) + 1 : ms[j] = "double" => ReadInside(g, s, ms, V, j) BY <1>3, <2>1
  <2> HIDE DEF m
  <2>3. ms[m] = "double" => ReadInside(g, s, ms, V, m) BY <2>1, <2>2, InsideStep
  <2>4. \A j \in m .. n + 1 : j = m \/ j \in m + 1 .. Len(s) + 1 BY <1>1, <2>1
  <2> HIDE DEF g, n
  <2>5. \A j \in m .. n + 1 : ms[j] = "double" => ReadInside(g, s, ms, V, j) BY <2>2, <2>3, <2>4
  <2> QED BY <2>1, <2>5 DEF m
<1> HIDE DEF T, g
<1>4. n \in T
  <2>1. 0 .. n \subseteq T
    <3> HIDE DEF n
    <3> QED BY <1>1, <1>2, <1>3, SetInduction
  <2> QED BY <1>1, <2>1
<1>5. i \in n + 1 - n .. n + 1 BY <1>1
<1> QED BY <1>4, <1>5 DEF T, g

\* The words being collected are those of the marks, and each part of what is read moves them on.
Collecting == [word : Seq(Chars), words : Seq(Seq(Chars)), inWord : BOOLEAN]
Like(w, v) == w \in Collecting /\ w.word = v.word /\ w.words = v.words /\ (w.word # <<>> => w.inWord = TRUE)
Carries(word, splits, u, v) == \A w : Like(w, u) => Like(AddPart(w, PartOf(word, splits)), v)
Folded(parts, u, v) ==
    \A h : (\A k \in 1 .. Len(parts) : h[k] = AddPart(h[k - 1], parts[k])) /\ Like(h[0], u) => Like(h[Len(parts)], v)

LEMMA AddsCarries ==
    ASSUME NEW u \in Marks, NEW v, NEW text \in Seq(Chars), Adds(u, v, text)
    PROVE  Carries(text, FALSE, u, v)
<1> SUFFICES ASSUME NEW w, Like(w, u) PROVE Like(AddPart(w, PartOf(text, FALSE)), v)
  BY DEF Carries
<1>1. w \in Collecting /\ w.word = u.word /\ w.words = u.words BY DEF Like
<1>2. u.word \in Seq(Chars) /\ u.word \o text \in Seq(Chars) BY DEF Marks
<1> DEFINE x == AddPart(w, PartOf(text, FALSE))
<1>3. x = [w EXCEPT !.word = @ \o text, !.inWord = TRUE] BY DEF AddPart, PartOf, AddRawString
<1> HIDE DEF x
<1>4. x \in Collecting /\ x.word = w.word \o text /\ x.words = w.words /\ x.inWord = TRUE BY <1>1, <1>2, <1>3 DEF Collecting
<1>5. v.word = u.word \o text /\ v.words = u.words BY DEF Adds
<1>6. Like(x, v) BY <1>1, <1>4, <1>5 DEF Like
<1> QED BY <1>6 DEF x

LEMMA FoldedNone == \A u : Folded(<<>>, u, u)
<1>1. Len(<<>>) = 0 OBVIOUS
<1> QED BY <1>1 DEF Folded

LEMMA FoldedFront ==
    ASSUME NEW word, NEW splits, NEW parts, Sequence(parts), NEW u, NEW v, NEW z,
           Carries(word, splits, u, v), Folded(parts, v, z)
    PROVE  Sequence(<<PartOf(word, splits)>> \o parts) /\ Folded(<<PartOf(word, splits)>> \o parts, u, z)
<1> DEFINE part == PartOf(word, splits)
           one == <<part>>
           all == one \o parts
           n == Len(parts)
<1>1. Sequence(one) /\ Len(one) = 1 /\ one[1] = part
  <2>1. one \in Seq({part}) /\ Len(one) = 1 /\ one[1] = part OBVIOUS
  <2> QED BY <2>1, SequenceFrom
<1> HIDE DEF one, part
<1>2. Sequence(all) /\ Len(all) = 1 + n /\ all[1] = part /\ \A k \in 1 .. n : all[1 + k] = parts[k]
  <2>1. 1 \in 1 .. Len(one) BY <1>1
  <2>2. Sequence(all) /\ Len(all) = Len(one) + Len(parts)
    <3>1. Sequence(one \o parts) BY <1>1, SequenceConcat
    <3>2. Len(one \o parts) = Len(one) + Len(parts) BY <1>1, SequenceConcat
    <3> QED BY <3>1, <3>2
  <2>3. \A k \in 1 .. Len(one) : all[k] = one[k] BY <1>1, SequenceConcat
  <2>4. \A k \in 1 .. Len(parts) : all[Len(one) + k] = parts[k]
    <3>1. \A x, y : Sequence(x) /\ Sequence(y) => \A k \in 1 .. Len(y) : (x \o y)[Len(x) + k] = y[k] BY SequenceConcat
    <3> QED BY <1>1, <3>1
  <2> HIDE DEF all
  <2> QED BY <1>1, <2>1, <2>2, <2>3, <2>4
<1>3. n \in Nat BY SequenceFacts
<1> HIDE DEF all
<1>4. ASSUME NEW h, \A k \in 1 .. Len(all) : h[k] = AddPart(h[k - 1], all[k]), Like(h[0], u)
      PROVE  Like(h[Len(all)], z)
  <2> DEFINE f == [k \in 0 .. n |-> h[k + 1]]
  <2>1. h[1] = AddPart(h[0], part)
    <3>1. 1 \in 1 .. Len(all) /\ 1 - 1 = 0 BY <1>2, <1>3
    <3>2. h[1] = AddPart(h[1 - 1], all[1]) BY <1>4, <3>1
    <3> QED BY <1>2, <3>1, <3>2
  <2>2. Like(h[1], v) BY <1>4, <2>1 DEF Carries, part
  <2>3. f[0] = h[1] /\ f[n] = h[Len(all)]
    <3>1. n + 1 = Len(all) /\ 0 \in 0 .. n /\ n \in 0 .. n /\ 0 + 1 = 1 BY <1>2, <1>3
    <3>2. f[0] = h[0 + 1] /\ f[n] = h[n + 1] BY <3>1
    <3> QED BY <3>1, <3>2
  <2>4. ASSUME NEW k \in 1 .. n PROVE f[k] = AddPart(f[k - 1], parts[k])
    <3>1. k + 1 \in 1 .. Len(all) /\ (k + 1) - 1 = k /\ k \in 0 .. n /\ k - 1 \in 0 .. n /\ (k - 1) + 1 = k /\ 1 + k = k + 1
      BY <1>2, <1>3
    <3>2. h[k + 1] = AddPart(h[(k + 1) - 1], all[k + 1]) BY <1>4, <3>1
    <3>3. f[k] = h[k + 1] /\ f[k - 1] = h[(k - 1) + 1] BY <3>1
    <3>4. all[k + 1] = parts[k] BY <1>2, <3>1
    <3> QED BY <3>1, <3>2, <3>3, <3>4
  <2> HIDE DEF f
  <2>5. Like(f[0], v) BY <2>2, <2>3
  <2>6. Like(f[n], z) BY <2>4, <2>5 DEF Folded, n
  <2> QED BY <2>3, <2>6
<1>5. Folded(all, u, z) BY <1>4 DEF Folded
<1> QED BY <1>2, <1>5 DEF all, one, part

LEMMA AddCharIs ==
    ASSUME NEW w, NEW c
    PROVE  AddPart(w, PartOf(<<c>>, TRUE)) = AddChar(w, c)
<1> DEFINE s == <<c>>
           Folds(f) == f = [S \in SUBSET {1} |-> IF S = {} THEN w ELSE AddChar(f[S \ {Max(S)}], s[Max(S)])]
           it == CHOOSE f : Folds(f)
           g == [S \in SUBSET {1} |-> IF S = {} THEN w ELSE AddChar(w, c)]
<1>1. DOMAIN s = {1} /\ s[1] = c OBVIOUS
<1>2. AddPart(w, PartOf(s, TRUE)) = AddString(w, s) BY DEF AddPart, PartOf
<1>3. AddString(w, s) = it[{1}]
  <2> HIDE DEF s
  <2> QED BY <1>1 DEF AddString, FoldLeft, MapThenFoldSet
<1>4. Max({1}) = 1
  <2>1. {1} \in SUBSET (1 .. 1) /\ {1} # {} /\ 1 \in Nat OBVIOUS
  <2>2. Max({1}) \in {1} BY <2>1, MaxOf
  <2> QED BY <2>2
<1> HIDE DEF s
<1>5. Folds(g)
  <2>1. \A S \in SUBSET {1} : S # {} => S = {1} /\ S \ {Max(S)} = {} BY <1>4
  <2>2. \A S \in SUBSET {1} : S # {} => g[S \ {Max(S)}] = w /\ s[Max(S)] = c BY <1>1, <1>4, <2>1
  <2> QED BY <2>2
<1>6. Folds(it) BY <1>5
<1> HIDE DEF it
<1>7. it[{}] = w /\ it[{1}] = AddChar(it[{1} \ {Max({1})}], s[Max({1})]) BY <1>6
<1>8. {1} \ {Max({1})} = {} BY <1>4
<1>9. it[{1}] = AddChar(w, c) BY <1>1, <1>4, <1>7, <1>8
<1> QED BY <1>2, <1>3, <1>9 DEF s

CharMoves(s, V, i) == Carries(<<s[i]>>, TRUE, V[i - 1], V[i]) /\ V[i].text = V[i - 1].text \o <<s[i]>>

LEMMA CharCarries ==
    ASSUME NEW lx, NEW s, NEW ms, NEW V, Lexing(lx, s, ms, V), NEW i \in 1 .. Len(s), ms[i] = "plain", ms[i + 1] = "plain"
    PROVE  CharMoves(s, V, i)
<1> DEFINE u == V[i - 1]
           v == V[i]
           c == s[i]
           one == <<c>>
<1>1. u \in Marks /\ v = Marked(u, lx, s, ms, i) /\ c \in Chars
  <2>1. Len(s) \in Nat BY LexingText
  <2>2. i \in 1 .. Len(s) + 1 BY <2>1
  <2> QED BY <2>2, LexingText
<1>2. PieceOf(lx, s, ms, i) = one BY DEF PieceOf, Remains
<1>3. one \in Seq(Chars) BY <1>1
<1> HIDE DEF u, v, one
<1>4. v.text = u.text \o one BY <1>1, <1>2 DEF Marked
<1>5. v.word = (IF c = Space THEN <<>> ELSE u.word \o one) /\ v.words = IF c = Space THEN WithWord(u.word, u.words) ELSE u.words
  BY <1>1, <1>2 DEF Marked, Breaks
<1>6. ASSUME NEW w, Like(w, u) PROVE Like(AddPart(w, PartOf(one, TRUE)), v)
  <2> DEFINE x == AddPart(w, PartOf(one, TRUE))
  <2>1. w \in Collecting /\ w.word = u.word /\ w.words = u.words /\ (w.word # <<>> => w.inWord = TRUE) BY <1>6 DEF Like
  <2>2. w.word \in Seq(Chars) /\ w.words \in Seq(Seq(Chars)) BY <2>1 DEF Collecting
  <2>3. x = AddChar(w, c) BY AddCharIs DEF one
  <2> HIDE DEF x
  <2>4. CASE c # Space
    <3>1. x = [w EXCEPT !.word = @ \o one, !.inWord = TRUE] BY <2>3, <2>4 DEF AddChar, AddRawString, one
    <3>2. w.word \o one \in Seq(Chars) BY <1>3, <2>2
    <3>3. x \in Collecting /\ x.word = w.word \o one /\ x.words = w.words /\ x.inWord = TRUE BY <2>1, <3>1, <3>2 DEF Collecting
    <3>4. Like(x, v) BY <1>5, <2>1, <2>4, <3>3 DEF Like
    <3> QED BY <3>4 DEF x
  <2>5. CASE c = Space /\ w.word # <<>>
    <3>1. x = [NoWords EXCEPT !.words = GetWords(w)] BY <2>1, <2>3, <2>5 DEF AddChar
    <3>2. GetWords(w) = WithWord(w.word, w.words) /\ GetWords(w) \in Seq(Seq(Chars))
      <4>1. Append(w.words, w.word) \in Seq(Seq(Chars)) BY <2>2
      <4> QED BY <2>2, <4>1 DEF GetWords, WithWord
    <3>3. x.word = <<>> /\ x.words = GetWords(w) /\ x \in Collecting
      <4>1. <<>> \in Seq(Chars) OBVIOUS
      <4> QED BY <3>1, <3>2, <4>1 DEF NoWords, Collecting
    <3>4. Like(x, v) BY <1>5, <2>1, <2>5, <3>2, <3>3 DEF Like
    <3> QED BY <3>4 DEF x
  <2>6. CASE c = Space /\ w.word = <<>>
    <3>1. x = w BY <2>3, <2>6 DEF AddChar
    <3>2. WithWord(u.word, u.words) = u.words BY <2>1, <2>6 DEF WithWord
    <3>3. Like(x, v) BY <1>5, <2>1, <2>6, <3>1, <3>2 DEF Like
    <3> QED BY <3>3 DEF x
  <2> QED BY <2>4, <2>5, <2>6
<1>7. Carries(one, TRUE, u, v) BY <1>6 DEF Carries
<1> QED BY <1>4, <1>7 DEF u, v, one, c, CharMoves

\* A part of a text grows by its next character.
LEMMA SubTextNext ==
    ASSUME NEW s \in Texts, NEW a \in 1 .. Len(s) + 1, NEW k \in 1 .. Len(s), a <= k
    PROVE  SubSeq(s, a, k) = SubSeq(s, a, k - 1) \o <<s[k]>>
<1> DEFINE n == Len(s)
           u == SubSeq(s, a, k - 1)
           v == SubSeq(s, a, k)
           one == <<s[k]>>
           l == u \o one
<1>1. n \in Nat /\ s[k] \in Chars /\ a \in Nat /\ k \in Nat BY DEF Texts
<1>2. u \in Seq(Chars) /\ Len(u) = k - a /\ \A j \in 1 .. k - a : u[j] = s[a + j - 1] BY <1>1 DEF Texts
<1>3. v \in Seq(Chars) /\ Len(v) = k - a + 1 /\ \A j \in 1 .. k - a + 1 : v[j] = s[a + j - 1] BY <1>1 DEF Texts
<1>4. one \in Seq(Chars) /\ Len(one) = 1 /\ one[1] = s[k] BY <1>1
<1> HIDE DEF u, v, one
<1>a. u \in Seq(Chars) /\ one \in Seq(Chars) BY <1>2, <1>4
<1>b. /\ u \o one \in Seq(Chars) /\ Len(u \o one) = Len(u) + Len(one)
      /\ \A j \in 1 .. Len(u) : (u \o one)[j] = u[j]
      /\ \A j \in 1 .. Len(one) : (u \o one)[Len(u) + j] = one[j]
  BY <1>a, Concat
<1>c. l = u \o one OBVIOUS
<1> HIDE DEF l
<1>5. l \in Seq(Chars) /\ Len(l) = Len(u) + 1 BY <1>4, <1>b, <1>c
<1>6. \A j \in 1 .. Len(u) : l[j] = u[j] BY <1>b, <1>c
<1>7. l[Len(u) + 1] = s[k]
  <2>1. 1 \in 1 .. Len(one) BY <1>4
  <2> QED BY <1>4, <1>b, <1>c, <2>1
<1> HIDE DEF n
<1>8. ASSUME NEW j \in 1 .. k - a + 1 PROVE l[j] = v[j]
  <2>1. CASE j = k - a + 1
    <3>1. a + j - 1 = k /\ Len(u) + 1 = j BY <1>1, <1>2, <2>1
    <3> QED BY <1>3, <1>7, <3>1
  <2>2. CASE j # k - a + 1
    <3>1. j \in 1 .. k - a BY <1>1, <2>2
    <3> QED BY <1>2, <1>3, <1>6, <3>1
  <2> QED BY <2>1, <2>2
<1>9. l = v
  <2>1. Len(l) = Len(v) /\ DOMAIN l = 1 .. k - a + 1 /\ DOMAIN v = 1 .. k - a + 1 BY <1>1, <1>2, <1>3, <1>5
  <2> QED BY <1>3, <1>5, <1>8, <2>1
<1> QED BY <1>9 DEF l, v, u, one

SingleText(lx, s, i, k) == IF lx.rawQuotes THEN SubSeq(s, i, k) ELSE SubSeq(s, i + 1, k)

\* Between single quotes every character stays.
LEMMA SingleRun ==
    ASSUME NEW lx, NEW s, NEW ms, NEW V, Lexing(lx, s, ms, V), NEW i \in 1 .. Len(s), ms[i] = "plain", s[i] = SingleQuote,
           NEW j \in i + 1 .. Len(s) + 1, Closes(s, i, j)
    PROVE  /\ ms[j] = "single" /\ Adds(V[i - 1], V[j - 1], SingleText(lx, s, i, j - 1))
           /\ SingleText(lx, s, i, j - 1) \in Seq(Chars)
<1> DEFINE n == Len(s)
           Inner(k) == SingleText(lx, s, i, k)
           IsSingle(k) == ms[k + 1] = "single" /\ Adds(V[i - 1], V[k], Inner(k))
           T == {d \in 0 .. j - 1 - i : IsSingle(i + d)}
<1>1. n \in Nat /\ i \in Nat /\ j \in Nat /\ s \in Texts BY LexingText DEF Lexing
<1>2. lx.escape \in {Backslash, Backtick} /\ lx.rawQuotes \in BOOLEAN BY DEF Lexing
<1>3. \A k \in 1 .. n : ms[k + 1] = NextMode(ms[k], s, k, lx.escape) BY DEF Lexing, IsModes
<1>4. \A k \in i .. n : Inner(k) \in Seq(Chars) BY <1>1 DEF SingleText, Texts
<1>5. SubSeq(s, i + 1, i) = <<>> /\ SubSeq(s, i, i) = <<s[i]>>
  <2>1. SubSeq(s, i + 1, i) = <<>> /\ SubSeq(s, i, i - 1) = <<>> BY <1>1 DEF Texts
  <2>2. SubSeq(s, i, i) = SubSeq(s, i, i - 1) \o <<s[i]>>
    <3>1. i \in 1 .. Len(s) + 1 /\ i <= i BY <1>1
    <3> QED BY <1>1, <3>1, SubTextNext
  <2> DEFINE one == <<s[i]>>
  <2>3. one \in Seq(Chars) BY <1>1 DEF Texts
  <2> HIDE DEF one
  <2>4. <<>> \o one = one BY <2>3
  <2> QED BY <2>1, <2>2, <2>4 DEF one
<1>6. IsSingle(i)
  <2>1. ms[i + 1] = "single" BY <1>2, <1>3, ModesNext
  <2>2. ~Breaks(s, ms, i) BY DEF Breaks, Space, SingleQuote
  <2>3. PieceOf(lx, s, ms, i) = Inner(i)
    <3>1. PieceOf(lx, s, ms, i) = IF lx.rawQuotes THEN <<s[i]>> ELSE <<>> BY <1>2, <2>1 DEF PieceOf, Remains, Quotes
    <3> QED BY <1>2, <1>5, <3>1 DEF SingleText
  <2>4. Adds(V[i - 1], V[i], PieceOf(lx, s, ms, i)) BY <2>2, PieceAdds
  <2> QED BY <2>1, <2>3, <2>4
<1>7. ASSUME NEW k \in i .. j - 2, IsSingle(k) PROVE IsSingle(k + 1)
  <2>1. k + 1 \in 1 .. n /\ k + 1 \in i + 1 .. j - 1 /\ (k + 1) - 1 = k /\ k \in i .. n /\ k + 1 \in i .. n BY <1>1
  <2>2. s[k + 1] # SingleQuote BY <2>1 DEF Closes
  <2>3. ms[(k + 1) + 1] = "single"
    <3>1. ms[(k + 1) + 1] = NextMode("single", s, k + 1, lx.escape) BY <1>3, <1>7, <2>1
    <3>2. NextMode("single", s, k + 1, lx.escape) = IF s[k + 1] = SingleQuote THEN "plain" ELSE "single"
      BY <1>2, ModesNext
    <3> QED BY <2>2, <3>1, <3>2
  <2>4. ~Breaks(s, ms, k + 1) BY <1>7 DEF Breaks
  <2> DEFINE piece == PieceOf(lx, s, ms, k + 1)
  <2>5. Adds(V[(k + 1) - 1], V[k + 1], piece) /\ piece \in Seq(Chars) BY <2>1, <2>4, PieceAdds
  <2>6. piece = <<s[k + 1]>> BY <1>7, <2>3 DEF PieceOf, Remains
  <2>7. V[i - 1] \in Marks /\ V[k] \in Marks /\ V[k + 1] \in Marks
    <3>1. i \in 1 .. n + 1 /\ k \in 1 .. n BY <1>1, <2>1
    <3> QED BY <2>1, <3>1, LexingText
  <2> HIDE DEF piece
  <2>8. Inner(k) \o piece = Inner(k + 1)
    <3>1. ASSUME NEW a \in {i, i + 1} PROVE SubSeq(s, a, k + 1) = SubSeq(s, a, k) \o piece
      <4>1. a \in 1 .. Len(s) + 1 /\ a <= k + 1 BY <1>1, <2>1
      <4> DEFINE m == k + 1
      <4>2. m \in 1 .. Len(s) /\ a <= m /\ m - 1 = k BY <2>1, <4>1
      <4> HIDE DEF m
      <4>3. SubSeq(s, a, m) = SubSeq(s, a, m - 1) \o <<s[m]>> BY <1>1, <4>1, <4>2, SubTextNext
      <4> QED BY <2>6, <4>2, <4>3 DEF m
    <3> QED BY <1>2, <3>1 DEF SingleText
  <2>9. Inner(k) \in Seq(Chars) BY <1>4, <2>1
  <2> HIDE DEF Inner
  <2>10. Adds(V[i - 1], V[k + 1], Inner(k) \o piece)
    <3>1. Adds(V[k], V[k + 1], piece) BY <2>1, <2>5
    <3> QED BY <1>7, <2>5, <2>7, <2>9, <3>1, AddsTwo
  <2> QED BY <2>3, <2>8, <2>10
<1> HIDE DEF IsSingle, Inner
<1>8. 0 \in T BY <1>1, <1>6
<1>9. ASSUME NEW d \in 1 .. j - 1 - i, d - 1 \in T PROVE d \in T
  <2>1. i + (d - 1) \in i .. j - 2 /\ (i + (d - 1)) + 1 = i + d /\ d \in 0 .. j - 1 - i BY <1>1
  <2>2. IsSingle((i + (d - 1)) + 1) BY <1>7, <1>9, <2>1
  <2> QED BY <2>1, <2>2
<1> HIDE DEF T
<1>10. IsSingle(j - 1)
  <2>1. j - 1 - i \in Nat /\ i + (j - 1 - i) = j - 1 BY <1>1
  <2>2. 0 .. j - 1 - i \subseteq T BY <1>8, <1>9, <2>1, SetInduction
  <2>3. j - 1 - i \in T BY <2>1, <2>2
  <2> QED BY <2>1, <2>3 DEF T
<1>11. (j - 1) + 1 = j /\ j - 1 \in i .. n BY <1>1
<1> QED BY <1>4, <1>10, <1>11 DEF IsSingle, Inner

\* The parts that are read: texts, and single characters, which may split.
Parts == {PartOf(text, FALSE) : text \in Seq(Chars)} \cup {PartOf(<<c>>, TRUE) : c \in Chars}

\* What is read outside of quotes goes on to the end.
Outside(s, ms, j) == ms[j] = "plain" \/ (j = Len(s) + 1 /\ ms[j] = "escaped")
ReadPlain(g, s, ms, V, i) ==
    LET r == g[<<i, EOF>>]
    IN  /\ r.ok => /\ ms[Len(s) + 1] \in {"plain", "escaped"}
                   /\ r.text \in Seq(Chars) /\ V[Len(s)].text = V[i - 1].text \o r.text
                   /\ r.parts \in Seq(Parts) /\ Folded(r.parts, V[i - 1], V[Len(s)])
        /\ ~r.ok => ms[Len(s) + 1] \notin {"plain", "escaped"}

LEMMA Behind ==
    ASSUME NEW x \in Seq(Chars), NEW y \in Seq(Chars), NEW z \in Seq(Chars)
    PROVE  (x \o y) \o z = x \o (y \o z)
  OBVIOUS

LEMMA PlainGoesOn ==
    ASSUME NEW lx, NEW s, NEW ms, NEW V, Lexing(lx, s, ms, V), NEW g, NEW i \in 1 .. Len(s), NEW j \in i + 1 .. Len(s) + 1,
           NEW text \in Seq(Chars), NEW splits, PartOf(text, splits) \in Parts,
           IsReading(g[<<j, EOF>>], j, Len(s)), ReadPlain(g, s, ms, V, j),
           V[j - 1].text = V[i - 1].text \o text, Carries(text, splits, V[i - 1], V[j - 1]),
           g[<<i, EOF>>] = InFront(text, text, splits, g[<<j, EOF>>])
    PROVE  ReadPlain(g, s, ms, V, i)
<1> DEFINE r == g[<<i, EOF>>]
           rest == g[<<j, EOF>>]
           n == Len(s)
<1>1. n \in Nat BY LexingText
<1>2. r = InFront(text, text, splits, rest) OBVIOUS
<1>3. IsReading(rest, j, n) OBVIOUS
<1>4. /\ rest.ok => /\ ms[n + 1] \in {"plain", "escaped"}
                    /\ rest.text \in Seq(Chars) /\ V[n].text = V[j - 1].text \o rest.text
                    /\ rest.parts \in Seq(Parts) /\ Folded(rest.parts, V[j - 1], V[n])
      /\ ~rest.ok => ms[n + 1] \notin {"plain", "escaped"}
  BY DEF ReadPlain
<1> HIDE DEF r, rest
<1>5. CASE ~rest.ok
  <2>1. r = Failure BY <1>2, <1>5 DEF InFront
  <2>2. r.ok = FALSE BY <2>1 DEF Failure
  <2> QED BY <1>4, <1>5, <2>2 DEF ReadPlain, r
<1>6. CASE rest.ok
  <2> DEFINE more == rest.text
             parts == rest.parts
  <2>1. IsRead(rest, more, parts, rest.next) BY <1>3, <1>6 DEF IsReading, IsRead
  <2>2. IsRead(r, text \o more, <<PartOf(text, splits)>> \o parts, rest.next)
    <3> HIDE DEF more, parts
    <3> QED BY <1>2, <2>1, TextInFront
  <2>3. r.ok = TRUE /\ r.text = text \o more /\ r.parts = <<PartOf(text, splits)>> \o parts BY <2>2 DEF IsRead
  <2>4. /\ ms[n + 1] \in {"plain", "escaped"} /\ more \in Seq(Chars) /\ V[n].text = V[j - 1].text \o more
        /\ parts \in Seq(Parts) /\ Folded(parts, V[j - 1], V[n])
    BY <1>4, <1>6
  <2> HIDE DEF more, parts
  <2>5. V[i - 1] \in Marks
    <3>1. i \in 1 .. n + 1 BY <1>1
    <3> QED BY <3>1, LexingText
  <2>6. V[n].text = V[i - 1].text \o (text \o more)
    <3>1. V[i - 1].text \in Seq(Chars) BY <2>5 DEF Marks
    <3>3. V[n].text = (V[i - 1].text \o text) \o more BY <2>4
    <3>4. (V[i - 1].text \o text) \o more = V[i - 1].text \o (text \o more) BY <2>4, <3>1, Behind
    <3> QED BY <3>3, <3>4
  <2>7. text \o more \in Seq(Chars) BY <2>4
  <2> DEFINE part == PartOf(text, splits)
  <2>8. <<part>> \o parts \in Seq(Parts) /\ Folded(<<part>> \o parts, V[i - 1], V[n])
    <3>1. Sequence(parts) BY <2>4, SequenceFrom
    <3>2. Folded(<<part>> \o parts, V[i - 1], V[n]) BY <2>4, <3>1, FoldedFront
    <3> HIDE DEF part
    <3>3. part \in Parts BY DEF part
    <3>4. <<part>> \o parts \in Seq(Parts) BY <2>4, <3>3
    <3> QED BY <3>2, <3>4
  <2> QED BY <2>3, <2>4, <2>6, <2>7, <2>8 DEF ReadPlain, r, n
<1> QED BY <1>5, <1>6

\* the same of a text that is added in one word
LEMMA PlainAdds ==
    ASSUME NEW lx, NEW s, NEW ms, NEW V, Lexing(lx, s, ms, V), NEW g, NEW i \in 1 .. Len(s), NEW j \in i + 1 .. Len(s) + 1,
           NEW text \in Seq(Chars),
           IsReading(g[<<j, EOF>>], j, Len(s)), ReadPlain(g, s, ms, V, j), Adds(V[i - 1], V[j - 1], text),
           g[<<i, EOF>>] = InFront(text, text, FALSE, g[<<j, EOF>>])
    PROVE  ReadPlain(g, s, ms, V, i)
<1>1. V[i - 1] \in Marks
  <2>1. i \in 1 .. Len(s) + 1 BY LexingText
  <2> QED BY <2>1, LexingText
<1>2. Carries(text, FALSE, V[i - 1], V[j - 1]) BY <1>1, AddsCarries
<1>3. V[j - 1].text = V[i - 1].text \o text BY DEF Adds
<1>4. PartOf(text, FALSE) \in Parts BY DEF Parts
<1> QED BY <1>2, <1>3, <1>4, PlainGoesOn

LEMMA PlainStep ==
    ASSUME NEW lx, NEW e, NEW s, NEW ms, NEW V, Lexing(lx, s, ms, V), NEW i \in 1 .. Len(s), ms[i] = "plain",
           \A j \in i + 1 .. Len(s) + 1 : Outside(s, ms, j) => ReadPlain(StopOn(lx, e, s), s, ms, V, j)
    PROVE  ReadPlain(StopOn(lx, e, s), s, ms, V, i)
<1> DEFINE g == StopOn(lx, e, s)
           n == Len(s)
           c == s[i]
           r == g[<<i, EOF>>]
           piece == PieceOf(lx, s, ms, i)
<1>1. n \in Nat /\ i \in Int /\ i \in 1 .. n + 1 /\ i + 1 \in i + 1 .. n + 1 /\ i + 1 \in 1 .. n + 1 BY LexingText
<1>2. c \in Chars /\ c # EOF /\ c # "$" /\ At(s, i) = c BY <1>1, LexingText DEF At
<1>3. lx.escape \in {Backslash, Backtick} /\ lx.rawEscapes = FALSE /\ lx.rawQuotes \in BOOLEAN BY DEF Lexing
<1>4. ms[i + 1] = IF c = SingleQuote THEN "single" ELSE IF c = DoubleQuote THEN "double"
                  ELSE IF c = lx.escape THEN "escaped" ELSE "plain"
  <2>1. ms[i + 1] = NextMode("plain", s, i, lx.escape) BY DEF Lexing, IsModes
  <2> QED BY <1>3, <2>1, ModesNext
<1>5. \A j \in 1 .. n + 1 : \A t \in {EOF, DoubleQuote} :
        g[<<j, t>>] = Lexed(g, lx, e, s, j, t) /\ IsReading(g[<<j, t>>], j, n)
  BY LexingReads
<1>6. EOF \in Stops /\ EOF # DoubleQuote BY DEF Stops, DoubleQuote, EOF
<1>7. Sequence(s) BY LexingText
<1>8. c # Space => Adds(V[i - 1], V[i], piece) /\ piece \in Seq(Chars)
  <2>1. c # Space => ~Breaks(s, ms, i) BY DEF Breaks
  <2> QED BY <2>1, PieceAdds
<1> SUFFICES ReadPlain(g, s, ms, V, i)
  OBVIOUS
<1>9. \A j \in i + 1 .. n + 1 : Outside(s, ms, j) => ReadPlain(g, s, ms, V, j) OBVIOUS
<1> HIDE DEF g, n, r, c
<1>10. r = Lexed(g, lx, e, s, i, EOF) BY <1>1, <1>5 DEF r
<1>11. (i + 1) - 1 = i BY <1>1
<1>12. r = Failure /\ ms[n + 1] \notin {"plain", "escaped"} => ReadPlain(g, s, ms, V, i)
  <2>1. Failure.ok = FALSE BY DEF Failure
  <2> QED BY <2>1 DEF ReadPlain, r, n
\* a text that is added in one word
<1>13. ASSUME NEW j \in i + 1 .. n + 1, Outside(s, ms, j), NEW text \in Seq(Chars), Adds(V[i - 1], V[j - 1], text),
              r = InFront(text, text, FALSE, g[<<j, EOF>>])
       PROVE  ReadPlain(g, s, ms, V, i)
  <2>1. j \in i + 1 .. Len(s) + 1 BY DEF n
  <2>2. ReadPlain(g, s, ms, V, j) BY <1>9, <1>13
  <2>3. j \in 1 .. n + 1 BY <1>1
  <2>4. IsReading(g[<<j, EOF>>], j, Len(s)) BY <1>5, <2>3 DEF n
  <2>5. g[<<i, EOF>>] = InFront(text, text, FALSE, g[<<j, EOF>>]) BY <1>13 DEF r
  <2> QED BY <1>13, <2>1, <2>2, <2>4, <2>5, PlainAdds
<1>14. CASE c = SingleQuote
  <2>1. s[i] = SingleQuote BY <1>14 DEF c
  <2>2. PICK j \in i + 1 .. n + 1 : Closes(s, i, j) /\ r = Closed(g, lx, s, i, j, EOF)
    BY <1>6, <1>7, <1>10, <2>1, LexedSingle DEF n
  <2>3. j \in i + 1 .. Len(s) + 1 /\ Closes(s, i, j) BY <2>2 DEF n
  <2>4. /\ ms[j] = "single" /\ Adds(V[i - 1], V[j - 1], SingleText(lx, s, i, j - 1))
        /\ SingleText(lx, s, i, j - 1) \in Seq(Chars)
    BY <2>1, <2>3, SingleRun
  <2>5. CASE j > n
    <3>1. r = Failure BY <2>2, <2>5 DEF Closed, n
    <3>2. j = n + 1 BY <1>1, <2>2, <2>5
    <3> QED BY <1>12, <2>4, <3>1, <3>2
  <2>6. CASE ~(j > n)
    <3>1. j \in 1 .. n /\ s[j] = SingleQuote /\ j \in i + 1 .. n BY <1>1, <2>2, <2>6 DEF Closes, n
    <3> DEFINE text == IF lx.rawQuotes THEN SubSeq(s, i, j) ELSE SubSeq(s, i + 1, j - 1)
               last == PieceOf(lx, s, ms, j)
               before == SingleText(lx, s, i, j - 1)
    <3>2. r = InFront(text, text, FALSE, g[<<j + 1, EOF>>]) BY <2>2, <2>6 DEF Closed, n
    <3>3. ms[j + 1] = "plain"
      <4>1. ms[j + 1] = NextMode("single", s, j, lx.escape) BY <2>4, <3>1 DEF Lexing, IsModes, n
      <4>2. NextMode("single", s, j, lx.escape) = IF s[j] = SingleQuote THEN "plain" ELSE "single" BY <1>3, ModesNext
      <4> QED BY <3>1, <4>1, <4>2
    <3>4. Adds(V[j - 1], V[j], last) /\ last \in Seq(Chars)
      <4>1. ~Breaks(s, ms, j) BY <2>4 DEF Breaks
      <4> QED BY <3>1, <4>1, PieceAdds DEF n
    <3>5. last = IF lx.rawQuotes THEN <<s[j]>> ELSE <<>> BY <1>3, <2>4, <3>1, <3>3 DEF PieceOf, Remains, Quotes
    <3>6. V[i - 1] \in Marks /\ V[j - 1] \in Marks /\ V[j] \in Marks
      <4>1. j \in 1 .. n + 1 BY <1>1, <3>1
      <4> QED BY <1>1, <3>1, <4>1, LexingText DEF n
    <3>7. before \o last = text
      <4>1. CASE lx.rawQuotes
        <5>1. s \in Texts /\ i \in 1 .. Len(s) + 1 /\ j \in 1 .. Len(s) /\ i <= j BY <1>1, <3>1 DEF Lexing, n
        <5>2. SubSeq(s, i, j) = SubSeq(s, i, j - 1) \o <<s[j]>> BY <5>1, SubTextNext
        <5> QED BY <3>5, <4>1, <5>2 DEF SingleText
      <4>2. CASE ~lx.rawQuotes
        <5>1. last = <<>> /\ before = text BY <3>5, <4>2 DEF SingleText
        <5> HIDE DEF before, text, last
        <5>2. before \o <<>> = before BY <2>4 DEF before
        <5> QED BY <5>1, <5>2
      <4> QED BY <4>1, <4>2
    <3> HIDE DEF text, last, before
    <3>8. Adds(V[i - 1], V[j], before \o last)
      <4>1. Adds(V[i - 1], V[j - 1], before) /\ before \in Seq(Chars) BY <2>4 DEF before
      <4> QED BY <3>4, <3>6, <4>1, AddsTwo
    <3>9. text \in Seq(Chars)
      <4>1. before \in Seq(Chars) BY <2>4 DEF before
      <4>2. before \o last \in Seq(Chars) BY <3>4, <4>1
      <4> QED BY <3>7, <4>2
    <3>10. j + 1 \in i + 1 .. n + 1 /\ (j + 1) - 1 = j BY <1>1, <3>1
    <3>11. Outside(s, ms, j + 1) BY <3>3 DEF Outside
    <3>12. Adds(V[i - 1], V[(j + 1) - 1], text) BY <3>7, <3>8, <3>10
    <3> QED BY <1>13, <3>2, <3>9, <3>10, <3>11, <3>12
  <2> QED BY <2>5, <2>6
<1>15. CASE c = DoubleQuote
  <2> DEFINE inner == g[<<i + 1, DoubleQuote>>]
             quote == IF lx.rawQuotes THEN <<DoubleQuote>> ELSE <<>>
             text == quote \o inner.text
  <2>1. ms[i + 1] = "double" BY <1>4, <1>15 DEF SingleQuote, DoubleQuote
  <2>2. ReadInside(g, s, ms, V, i + 1)
    <3>1. i + 1 \in 1 .. Len(s) + 1 BY <1>1 DEF n
    <3> QED BY <2>1, <3>1, InsideRead DEF g
  <2>3. IsReading(inner, i + 1, n) BY <1>1, <1>5
  <2>4. r = Quoted(g, lx, inner, EOF)
    <3>1. At(s, i) = DoubleQuote BY <1>2, <1>15
    <3>2. DOMAIN inner = ReadFields BY <2>3 DEF IsReading
    <3> QED BY <1>1, <1>6, <1>10, <3>1, <3>2, LexedDouble
  <2>5. /\ inner.ok => /\ inner.next \in i + 1 + 1 .. n + 1 /\ ms[inner.next] = "plain"
                       /\ inner.text \in Seq(Chars) /\ Adds(V[(i + 1) - 1], V[inner.next - 1], inner.text)
        /\ ~inner.ok => ms[n + 1] \notin {"plain", "escaped"}
    BY <2>2 DEF ReadInside, n
  <2> HIDE DEF inner
  <2>6. CASE ~inner.ok
    <3>1. r = Failure BY <2>4, <2>6 DEF Quoted
    <3> QED BY <1>12, <2>5, <2>6, <3>1
  <2>7. CASE inner.ok
    <3> DEFINE to == inner.next
               more == inner.text
    <3>1. r = InFront(text, text, FALSE, g[<<to, EOF>>]) BY <2>4, <2>7 DEF Quoted
    <3>2. to \in i + 1 + 1 .. n + 1 /\ ms[to] = "plain" /\ more \in Seq(Chars) /\ Adds(V[(i + 1) - 1], V[to - 1], more)
      BY <2>5, <2>7
    <3> HIDE DEF to
    <3>3. to \in i + 1 .. n + 1 /\ to \in 1 .. n + 1 BY <1>1, <3>2
    <3>4. piece = quote
      <4>1. s[i] = DoubleQuote BY <1>15 DEF c
      <4> QED BY <1>3, <2>1, <4>1 DEF PieceOf, Remains, Quotes
    <3>5. c # Space BY <1>15 DEF Space, DoubleQuote
    <3>6. Adds(V[i - 1], V[i], quote) /\ quote \in Seq(Chars) BY <1>8, <3>4, <3>5
    <3>7. V[i - 1] \in Marks /\ V[i] \in Marks /\ V[to - 1] \in Marks
      <4>1. i \in 1 .. n BY DEF n
      <4> QED BY <1>1, <3>3, <4>1, LexingText DEF n
    <3> HIDE DEF quote, more, text
    <3>8. Adds(V[i], V[to - 1], more) BY <1>11, <3>2
    <3>9. Adds(V[i - 1], V[to - 1], quote \o more) BY <3>2, <3>6, <3>7, <3>8, AddsTwo
    <3>10. quote \o more \in Seq(Chars) BY <3>2, <3>6
    <3>11. text = quote \o more BY DEF text, more
    <3>12. Outside(s, ms, to) BY <3>2 DEF Outside
    <3> QED BY <1>13, <3>1, <3>3, <3>9, <3>10, <3>11, <3>12
  <2> QED BY <2>6, <2>7
<1>16. CASE c = lx.escape
  <2> DEFINE d == At(s, i + 1)
             esc == EscapedText(lx, s, i, EOF)
             word == EscapedWord(lx, s, i, EOF)
             to == IF Escapes(lx, s, i, EOF) THEN i + 2 ELSE i + 1
  <2>1. r = InFront(esc, word, FALSE, g[<<to, EOF>>])
    <3>1. At(s, i) = lx.escape BY <1>2, <1>16
    <3>2. \A t \in Stops :
            Lexed(g, lx, e, s, i, t) =
              InFront(EscapedText(lx, s, i, t), EscapedWord(lx, s, i, t), FALSE,
                      g[<<IF Escapes(lx, s, i, t) THEN i + 2 ELSE i + 1, t>>])
      BY <1>1, <1>3, <3>1, LexedEscape
    <3> QED BY <1>6, <1>10, <3>2
  <2>2. c # DoubleQuote /\ c # SingleQuote /\ c # Space
    BY <1>3, <1>16 DEF Backslash, Backtick, DoubleQuote, SingleQuote, Space
  <2>3. Escapes(lx, s, i, EOF) <=> d # EOF BY <1>6 DEF Escapes
  <2>4. ms[i + 1] = "escaped" BY <1>4, <1>16, <2>2
  <2>5. piece = <<>>
    <3>1. s[i] \notin Quotes BY <2>2 DEF c, Quotes
    <3> QED BY <2>4, <3>1 DEF PieceOf, Remains
  <2>6. Adds(V[i - 1], V[i], <<>>) BY <1>8, <2>2, <2>5
  <2>7. CASE Escapes(lx, s, i, EOF)
    <3> DEFINE second == PieceOf(lx, s, ms, i + 1)
    <3>1. i + 1 \in 1 .. n /\ d = s[i + 1] BY <1>1, <2>3, <2>7 DEF At, n
    <3>2. esc = <<d>> /\ word = <<d>> /\ to = i + 2
      <4>1. <<>> \o <<d>> = <<d>>
        <5> DEFINE one == <<d>>
        <5>1. one \in Seq({d}) OBVIOUS
        <5> HIDE DEF one
        <5>2. <<>> \o one = one BY <5>1
        <5> QED BY <5>2 DEF one
      <4> QED BY <1>3, <1>6, <2>7, <4>1 DEF EscapedText, EscapedWord
    <3>3. ms[i + 2] = "plain"
      <4>1. ms[(i + 1) + 1] = NextMode("escaped", s, i + 1, lx.escape) BY <2>4, <3>1 DEF Lexing, IsModes, n
      <4>2. NextMode("escaped", s, i + 1, lx.escape) = "plain" BY <1>3, ModesNext
      <4>3. (i + 1) + 1 = i + 2 BY <1>1
      <4> QED BY <4>1, <4>2, <4>3
    <3>4. ~Breaks(s, ms, i + 1) BY <2>4 DEF Breaks
    <3>5. Adds(V[(i + 1) - 1], V[i + 1], second) /\ second \in Seq(Chars) BY <3>1, <3>4, PieceAdds DEF n
    <3>6. second = <<d>> BY <2>4, <3>1 DEF PieceOf, Remains
    <3>7. i + 2 \in i + 1 .. n + 1 /\ (i + 2) - 1 = i + 1 BY <1>1, <3>1
    <3>8. V[i - 1] \in Marks /\ V[i] \in Marks /\ V[i + 1] \in Marks
      <4>1. i \in 1 .. n BY DEF n
      <4> QED BY <1>1, <3>1, <4>1, LexingText DEF n
    <3>9. r = InFront(second, second, FALSE, g[<<i + 2, EOF>>])
      <4> HIDE DEF esc, word, to
      <4> QED BY <2>1, <3>2, <3>6
    <3> HIDE DEF second
    <3>10. Adds(V[i - 1], V[(i + 2) - 1], second)
      <4>1. Adds(V[i], V[i + 1], second) /\ <<>> \in Seq(Chars) BY <1>11, <3>5
      <4>2. Adds(V[i - 1], V[i + 1], <<>> \o second) BY <2>6, <3>5, <3>8, <4>1, AddsTwo
      <4>3. <<>> \o second = second BY <3>5
      <4> QED BY <3>7, <4>2, <4>3
    <3>11. Outside(s, ms, i + 2) BY <3>3 DEF Outside
    <3> QED BY <1>13, <3>5, <3>7, <3>9, <3>10, <3>11
  <2>8. CASE ~Escapes(lx, s, i, EOF)
    <3> DEFINE none == <<>>
    <3>1. i = n
      <4>1. d = EOF BY <2>3, <2>8
      <4>2. i + 1 <= n => d \in Chars
        <5>1. i + 1 <= n => i + 1 \in 1 .. n /\ d = s[i + 1] BY <1>1 DEF At, n
        <5> QED BY <5>1, LexingText DEF n
      <4> QED BY <1>1, <4>1, <4>2, CharFacts DEF n
    <3>2. esc = none /\ word = none /\ to = i + 1
      <4>1. <<>> \o <<>> = <<>> OBVIOUS
      <4> QED BY <1>3, <1>6, <2>8, <4>1 DEF EscapedText, EscapedWord
    <3>3. Outside(s, ms, i + 1) BY <2>4, <3>1 DEF Outside, n
    <3>4. none \in Seq(Chars) /\ Adds(V[i - 1], V[(i + 1) - 1], none) BY <1>11, <2>6
    <3>5. r = InFront(none, none, FALSE, g[<<i + 1, EOF>>])
      <4> HIDE DEF esc, word, to, none
      <4> QED BY <2>1, <3>2
    <3> HIDE DEF none
    <3> QED BY <1>1, <1>13, <3>3, <3>4, <3>5
  <2> QED BY <2>7, <2>8
<1>17. CASE c \notin {SingleQuote, DoubleQuote, lx.escape}
  <2> DEFINE one == <<c>>
  <2>1. r = InFront(one, one, TRUE, g[<<i + 1, EOF>>])
    <3>1. At(s, i) \notin {EOF, EOF, "$", DoubleQuote, lx.escape} /\ At(s, i) # SingleQuote BY <1>2, <1>17
    <3>2. Lexed(g, lx, e, s, i, EOF) = OneChar(g, At(s, i), i, EOF) BY <1>1, <3>1, LexedOther
    <3> QED BY <1>2, <1>10, <3>2 DEF OneChar
  <2>2. ms[i + 1] = "plain" BY <1>4, <1>17
  <2>3. Carries(one, TRUE, V[i - 1], V[i]) /\ V[i].text = V[i - 1].text \o one
    <3>0. CharMoves(s, V, i) BY <2>2, CharCarries
    <3>1. Carries(<<s[i]>>, TRUE, V[i - 1], V[i]) BY <3>0 DEF CharMoves
    <3>2. V[i].text = V[i - 1].text \o <<s[i]>> BY <3>0 DEF CharMoves
    <3>3. one = <<s[i]>> BY DEF c
    <3> HIDE DEF one
    <3> QED BY <3>1, <3>2, <3>3
  <2>4. one \in Seq(Chars) /\ PartOf(one, TRUE) \in Parts
    <3>1. c \in Chars BY <1>2
    <3>2. PartOf(<<c>>, TRUE) \in {PartOf(<<b>>, TRUE) : b \in Chars} BY <3>1
    <3>3. PartOf(one, TRUE) \in Parts BY <3>2 DEF Parts
    <3>4. one \in Seq(Chars) BY <3>1
    <3> QED BY <3>3, <3>4
  <2>5. i + 1 \in i + 1 .. Len(s) + 1 /\ IsReading(g[<<i + 1, EOF>>], i + 1, Len(s)) BY <1>1, <1>5 DEF n
  <2>6. ReadPlain(g, s, ms, V, i + 1) BY <1>1, <1>9, <2>2 DEF Outside
  <2> HIDE DEF one
  <2>7. V[(i + 1) - 1].text = V[i - 1].text \o one /\ Carries(one, TRUE, V[i - 1], V[(i + 1) - 1]) BY <1>11, <2>3
  <2>8. g[<<i, EOF>>] = InFront(one, one, TRUE, g[<<i + 1, EOF>>]) BY <2>1 DEF r
  <2> QED BY <2>4, <2>5, <2>6, <2>7, <2>8, PlainGoesOn
<1> QED BY <1>14, <1>15, <1>16, <1>17 DEF g

LEMMA PlainRead ==
    ASSUME NEW lx, NEW e, NEW s, NEW ms, NEW V, Lexing(lx, s, ms, V), NEW i \in 1 .. Len(s) + 1, Outside(s, ms, i)
    PROVE  ReadPlain(StopOn(lx, e, s), s, ms, V, i)
<1> DEFINE g == StopOn(lx, e, s)
           n == Len(s)
           T == {k \in 0 .. n : \A j \in n + 1 - k .. n + 1 : Outside(s, ms, j) => ReadPlain(g, s, ms, V, j)}
<1>1. n \in Nat BY LexingText
<1>2. 0 \in T
  <2> DEFINE r == g[<<n + 1, EOF>>]
  <2>1. At(s, n + 1) = EOF /\ n + 1 \in 1 .. n + 1 /\ n + 1 \in Int /\ (n + 1) - 1 = n BY <1>1 DEF At
  <2>2. r = Lexed(g, lx, e, s, n + 1, EOF) BY <2>1, LexingReads
  <2>3. V[n] \in Marks
    <3>1. V[(n + 1) - 1] \in Marks BY <2>1, LexingText
    <3> QED BY <2>1, <3>1
  <2> HIDE DEF g, r
  <2>4. r = Read(<<>>, n + 1) BY <2>1, <2>2, LexedEnd
  <2>5. r.ok = TRUE /\ r.text = <<>> /\ r.parts = <<>> BY <2>4 DEF Read
  <2>6. V[n].text = V[n].text \o <<>>
    <3>1. V[n].text \in Seq(Chars) BY <2>3 DEF Marks
    <3> DEFINE x == V[n].text
    <3> HIDE DEF x
    <3>2. x \in Seq(Chars) => x \o <<>> = x OBVIOUS
    <3> QED BY <3>1, <3>2 DEF x
  <2>7. <<>> \in Seq(Chars) /\ <<>> \in Seq(Parts) OBVIOUS
  <2>8. Outside(s, ms, n + 1) => ms[n + 1] \in {"plain", "escaped"} BY DEF Outside
  <2>9. Outside(s, ms, n + 1) => ReadPlain(g, s, ms, V, n + 1)
    BY <2>1, <2>5, <2>6, <2>7, <2>8, FoldedNone DEF ReadPlain, r
  <2> HIDE DEF n
  <2>10. \A j \in n + 1 - 0 .. n + 1 : j = n + 1 BY <1>1
  <2> QED BY <1>1, <2>9, <2>10
<1>3. ASSUME NEW k \in 1 .. n, k - 1 \in T PROVE k \in T
  <2> DEFINE m == n + 1 - k
  <2>1. m \in 1 .. Len(s) /\ n + 1 - (k - 1) = m + 1 /\ k \in 0 .. n /\ m # Len(s) + 1 BY <1>1
  <2>2. \A j \in m + 1 .. Len(s) + 1 : Outside(s, ms, j) => ReadPlain(g, s, ms, V, j) BY <1>3, <2>1
  <2> HIDE DEF m
  <2>3. Outside(s, ms, m) => ReadPlain(g, s, ms, V, m)
    <3>1. Outside(s, ms, m) => ms[m] = "plain" BY <2>1 DEF Outside
    <3> QED BY <2>1, <2>2, <3>1, PlainStep
  <2>4. \A j \in m .. n + 1 : j = m \/ j \in m + 1 .. Len(s) + 1 BY <1>1, <2>1
  <2> HIDE DEF g, n
  <2>5. \A j \in m .. n + 1 : Outside(s, ms, j) => ReadPlain(g, s, ms, V, j) BY <2>2, <2>3, <2>4
  <2> QED BY <2>1, <2>5 DEF m
<1> HIDE DEF T, g
<1>4. n \in T
  <2>1. 0 .. n \subseteq T
    <3> HIDE DEF n
    <3> QED BY <1>1, <1>2, <1>3, SetInduction
  <2> QED BY <1>1, <2>1
<1>5. i \in n + 1 - n .. n + 1 BY <1>1
<1> QED BY <1>4, <1>5 DEF T, g

LEMMA PartTyped ==
    ASSUME NEW w \in Collecting, NEW part \in Parts
    PROVE  AddPart(w, part) \in Collecting
<1>1. w.word \in Seq(Chars) /\ w.words \in Seq(Seq(Chars)) BY DEF Collecting
<1>2. ASSUME NEW text \in Seq(Chars) PROVE [w EXCEPT !.word = @ \o text, !.inWord = TRUE] \in Collecting
  <2>1. w.word \o text \in Seq(Chars) BY <1>1
  <2> QED BY <2>1 DEF Collecting
<1>3. CASE \E text \in Seq(Chars) : part = PartOf(text, FALSE)
  <2>1. PICK text \in Seq(Chars) : part = PartOf(text, FALSE) BY <1>3
  <2>2. AddPart(w, part) = [w EXCEPT !.word = @ \o text, !.inWord = TRUE]
    BY <2>1 DEF AddPart, PartOf, AddRawString
  <2> QED BY <1>2, <2>2
<1>4. CASE \E c \in Chars : part = PartOf(<<c>>, TRUE)
  <2>1. PICK c \in Chars : part = PartOf(<<c>>, TRUE) BY <1>4
  <2>2. AddPart(w, part) = AddChar(w, c) BY <2>1, AddCharIs
  <2>3. CASE c # Space
    <3> DEFINE one == <<c>>
    <3>1. one \in Seq(Chars) BY <2>1
    <3>2. AddPart(w, part) = [w EXCEPT !.word = @ \o one, !.inWord = TRUE]
      BY <2>2, <2>3 DEF AddChar, AddRawString
    <3> HIDE DEF one
    <3> QED BY <1>2, <3>1, <3>2
  <2>4. [NoWords EXCEPT !.words = GetWords(w)] \in Collecting
    <3>1. Append(w.words, w.word) \in Seq(Seq(Chars)) /\ <<>> \in Seq(Chars) BY <1>1
    <3>2. GetWords(w) \in Seq(Seq(Chars)) BY <1>1, <3>1 DEF GetWords
    <3> QED BY <3>1, <3>2 DEF NoWords, Collecting
  <2>5. CASE c = Space BY <2>2, <2>4, <2>5 DEF AddChar
  <2> QED BY <2>3, <2>5
<1> QED BY <1>3, <1>4 DEF Parts

LEMMA PartsRun ==
    ASSUME NEW parts \in Seq(Parts)
    PROVE  \E h \in [0 .. Len(parts) -> Collecting] :
               /\ h[0] = NoWords
               /\ \A i \in 1 .. Len(parts) : h[i] = AddPart(h[i - 1], parts[i])
               /\ FoldLeft(AddPart, NoWords, parts) = h[Len(parts)]
<1> DEFINE n == Len(parts)
           X == Collecting
           F == [i \in 1 .. n |-> [w \in X |-> AddPart(w, parts[i])]]
           Folds(f) == f = [S \in SUBSET (DOMAIN parts) |->
                              IF S = {} THEN NoWords
                              ELSE AddPart(f[S \ {Max(S)}], parts[Max(S)])]
           it == CHOOSE f : Folds(f)
<1>1. n \in Nat /\ DOMAIN parts = 1 .. n /\ \A i \in 1 .. n : parts[i] \in Parts OBVIOUS
<1>2. FoldLeft(AddPart, NoWords, parts) = it[1 .. n]
  BY <1>1 DEF FoldLeft, MapThenFoldSet
<1>3. NoWords \in X
  <2>1. <<>> \in Seq(Chars) /\ <<>> \in Seq(Seq(Chars)) OBVIOUS
  <2> QED BY <2>1 DEF Collecting, NoWords
<1>4. F \in Steps(X, n)
  <2> HIDE DEF n
  <2> QED BY <1>1, PartTyped DEF Steps
<1>5. \A S \in SUBSET (1 .. n) : S # {} => Max(S) \in 1 .. n BY <1>1, MaxOf
<1>6. \E f : Folds(f)
  <2>1. PICK g \in [SUBSET (1 .. n) -> X] : Takes(g, n, F, NoWords)
    <3> HIDE DEF X, F, n
    <3> QED BY <1>1, <1>3, <1>4, SubsetRecursion
  <2>2. \A S \in SUBSET (1 .. n) : g[S \ {Max(S)}] \in X OBVIOUS
  <2>3. \A S \in SUBSET (1 .. n) : S # {} =>
          F[Max(S)][g[S \ {Max(S)}]] = AddPart(g[S \ {Max(S)}], parts[Max(S)])
    <3> HIDE DEF X, n
    <3> QED BY <1>5, <2>2
  <2>4. Folds(g)
    <3> HIDE DEF X, n, F
    <3> QED BY <1>1, <2>1, <2>3 DEF Takes
  <2> QED BY <2>4
<1>7. Folds(it) BY <1>6
<1>8. TakesIn(X, it, n, F, NoWords)
  <2>1. it[{}] = NoWords BY <1>7
  <2>2. \A S \in SUBSET (1 .. n) :
          S # {} /\ it[S \ {Max(S)}] \in X => it[S] = F[Max(S)][it[S \ {Max(S)}]]
    <3> HIDE DEF X, n, it
    <3> QED BY <1>1, <1>5, <1>7
  <2> HIDE DEF it, F, X
  <2> QED BY <2>1, <2>2 DEF TakesIn
<1>9. PICK h \in Runs(X, n, F, NoWords) : h[n] = it[1 .. n]
  <2> HIDE DEF X, n, F, it
  <2> QED BY <1>1, <1>3, <1>4, <1>8, FoldRuns
<1>10. h \in [0 .. n -> X] /\ h[0] = NoWords /\ \A i \in 1 .. n : h[i] = F[i][h[i - 1]]
  BY <1>9 DEF Runs
<1>11. \A i \in 1 .. n : h[i] = AddPart(h[i - 1], parts[i])
  <2>1. \A i \in 1 .. n : i - 1 \in 0 .. n BY <1>1
  <2> HIDE DEF X, n
  <2> QED BY <1>10, <2>1
<1> QED BY <1>2, <1>9, <1>10, <1>11

\* What the lexer makes of the text, by its marks.
LEMMA LexedByMarks ==
    ASSUME NEW lx, NEW e, NEW s, NEW ms, NEW V, Lexing(lx, s, ms, V)
    PROVE  LET read == Process(lx, e, s)
               last == V[Len(s)]
           IN  /\ read.ok = (ms[Len(s) + 1] \in {"plain", "escaped"})
               /\ (read.ok => read.text = last.text /\ read.words = WithWord(last.word, last.words))
<1> DEFINE n == Len(s)
           g == StopOn(lx, e, s)
           r == g[<<1, EOF>>]
           read == Process(lx, e, s)
           last == V[n]
           words == FoldLeft(AddPart, NoWords, r.parts)
<1>1. n \in Nat /\ 1 \in 1 .. n + 1 /\ 1 - 1 = 0 BY LexingText
<1>2. ms[1] = "plain" /\ V[0] = NoMarks BY DEF Lexing, IsModes, IsMarks
<1>3. ReadPlain(g, s, ms, V, 1) /\ IsReading(r, 1, n)
  <2>1. Outside(s, ms, 1) BY <1>2 DEF Outside
  <2>2. ReadPlain(g, s, ms, V, 1) BY <1>1, <2>1, PlainRead
  <2>3. IsReading(r, 1, n) BY <1>1, LexingReads
  <2> QED BY <2>2, <2>3
<1>4. read.ok = r.ok /\ read.text = r.text /\ read.words = IF r.ok THEN GetWords(words) ELSE <<>>
  BY DEF Process
<1>5. r.ok \in BOOLEAN BY <1>3 DEF IsReading
<1> SUFFICES /\ read.ok = (ms[n + 1] \in {"plain", "escaped"})
             /\ read.ok => read.text = last.text /\ read.words = WithWord(last.word, last.words)
  OBVIOUS
<1> HIDE DEF g, read
<1>6. /\ r.ok => /\ ms[n + 1] \in {"plain", "escaped"}
                 /\ r.text \in Seq(Chars) /\ last.text = V[1 - 1].text \o r.text
                 /\ r.parts \in Seq(Parts) /\ Folded(r.parts, V[1 - 1], last)
      /\ ~r.ok => ms[n + 1] \notin {"plain", "escaped"}
  BY <1>3 DEF ReadPlain
<1> HIDE DEF r, last, words
<1>7. r.ok = (ms[n + 1] \in {"plain", "escaped"})
  <2> DEFINE ends == ms[n + 1] \in {"plain", "escaped"}
             ok == r.ok
  <2>1. ok \in BOOLEAN /\ ends \in BOOLEAN BY <1>5
  <2>2. ok => ends BY <1>6
  <2>3. ~ok => ~ends BY <1>6
  <2> HIDE DEF ok, ends
  <2>4. ok = ends BY <2>1, <2>2, <2>3
  <2> QED BY <2>4 DEF ok, ends
<1>8. ASSUME r.ok PROVE r.text = last.text /\ GetWords(words) = WithWord(last.word, last.words)
  <2>1. r.text \in Seq(Chars) /\ last.text = NoMarks.text \o r.text BY <1>1, <1>2, <1>6, <1>8
  <2>2. r.text = last.text
    <3> DEFINE x == r.text
    <3> HIDE DEF x
    <3>1. x \in Seq(Chars) => <<>> \o x = x OBVIOUS
    <3> QED BY <2>1, <3>1 DEF x, NoMarks
  <2> DEFINE parts == r.parts
  <2>3. parts \in Seq(Parts) /\ Folded(parts, NoMarks, last) BY <1>1, <1>2, <1>6, <1>8
  <2> HIDE DEF parts
  <2>4. PICK h \in [0 .. Len(parts) -> Collecting] :
               /\ h[0] = NoWords
               /\ \A i \in 1 .. Len(parts) : h[i] = AddPart(h[i - 1], parts[i])
               /\ FoldLeft(AddPart, NoWords, parts) = h[Len(parts)]
    BY <2>3, PartsRun
  <2>5. Like(NoWords, NoMarks)
    <3>1. <<>> \in Seq(Chars) /\ <<>> \in Seq(Seq(Chars)) OBVIOUS
    <3> QED BY <3>1 DEF Like, NoWords, NoMarks, Collecting
  <2>6. Like(h[Len(parts)], last) BY <2>3, <2>4, <2>5 DEF Folded
  <2>7. words = h[Len(parts)] BY <2>4 DEF words, parts
  <2>8. GetWords(words) = WithWord(last.word, last.words) BY <2>6, <2>7 DEF Like, GetWords, WithWord
  <2> QED BY <2>2, <2>8
<1> QED BY <1>4, <1>7, <1>8

\* The characters that stay, and the words, as they are defined.
StaysAt(ms, i) == ms[i] \in {"escaped", "inner"} \/ ms[i + 1] = ms[i]
KeptPiece(s, ms, positions, i) == IF i \in positions /\ StaysAt(ms, i) THEN <<s[i]>> ELSE <<>>

LEMMA KeptRuns ==
    ASSUME NEW s \in Texts, NEW ms, NEW positions
    PROVE  \E h \in [0 .. Len(s) -> Seq(Chars)] :
               /\ h[0] = <<>> /\ Kept(s, ms, positions) = h[Len(s)]
               /\ \A i \in 1 .. Len(s) : h[i] = h[i - 1] \o KeptPiece(s, ms, positions, i)
<1> DEFINE seqs == [i \in DOMAIN s |-> KeptPiece(s, ms, positions, i)]
<1>1. Len(s) \in Nat /\ DOMAIN s = 1 .. Len(s) /\ \A i \in 1 .. Len(s) : s[i] \in Chars BY DEF Texts
<1>2. Kept(s, ms, positions) = FlattenSeq(seqs) BY DEF Kept, KeptPiece, StaysAt
<1>3. \A i \in DOMAIN s : KeptPiece(s, ms, positions, i) \in Seq(Chars) BY <1>1 DEF KeptPiece
<1>4. seqs \in Seq(Seq(Chars)) /\ Len(seqs) = Len(s) /\ \A i \in 1 .. Len(s) : seqs[i] = KeptPiece(s, ms, positions, i)
  BY <1>1, <1>3
<1> HIDE DEF seqs
<1>5. PICK h \in [0 .. Len(seqs) -> Seq(Chars)] : FlattensTo(seqs, h) BY <1>4, FlattenRuns
<1> QED BY <1>2, <1>4, <1>5 DEF FlattensTo

Moved(s, ms, V, i) ==
    LET piece == IF StaysAt(ms, i) THEN <<s[i]>> ELSE <<>>
    IN  /\ V[i].text = V[i - 1].text \o piece
        /\ V[i].word = (IF Breaks(s, ms, i) THEN <<>> ELSE V[i - 1].word \o piece)
        /\ V[i].words = IF Breaks(s, ms, i) THEN WithWord(V[i - 1].word, V[i - 1].words) ELSE V[i - 1].words

\* the lexer as it is used to expand words: it takes the quotes off
Lexes(lx, s, ms, V) == Lexing(lx, s, ms, V) /\ lx.rawQuotes = FALSE

LEMMA MarksOnward ==
    ASSUME NEW lx, NEW s, NEW ms, NEW V, Lexes(lx, s, ms, V)
    PROVE  /\ s \in Texts /\ Len(s) \in Nat /\ DOMAIN s = 1 .. Len(s) /\ V[0] = NoMarks
           /\ \A i \in 0 .. Len(s) : V[i].text \in Seq(Chars) /\ V[i].word \in Seq(Chars) /\ V[i].words \in Seq(Seq(Chars))
           /\ \A i \in 1 .. Len(s) : Moved(s, ms, V, i)
<1>1. Lexing(lx, s, ms, V) /\ lx.rawQuotes = FALSE BY DEF Lexes
<1>2. s \in Texts /\ V[0] = NoMarks /\ V \in [0 .. Len(s) -> Marks] BY <1>1 DEF Lexing, IsMarks
<1>3. Len(s) \in Nat /\ DOMAIN s = 1 .. Len(s) BY <1>2 DEF Texts
<1>4. \A i \in 0 .. Len(s) : V[i].text \in Seq(Chars) /\ V[i].word \in Seq(Chars) /\ V[i].words \in Seq(Seq(Chars))
  BY <1>2 DEF Marks
<1>5. ASSUME NEW i \in 1 .. Len(s)
      PROVE  Moved(s, ms, V, i)
  <2> DEFINE u == V[i - 1]
             v == V[i]
             piece == PieceOf(lx, s, ms, i)
  <2>1. v = Marked(u, lx, s, ms, i) BY <1>1, LexingText
  <2>2. piece = IF StaysAt(ms, i) THEN <<s[i]>> ELSE <<>> BY <1>1 DEF PieceOf, Remains, StaysAt
  <2> HIDE DEF u, v, piece
  <2>3. /\ v.text = u.text \o piece
        /\ v.word = (IF Breaks(s, ms, i) THEN <<>> ELSE u.word \o piece)
        /\ v.words = IF Breaks(s, ms, i) THEN WithWord(u.word, u.words) ELSE u.words
    BY <2>1 DEF Marked, piece
  <2> QED BY <2>2, <2>3 DEF u, v, Moved
<1> QED BY <1>2, <1>3, <1>4, <1>5

LEMMA KeptText ==
    ASSUME NEW lx, NEW s, NEW ms, NEW V, Lexes(lx, s, ms, V)
    PROVE  V[Len(s)].text = Kept(s, ms, DOMAIN s)
<1> DEFINE n == Len(s)
           Piece(i) == IF StaysAt(ms, i) THEN <<s[i]>> ELSE <<>>
<1>1. s \in Texts /\ n \in Nat /\ DOMAIN s = 1 .. n /\ V[0] = NoMarks BY MarksOnward
<1>2. \A i \in 1 .. n : V[i].text = V[i - 1].text \o Piece(i)
  <2>1. \A i \in 1 .. n : Moved(s, ms, V, i) BY MarksOnward
  <2> QED BY <2>1 DEF Moved
<1>3. PICK h \in [0 .. n -> Seq(Chars)] :
               /\ h[0] = <<>> /\ Kept(s, ms, DOMAIN s) = h[n]
               /\ \A i \in 1 .. n : h[i] = h[i - 1] \o KeptPiece(s, ms, DOMAIN s, i)
  BY <1>1, KeptRuns
<1>4. \A i \in 1 .. n : KeptPiece(s, ms, DOMAIN s, i) = Piece(i) BY <1>1 DEF KeptPiece
<1> HIDE DEF n, Piece
<1> DEFINE T == {i \in 0 .. n : h[i] = V[i].text}
<1>5. 0 \in T BY <1>1, <1>3 DEF NoMarks
<1>6. ASSUME NEW i \in 1 .. n, i - 1 \in T PROVE i \in T
  <2>1. i \in 0 .. n BY <1>1
  <2>2. h[i] = h[i - 1] \o Piece(i) /\ h[i - 1] = V[i - 1].text BY <1>3, <1>4, <1>6
  <2>3. V[i].text = V[i - 1].text \o Piece(i) BY <1>2
  <2> QED BY <2>1, <2>2, <2>3
<1> HIDE DEF T
<1>7. n \in T
  <2>1. 0 .. n \subseteq T BY <1>1, <1>5, <1>6, SetInduction
  <2> QED BY <1>1, <2>1
<1> QED BY <1>3, <1>7 DEF T, n

BreaksOf(s, ms) == {i \in DOMAIN s : s[i] = Space /\ ms[i] = "plain"}
SinceBreak(s, ms, end) == {i \in 1 .. end - 1 : (i .. end - 1) \cap BreaksOf(s, ms) = {}}

LEMMA KeptWord ==
    ASSUME NEW lx, NEW s, NEW ms, NEW V, Lexes(lx, s, ms, V), NEW end \in 1 .. Len(s) + 1
    PROVE  V[end - 1].word = Kept(s, ms, SinceBreak(s, ms, end))
<1> DEFINE n == Len(s)
           S == SinceBreak(s, ms, end)
           B == BreaksOf(s, ms)
           Piece(i) == IF StaysAt(ms, i) THEN <<s[i]>> ELSE <<>>
           Broken(k) == \E i \in k + 1 .. end - 1 : i \in B
           Expected(k) == IF k < end THEN IF Broken(k) THEN <<>> ELSE V[k].word ELSE V[end - 1].word
<1>1. s \in Texts /\ n \in Nat /\ DOMAIN s = 1 .. n /\ V[0] = NoMarks BY MarksOnward
<1>2. \A i \in 1 .. n : V[i].word = IF Breaks(s, ms, i) THEN <<>> ELSE V[i - 1].word \o Piece(i)
  <2>1. \A i \in 1 .. n : Moved(s, ms, V, i) BY MarksOnward
  <2> QED BY <2>1 DEF Moved
<1>3. \A i \in 1 .. n : Breaks(s, ms, i) <=> i \in B BY <1>1 DEF Breaks, BreaksOf
<1>4. \A i \in 1 .. n : i \in S <=> i < end /\ ~Broken(i) /\ i \notin B
  <2> TAKE i \in 1 .. n
  <2>1. i \in 1 .. end - 1 <=> i < end BY <1>1
  <2>2. i \in 1 .. end - 1 => \A k : k \in i .. end - 1 <=> k = i \/ k \in i + 1 .. end - 1 BY <1>1
  <2>3. i \in S <=> i \in 1 .. end - 1 /\ ~(\E k \in i .. end - 1 : k \in B) BY DEF SinceBreak
  <2> HIDE DEF B, S
  <2> QED BY <2>1, <2>2, <2>3
<1>5. PICK h \in [0 .. n -> Seq(Chars)] :
               /\ h[0] = <<>> /\ Kept(s, ms, S) = h[n]
               /\ \A i \in 1 .. n : h[i] = h[i - 1] \o KeptPiece(s, ms, S, i)
  BY <1>1, KeptRuns
<1>6. \A i \in 1 .. n : KeptPiece(s, ms, S, i) = IF i \in S THEN Piece(i) ELSE <<>> BY DEF KeptPiece
<1>7. \A x \in Seq(Chars) : x \o <<>> = x OBVIOUS
<1>8. \A i \in 0 .. n : V[i].word \in Seq(Chars) BY MarksOnward
<1> HIDE DEF n, S, B, Piece
<1> DEFINE T == {i \in 0 .. n : h[i] = Expected(i)}
<1>9. 0 \in T
  <2>1. end - 1 \in Nat /\ end > 0 BY <1>1 DEF n
  <2>2. Expected(0) = <<>> BY <1>1, <2>1 DEF NoMarks
  <2> HIDE DEF Expected
  <2> QED BY <1>1, <1>5, <2>2
<1>10. ASSUME NEW k \in 1 .. n, k - 1 \in T PROVE k \in T
  <2>1. k \in 0 .. n /\ k - 1 \in 0 .. n /\ k \in Int /\ end \in Int BY <1>1 DEF n
  <2>2. h[k] = h[k - 1] \o (IF k \in S THEN Piece(k) ELSE <<>>) BY <1>5, <1>6
  <2>3. h[k - 1] = Expected(k - 1) /\ h[k - 1] \in Seq(Chars) BY <1>5, <1>10, <2>1
  <2>4. k \notin S => h[k] = Expected(k - 1)
    <3> HIDE DEF Expected
    <3>1. k \notin S => h[k] = h[k - 1] \o <<>> BY <2>2
    <3> DEFINE x == h[k - 1]
    <3> HIDE DEF x
    <3>2. x \in Seq(Chars) => x \o <<>> = x BY <1>7
    <3> QED BY <2>3, <3>1, <3>2 DEF x
  <2>5. k < end => (Broken(k - 1) <=> Broken(k) \/ k \in B)
    <3>1. k < end => \A i : i \in (k - 1) + 1 .. end - 1 <=> i = k \/ i \in k + 1 .. end - 1 BY <2>1
    <3> QED BY <3>1
  <2>6. CASE ~(k < end)
    <3>1. k \notin S BY <1>4, <2>6
    <3>2. Expected(k - 1) = V[end - 1].word
      <4>1. CASE k - 1 < end
        <5>1. k - 1 = end - 1 BY <2>1, <2>6, <4>1
        <5>2. ~Broken(k - 1) BY <2>1, <5>1
        <5> QED BY <4>1, <5>1, <5>2
      <4>2. CASE ~(k - 1 < end) BY <4>2
      <4> QED BY <4>1, <4>2
    <3>3. Expected(k) = V[end - 1].word BY <2>6
    <3> HIDE DEF Expected
    <3> QED BY <2>1, <2>4, <3>1, <3>2, <3>3
  <2>7. CASE k < end
    <3>1. k - 1 < end BY <2>1, <2>7
    <3>2. Expected(k) = IF Broken(k) THEN <<>> ELSE V[k].word BY <2>7
    <3>3. Expected(k - 1) = IF Broken(k) \/ k \in B THEN <<>> ELSE V[k - 1].word
      <4> HIDE DEF Broken
      <4> QED BY <2>5, <2>7, <3>1
    <3>4. k \in S <=> ~Broken(k) /\ k \notin B BY <1>4, <2>7
    <3>5. V[k].word = IF k \in B THEN <<>> ELSE V[k - 1].word \o Piece(k) BY <1>2, <1>3
    <3> HIDE DEF Expected, Broken
    <3>6. h[k] = Expected(k)
      <4>1. CASE k \in S BY <2>2, <2>3, <3>2, <3>3, <3>4, <3>5, <4>1
      <4>2. CASE k \notin S BY <2>4, <3>2, <3>3, <3>4, <3>5, <4>2
      <4> QED BY <4>1, <4>2
    <3> QED BY <2>1, <3>6
  <2> QED BY <2>6, <2>7
<1>11. Expected(n) = V[end - 1].word
  <2>1. end \in 1 .. n + 1 BY DEF n
  <2>2. CASE n < end
    <3>1. n = end - 1 BY <1>1, <2>1, <2>2
    <3>2. ~Broken(n) BY <1>1, <3>1
    <3> QED BY <2>2, <3>1, <3>2
  <2>3. CASE ~(n < end) BY <2>3
  <2> QED BY <2>2, <2>3
<1> HIDE DEF Expected, T
<1>12. n \in T
  <2>1. 0 .. n \subseteq T BY <1>1, <1>9, <1>10, SetInduction
  <2> QED BY <1>1, <2>1
<1> QED BY <1>5, <1>11, <1>12 DEF T, S

LEMMA KeptWords ==
    ASSUME NEW lx, NEW s, NEW ms, NEW V, Lexes(lx, s, ms, V)
    PROVE  MeantWords(s, ms) = WithWord(V[Len(s)].word, V[Len(s)].words)
<1> DEFINE n == Len(s)
           Ending(end) == IF V[end - 1].word = <<>> THEN <<>> ELSE <<V[end - 1].word>>
           B == BreaksOf(s, ms)
           Word(end) == IF end \in B \cup {n + 1} THEN Ending(end) ELSE <<>>
           seqs == [end \in 1 .. n + 1 |-> Word(end)]
<1>1. s \in Texts /\ n \in Nat /\ DOMAIN s = 1 .. n /\ V[0] = NoMarks BY MarksOnward
<1>2. \A i \in 0 .. n : V[i].word \in Seq(Chars) /\ V[i].words \in Seq(Seq(Chars)) BY MarksOnward
<1>3. \A i \in 1 .. n : V[i].words = IF Breaks(s, ms, i) THEN WithWord(V[i - 1].word, V[i - 1].words) ELSE V[i - 1].words
  <2>1. \A i \in 1 .. n : Moved(s, ms, V, i) BY MarksOnward
  <2> QED BY <2>1 DEF Moved
<1>4. \A i \in 1 .. n : Breaks(s, ms, i) <=> i \in B BY <1>1 DEF Breaks, BreaksOf
<1>5. MeantWords(s, ms) = FlattenSeq(seqs)
  <2> DEFINE Kepts(end) == Kept(s, ms, SinceBreak(s, ms, end))
             Meant == [end \in 1 .. n + 1 |->
                          IF end \in B \cup {n + 1} THEN IF Kepts(end) = <<>> THEN <<>> ELSE <<Kepts(end)>> ELSE <<>>]
  <2>1. MeantWords(s, ms) = FlattenSeq(Meant) BY DEF MeantWords, BreaksOf, SinceBreak
  <2>2. \A end \in 1 .. n + 1 : Kepts(end) = V[end - 1].word BY KeptWord
  <2> HIDE DEF Kepts, B
  <2>3. Meant = seqs BY <2>2
  <2> QED BY <2>1, <2>3
<1>6. \A end \in 1 .. n + 1 : Ending(end) \in Seq(Seq(Chars)) /\ Word(end) \in Seq(Seq(Chars))
  <2> TAKE end \in 1 .. n + 1
  <2>1. end - 1 \in 0 .. n BY <1>1
  <2> DEFINE x == V[end - 1].word
  <2>2. x \in Seq(Chars) BY <1>2, <2>1
  <2> HIDE DEF x, n, B
  <2>3. Ending(end) \in Seq(Seq(Chars)) BY <2>2 DEF x
  <2> HIDE DEF Ending
  <2> QED BY <2>3
<1>7. \A end \in 1 .. n + 1 : WithWord(V[end - 1].word, V[end - 1].words) = V[end - 1].words \o Ending(end)
  <2> TAKE end \in 1 .. n + 1
  <2>1. end - 1 \in 0 .. n BY <1>1
  <2> DEFINE x == V[end - 1].word
             y == V[end - 1].words
  <2>2. x \in Seq(Chars) /\ y \in Seq(Seq(Chars)) BY <1>2, <2>1
  <2> HIDE DEF x, y
  <2>3. WithWord(x, y) = y \o (IF x = <<>> THEN <<>> ELSE <<x>>)
    <3>1. Append(y, x) = y \o <<x>> BY <2>2
    <3>2. y \o <<>> = y BY <2>2
    <3> QED BY <3>1, <3>2 DEF WithWord
  <2> QED BY <2>3 DEF x, y
<1>8. seqs \in Seq(Seq(Seq(Chars))) /\ Len(seqs) = n + 1 /\ \A end \in 1 .. n + 1 : seqs[end] = Word(end)
  <2>1. n + 1 \in Nat BY <1>1
  <2> HIDE DEF n, Word
  <2> QED BY <1>6, <2>1
<1> HIDE DEF seqs
<1>9. PICK h \in [0 .. Len(seqs) -> Seq(Seq(Chars))] : FlattensTo(seqs, h) BY <1>8, FlattenRuns
<1>10. /\ h[0] = <<>> /\ FlattenSeq(seqs) = h[n + 1]
       /\ \A i \in 1 .. n + 1 : h[i] = h[i - 1] \o Word(i) /\ h[i - 1] \in Seq(Seq(Chars))
  <2>1. h[0] = <<>> /\ FlattenSeq(seqs) = h[n + 1] BY <1>8, <1>9 DEF FlattensTo
  <2> HIDE DEF n, Word
  <2>2. \A i \in 1 .. n + 1 : h[i] = h[i - 1] \o Word(i) BY <1>8, <1>9 DEF FlattensTo
  <2>3. \A i \in 1 .. n + 1 : i - 1 \in 0 .. Len(seqs) BY <1>1, <1>8
  <2> QED BY <1>9, <2>1, <2>2, <2>3
<1> HIDE DEF n, Ending, B
<1> DEFINE T == {i \in 0 .. n : h[i] = V[i].words}
<1>11. 0 \in T BY <1>1, <1>10 DEF NoMarks
<1>12. ASSUME NEW i \in 1 .. n, i - 1 \in T PROVE i \in T
  <2>1. i \in 0 .. n /\ i \in 1 .. n + 1 /\ i # n + 1 BY <1>1
  <2>2. h[i - 1] = V[i - 1].words /\ h[i - 1] \in Seq(Seq(Chars)) /\ h[i] = h[i - 1] \o Word(i) BY <1>10, <1>12, <2>1
  <2>3. CASE i \in B
    <3>1. h[i] = V[i - 1].words \o Ending(i) BY <2>2, <2>3
    <3>2. V[i].words = WithWord(V[i - 1].word, V[i - 1].words) BY <1>3, <1>4, <2>3
    <3>3. h[i] = V[i].words BY <1>7, <2>1, <3>1, <3>2
    <3> QED BY <2>1, <3>3
  <2>4. CASE i \notin B
    <3>1. h[i] = h[i - 1] \o <<>> BY <2>1, <2>2, <2>4
    <3>2. h[i - 1] \o <<>> = h[i - 1]
      <4> DEFINE x == h[i - 1]
      <4>1. x \in Seq(Seq(Chars)) BY <2>2
      <4> HIDE DEF x
      <4>2. x \o <<>> = x BY <4>1
      <4> QED BY <4>2 DEF x
    <3>3. V[i].words = V[i - 1].words BY <1>3, <1>4, <2>4
    <3>4. h[i] = V[i].words BY <2>2, <3>1, <3>2, <3>3
    <3> QED BY <2>1, <3>4
  <2> QED BY <2>3, <2>4
<1> HIDE DEF T
<1>13. h[n] = V[n].words
  <2>1. 0 .. n \subseteq T BY <1>1, <1>11, <1>12, SetInduction
  <2>2. n \in T BY <1>1, <2>1
  <2> QED BY <2>2 DEF T
<1>14. h[n + 1] = WithWord(V[n].word, V[n].words)
  <2>1. n + 1 \in 1 .. n + 1 /\ (n + 1) - 1 = n BY <1>1
  <2>2. h[n + 1] = h[(n + 1) - 1] \o Word(n + 1) BY <1>10, <2>1
  <2>3. Word(n + 1) = Ending(n + 1) OBVIOUS
  <2>4. WithWord(V[n].word, V[n].words) = V[n].words \o Ending(n + 1) BY <1>7, <2>1
  <2> QED BY <1>13, <2>1, <2>2, <2>3, <2>4
<1> QED BY <1>5, <1>10, <1>14 DEF n

LEMMA LexedAsMeant ==
    ASSUME NEW s \in Texts, Plain(s), NEW escape \in {Backslash, Backtick}, NEW e
    PROVE  LET read == Process(NewLex(escape), e, s)
               ms == Modes(s, escape)
           IN  /\ read.ok = (Last(ms) \in {"plain", "escaped"})
               /\ (read.ok => read.text = Kept(s, ms, DOMAIN s) /\ read.words = MeantWords(s, ms))
<1> DEFINE lx == NewLex(escape)
           ms == Modes(s, escape)
           read == Process(lx, e, s)
<1>1. lx.escape = escape /\ lx.rawEscapes = FALSE /\ lx.rawQuotes = FALSE BY DEF NewLex
<1>2. IsModes(ms, s, escape) /\ Last(ms) = ms[Len(s) + 1] BY ModesAre
<1> HIDE DEF lx, ms
<1>3. PICK V \in [0 .. Len(s) -> Marks] : IsMarks(V, lx, s, ms) BY MarksExist
<1>4. Lexing(lx, s, ms, V) /\ Lexes(lx, s, ms, V)
  BY <1>1, <1>2, <1>3 DEF Lexing, Lexes, Plain
<1>5. /\ read.ok = (ms[Len(s) + 1] \in {"plain", "escaped"})
      /\ (read.ok => read.text = V[Len(s)].text /\ read.words = WithWord(V[Len(s)].word, V[Len(s)].words))
  BY <1>4, LexedByMarks
<1>6. V[Len(s)].text = Kept(s, ms, DOMAIN s) BY <1>4, KeptText
<1>7. WithWord(V[Len(s)].word, V[Len(s)].words) = MeantWords(s, ms) BY <1>4, KeptWords
<1> HIDE DEF read
<1>8. /\ read.ok = (Last(ms) \in {"plain", "escaped"})
      /\ (read.ok => read.text = Kept(s, ms, DOMAIN s) /\ read.words = MeantWords(s, ms))
  BY <1>2, <1>5, <1>6, <1>7
<1> QED BY <1>8 DEF read, lx, ms

LEMMA LinesLexed == Shape => WordIsMeant
<1> SUFFICES ASSUME Shape PROVE WordIsMeant
  OBVIOUS
<1> DEFINE s == file.lines[next].text
           read == Process(NewLex(file.escape), NoEnv, s)
           ms == Modes(s, file.escape)
<1>1. ASSUME phase = "lines", next <= Len(file.lines), Plain(s)
      PROVE  /\ read.ok = (Last(ms) \in {"plain", "escaped"})
             /\ (read.ok => read.text = Kept(s, ms, DOMAIN s) /\ read.words = MeantWords(s, ms))
  <2>1. s \in Texts BY <1>1 DEF Shape, FileGiven, Position
  <2>2. file.escape \in {Backslash, Backtick} BY DEF Shape, FileGiven
  <2> HIDE DEF s
  <2> QED BY <1>1, <2>1, <2>2, LexedAsMeant
<1>2. Read1(s) = read BY DEF Read1, Lex
<1> HIDE DEF read, ms
<1>3. phase = "lines" /\ next <= Len(file.lines) /\ Plain(s) =>
          /\ Read1(s).ok = (Last(ms) \in {"plain", "escaped"})
          /\ (Read1(s).ok => Read1(s).text = Kept(s, ms, DOMAIN s) /\ Read1(s).words = MeantWords(s, ms))
  BY <1>1, <1>2
<1> QED BY <1>3 DEF WordIsMeant, s, ms

(* Of every line without variables, the lexer returns the characters that  *)
(* are no quotes or escapes in effect, splits it at the spaces that are    *)
(* not quoted, and fails exactly if a quote is open at the end, whichever  *)
(* the lines of a Dockerfile are and whatever its escape token is.         *)
THEOREM WordsAsMeant == Spec => []WordIsMeant
<1>1. Spec => []Shape BY ShapeAlways
<1>2. Shape => WordIsMeant BY LinesLexed
<1> QED BY <1>1, <1>2, PTL
-----------------------------------------------------------------------------
(* ENV: the words parseWords splits a line into, and those of the lexer.   *)
(* A part of the text that begins outside of quotes is read, by itself, as *)
(* it is read in the text; but for an escape at its end, which is only     *)
(* known by the character behind it.                                       *)
TextIs(s, escape) == Kept(s, Modes(s, escape), DOMAIN s)
Ends(s, escape) == Last(Modes(s, escape)) \in {"plain", "escaped"}

\* the mode behind the last character of a part, and behind that character in the text
SameOrInner(mt, ms) == mt = ms \/ (mt = "double" /\ ms = "inner")
SameModes(ms, mt, a, n) ==
    /\ \A k \in 1 .. n : mt[k] = ms[a + k - 1]
    /\ SameOrInner(mt[n + 1], ms[a + n])

\* A last character is read alone as in the text, but for what it may escape there.
LEMMA NextModeEnd ==
    ASSUME NEW m, NEW s, NEW i \in Int, NEW t, NEW k \in Int, NEW escape \in {Backslash, Backtick},
           s[i] = t[k], At(t, k + 1) = EOF
    PROVE  SameOrInner(NextMode(m, t, k, escape), NextMode(m, s, i, escape))
<1> DEFINE c == t[k]
           x == At(s, i + 1) \in {DoubleQuote, "$", escape}
           y == At(t, k + 1) \in {DoubleQuote, "$", escape}
<1>1. ~y BY DEF EOF, DoubleQuote, Backslash, Backtick
<1>2. NextMode(m, t, k, escape) = NextMode(m, s, i, escape) \/ (m = "double" /\ c = escape /\ x)
  BY <1>1 DEF NextMode
<1>3. ASSUME m = "double", c = escape, x
      PROVE  NextMode(m, t, k, escape) = "double" /\ NextMode(m, s, i, escape) = "inner"
  <2>1. escape # DoubleQuote BY DEF DoubleQuote, Backslash, Backtick
  <2> QED BY <1>1, <1>3, <2>1 DEF NextMode
<1> QED BY <1>2, <1>3 DEF SameOrInner

\* A part that begins outside of quotes has the modes it has in the text.
LEMMA SegmentModes ==
    ASSUME NEW s \in Texts, NEW escape \in {Backslash, Backtick}, NEW ms, IsModes(ms, s, escape),
           NEW a \in 1 .. Len(s) + 1, NEW b \in a - 1 .. Len(s), ms[a] = "plain",
           NEW t, t = SubSeq(s, a, b), NEW mt, IsModes(mt, t, escape)
    PROVE  SameModes(ms, mt, a, Len(t))
<1> DEFINE n == Len(t)
<1>1. Len(s) \in Nat /\ a \in Nat /\ b \in Int /\ a \in Int BY DEF Texts
<1>2. n = b - a + 1 /\ n \in Nat /\ \A k \in 1 .. n : t[k] = s[a + k - 1] BY <1>1 DEF Texts
<1> HIDE DEF n
<1> DEFINE Here(k) == mt[k + 1] = ms[a + k] \/ (k = n /\ SameOrInner(mt[k + 1], ms[a + k]))
           T == {k \in 0 .. n : Here(k)}
<1>3. 0 \in T
  <2>1. 0 + 1 = 1 /\ a + 0 = a BY <1>1
  <2>2. mt[0 + 1] = ms[a + 0] BY <2>1 DEF IsModes
  <2> QED BY <1>2, <2>2
<1>4. ASSUME NEW k \in 1 .. n, k - 1 \in T PROVE k \in T
  <2> DEFINE i == a + k - 1
  <2>1. i \in 1 .. Len(s) /\ i \in Int /\ k \in Int /\ i + 1 = a + k /\ (k - 1) + 1 = k /\ a + (k - 1) = i /\ k - 1 # n
    BY <1>1, <1>2
  <2>2. mt[k] = ms[i] BY <1>4, <2>1
  <2>3. mt[k + 1] = NextMode(mt[k], t, k, escape) BY DEF IsModes, n
  <2>4. ms[i + 1] = NextMode(ms[i], s, i, escape) BY <2>1 DEF IsModes
  <2>5. t[k] = s[i] BY <1>2
  <2> HIDE DEF i
  <2>6. CASE k < n
    <3>1. k + 1 \in 1 .. n /\ i + 1 <= Len(s) /\ a + (k + 1) - 1 = i + 1 BY <1>1, <1>2, <2>1, <2>6
    <3>2. t[k + 1] = s[i + 1] BY <1>2, <3>1
    <3>3. At(t, k + 1) = At(s, i + 1) BY <3>1, <3>2 DEF At, n
    <3>4. NextMode(ms[i], t, k, escape) = NextMode(ms[i], s, i, escape) BY <2>5, <3>3 DEF NextMode
    <3>5. mt[k + 1] = ms[i + 1] BY <2>2, <2>3, <2>4, <3>4
    <3> QED BY <2>1, <3>5
  <2>7. CASE k = n
    <3>1. ~(k + 1 <= Len(t)) BY <1>2, <2>7 DEF n
    <3>2. At(t, k + 1) = EOF BY <3>1 DEF At
    <3>3. SameOrInner(NextMode(ms[i], t, k, escape), NextMode(ms[i], s, i, escape))
      BY <2>1, <2>5, <3>2, NextModeEnd
    <3>4. SameOrInner(mt[k + 1], ms[i + 1]) BY <2>2, <2>3, <2>4, <3>3
    <3> QED BY <2>1, <2>7, <3>4
  <2> QED BY <1>2, <2>6, <2>7
<1> HIDE DEF T
<1>5. 0 .. n \subseteq T BY <1>2, <1>3, <1>4, SetInduction
<1>6. ASSUME NEW k \in 1 .. n PROVE mt[k] = ms[a + k - 1]
  <2>1. k - 1 \in 0 .. n /\ (k - 1) + 1 = k /\ a + (k - 1) = a + k - 1 /\ k - 1 # n BY <1>1, <1>2
  <2>2. k - 1 \in T BY <1>5, <2>1
  <2> QED BY <2>1, <2>2 DEF T
<1>7. n \in T BY <1>2, <1>5
<1>8. SameOrInner(mt[n + 1], ms[a + n]) BY <1>7 DEF T, SameOrInner
<1> QED BY <1>6, <1>8 DEF SameModes, n

\* what stays of that part is what it adds to the text, and to the word unless it is broken
LEMMA SegmentText ==
    ASSUME NEW lx, NEW s, NEW ms, NEW V, Lexes(lx, s, ms, V), NEW a \in 1 .. Len(s) + 1, NEW b \in a - 1 .. Len(s),
           NEW t, t = SubSeq(s, a, b), NEW mt, NEW U, Lexes(lx, t, mt, U),
           SameModes(ms, mt, a, Len(t)), mt[Len(t) + 1] = ms[a + Len(t)]
    PROVE  /\ V[b].text = V[a - 1].text \o U[Len(t)].text
           /\ (\A i \in a .. b : ~Breaks(s, ms, i)) => Adds(V[a - 1], V[b], U[Len(t)].text)
<1> DEFINE n == Len(t)
           whole == \A i \in a .. b : ~Breaks(s, ms, i)
           u == V[a - 1]
           Piece(i) == IF StaysAt(ms, i) THEN <<s[i]>> ELSE <<>>
           PieceOfT(k) == IF StaysAt(mt, k) THEN <<t[k]>> ELSE <<>>
           On(k) == V[a - 1 + k]
           Same(k) == /\ On(k).text = u.text \o U[k].text
                      /\ whole => On(k).word = u.word \o U[k].text /\ On(k).words = u.words
<1>1. s \in Texts /\ Len(s) \in Nat /\ a \in Int /\ b \in Int /\ a - 1 \in 0 .. Len(s) BY MarksOnward
<1>2. n = b - a + 1 /\ n \in Nat /\ \A k \in 1 .. n : t[k] = s[a + k - 1] BY <1>1 DEF Texts
<1>3. u.text \in Seq(Chars) /\ u.word \in Seq(Chars) BY <1>1, MarksOnward
<1>4. U[0] = NoMarks /\ \A k \in 0 .. n : U[k].text \in Seq(Chars) BY MarksOnward
<1>5. \A k \in 1 .. n : U[k].text = U[k - 1].text \o PieceOfT(k)
  <2>1. \A k \in 1 .. n : Moved(t, mt, U, k) BY MarksOnward
  <2> QED BY <2>1 DEF Moved
<1>6. ASSUME NEW i \in 1 .. Len(s)
      PROVE  /\ V[i].text = V[i - 1].text \o Piece(i)
             /\ ~Breaks(s, ms, i) => V[i].word = V[i - 1].word \o Piece(i) /\ V[i].words = V[i - 1].words
  <2>1. Moved(s, ms, V, i) BY MarksOnward
  <2> QED BY <2>1 DEF Moved
<1>7. ASSUME NEW k \in 1 .. n PROVE PieceOfT(k) = Piece(a + k - 1) /\ PieceOfT(k) \in Seq(Chars)
  <2>1. mt[k] = ms[a + k - 1] /\ t[k] = s[a + k - 1] BY <1>2 DEF SameModes
  <2>2. mt[k + 1] = ms[(a + k - 1) + 1]
    <3>1. CASE k = n
      <4>1. (a + k - 1) + 1 = a + n BY <1>1, <1>2, <3>1
      <4> QED BY <3>1, <4>1
    <3>2. CASE k # n
      <4>1. k + 1 \in 1 .. n /\ a + (k + 1) - 1 = (a + k - 1) + 1 BY <1>1, <1>2, <3>2
      <4>2. mt[k + 1] = ms[a + (k + 1) - 1] BY <4>1 DEF SameModes
      <4> QED BY <4>1, <4>2
    <3> QED BY <3>1, <3>2
  <2>3. t[k] \in Chars
    <3>1. t \in Texts BY MarksOnward
    <3> QED BY <3>1 DEF Texts
  <2> QED BY <2>1, <2>2, <2>3 DEF StaysAt
<1> HIDE DEF n, Piece, PieceOfT, u
<1> DEFINE T == {k \in 0 .. n : Same(k)}
<1>8. 0 \in T
  <2>1. a - 1 + 0 = a - 1 BY <1>1
  <2>2. U[0].text = <<>> BY <1>4 DEF NoMarks
  <2>3. \A x \in Seq(Chars) : x \o <<>> = x OBVIOUS
  <2>4. Same(0) BY <1>3, <2>1, <2>2, <2>3 DEF u
  <2> HIDE DEF Same
  <2> QED BY <1>2, <2>4
<1>9. ASSUME NEW k \in 1 .. n, k - 1 \in T PROVE k \in T
  <2> DEFINE i == a + k - 1
             x == U[k - 1].text
             p == PieceOfT(k)
  <2>1. i \in 1 .. Len(s) /\ i \in a .. b /\ a - 1 + k = i /\ a - 1 + (k - 1) = i - 1 /\ k - 1 \in 0 .. n /\ k \in 0 .. n
    BY <1>1, <1>2
  <2>2. /\ V[i - 1].text = u.text \o x
        /\ whole => V[i - 1].word = u.word \o x /\ V[i - 1].words = u.words
    BY <1>9, <2>1
  <2>3. /\ V[i].text = V[i - 1].text \o p
        /\ ~Breaks(s, ms, i) => V[i].word = V[i - 1].word \o p /\ V[i].words = V[i - 1].words
    BY <1>6, <1>7, <2>1
  <2>4. whole => ~Breaks(s, ms, i) BY <2>1
  <2>5. U[k].text = x \o p BY <1>5
  <2>6. x \in Seq(Chars) /\ p \in Seq(Chars) BY <1>4, <1>7, <2>1
  <2> HIDE DEF x, p, i, whole
  <2>7. (u.text \o x) \o p = u.text \o (x \o p) /\ (u.word \o x) \o p = u.word \o (x \o p) BY <1>3, <2>6, Behind
  <2>8. V[i].text = u.text \o U[k].text BY <2>2, <2>3, <2>5, <2>7
  <2>9. whole => V[i].word = u.word \o U[k].text /\ V[i].words = u.words BY <2>2, <2>3, <2>4, <2>5, <2>7
  <2>10. Same(k) BY <2>1, <2>8, <2>9
  <2> HIDE DEF Same
  <2> QED BY <2>1, <2>10
<1> HIDE DEF T, Same
<1>10. Same(n)
  <2>1. 0 .. n \subseteq T BY <1>2, <1>8, <1>9, SetInduction
  <2>2. n \in T BY <1>2, <2>1
  <2> QED BY <2>2 DEF T
<1>11. a - 1 + n = b BY <1>1, <1>2
<1> QED BY <1>10, <1>11 DEF Same, Adds, n, u

\* the marks of a text by its modes
TextMarks(s, escape, V) ==
    Lexes(NewLex(escape), s, Modes(s, escape), V) /\ V[Len(s)].text = TextIs(s, escape)

\* Every text without variables has marks, and its modes.
LEMMA MarksOfText ==
    ASSUME NEW s \in Texts, Plain(s), NEW escape \in {Backslash, Backtick}
    PROVE  /\ \E V : TextMarks(s, escape, V)
           /\ IsModes(Modes(s, escape), s, escape)
           /\ Ends(s, escape) <=> Modes(s, escape)[Len(s) + 1] \in {"plain", "escaped"}
<1> DEFINE lx == NewLex(escape)
           ms == Modes(s, escape)
<1>1. lx.escape = escape /\ lx.rawEscapes = FALSE /\ lx.rawQuotes = FALSE BY DEF NewLex
<1>2. IsModes(ms, s, escape) /\ Last(ms) = ms[Len(s) + 1] BY ModesAre
<1> HIDE DEF lx, ms
<1>3. PICK V \in [0 .. Len(s) -> Marks] : IsMarks(V, lx, s, ms) BY MarksExist
<1>4. Lexes(lx, s, ms, V) BY <1>1, <1>2, <1>3 DEF Lexing, Lexes, Plain
<1>5. V[Len(s)].text = Kept(s, ms, DOMAIN s) BY <1>4, KeptText
<1>6. TextMarks(s, escape, V) BY <1>4, <1>5 DEF TextMarks, TextIs, lx, ms
<1>7. Ends(s, escape) <=> ms[Len(s) + 1] \in {"plain", "escaped"} BY <1>2 DEF Ends, ms
<1> QED BY <1>2, <1>6, <1>7 DEF ms

\* What is kept of a text is a text of its characters.
LEMMA KeptOf ==
    ASSUME NEW s \in Texts, NEW escape
    PROVE  TextIs(s, escape) \in Seq(ToSet(s)) /\ TextIs(s, escape) \in Texts
<1> DEFINE C == ToSet(s)
           ms == Modes(s, escape)
           P == DOMAIN s
           seqs == [i \in DOMAIN s |-> KeptPiece(s, ms, P, i)]
           u == TextIs(s, escape)
<1>1. Len(s) \in Nat /\ DOMAIN s = 1 .. Len(s) /\ \A i \in 1 .. Len(s) : s[i] \in Chars BY DEF Texts
<1>2. u = FlattenSeq(seqs) BY DEF TextIs, Kept, KeptPiece, StaysAt
<1>3. \A i \in 1 .. Len(s) : s[i] \in C BY <1>1 DEF ToSet
<1>4. C \subseteq Chars BY <1>1 DEF ToSet
<1> HIDE DEF C, ms, P
<1>5. \A i \in DOMAIN s : KeptPiece(s, ms, P, i) \in Seq(C) BY <1>1, <1>3 DEF KeptPiece
<1>6. seqs \in Seq(Seq(C)) BY <1>1, <1>5
<1> HIDE DEF seqs, u
<1>7. u \in Seq(C) BY <1>2, <1>6, FlattenTyped
<1>8. u \in Seq(Chars) BY <1>4, <1>7
<1> QED BY <1>7, <1>8 DEF C, u, Texts

\* a part of the text, from a to b, by itself and in the text
ReadAlone(s, escape, V, a, b, t) ==
    /\ t \in Texts /\ Plain(t) /\ TextIs(t, escape) \in Texts
    /\ Ends(t, escape) <=> Modes(s, escape)[b + 1] \in {"plain", "escaped"}
    /\ Ends(t, escape) =>
         /\ V[b].text = V[a - 1].text \o TextIs(t, escape)
         /\ (\A i \in a .. b : ~Breaks(s, Modes(s, escape), i)) => Adds(V[a - 1], V[b], TextIs(t, escape))

\* A part that begins outside of quotes is read alone as in the text.
LEMMA Segment ==
    ASSUME NEW s \in Texts, Plain(s), NEW escape \in {Backslash, Backtick}, NEW V, TextMarks(s, escape, V),
           NEW a \in 1 .. Len(s) + 1, NEW b \in a - 1 .. Len(s), Modes(s, escape)[a] = "plain"
    PROVE  ReadAlone(s, escape, V, a, b, SubSeq(s, a, b))
<1> DEFINE t == SubSeq(s, a, b)
           lx == NewLex(escape)
           ms == Modes(s, escape)
           mt == Modes(t, escape)
           n == Len(t)
<1>1. Len(s) \in Nat /\ a \in Nat \ {0} /\ b \in Int /\ b <= Len(s) /\ DOMAIN s = 1 .. Len(s) BY DEF Texts
<1>2. t \in Texts BY <1>1, SubText
<1>3. n = b - a + 1 /\ n \in Nat /\ \A k \in 1 .. n : t[k] = s[a + k - 1] /\ a + k - 1 \in DOMAIN s BY <1>1 DEF Texts
<1>4. Plain(t)
  <2>1. DOMAIN t = 1 .. n BY <1>2 DEF Texts
  <2> HIDE DEF t
  <2> QED BY <1>3, <2>1 DEF Plain, ToSet
<1> HIDE DEF t
<1>5. PICK U : TextMarks(t, escape, U) BY <1>2, <1>4, MarksOfText
<1>6. IsModes(mt, t, escape) /\ (Ends(t, escape) <=> mt[n + 1] \in {"plain", "escaped"}) BY <1>2, <1>4, MarksOfText
<1>7. IsModes(ms, s, escape) BY MarksOfText
<1>8. Lexes(lx, s, ms, V) /\ Lexes(lx, t, mt, U) /\ U[n].text = TextIs(t, escape) BY <1>5 DEF TextMarks
<1>9. ms[a] = "plain" OBVIOUS
<1> HIDE DEF ms, mt, lx
<1>10. SameModes(ms, mt, a, n) BY <1>6, <1>7, <1>9, SegmentModes DEF t
<1>11. mt[n + 1] = ms[b + 1] \/ (mt[n + 1] = "double" /\ ms[b + 1] = "inner")
  <2>1. a + n = b + 1 BY <1>1, <1>3
  <2> QED BY <1>10, <2>1 DEF SameModes, SameOrInner
<1>12. Ends(t, escape) <=> ms[b + 1] \in {"plain", "escaped"} BY <1>6, <1>11
<1>13. ASSUME Ends(t, escape)
       PROVE  /\ V[b].text = V[a - 1].text \o TextIs(t, escape)
              /\ (\A i \in a .. b : ~Breaks(s, ms, i)) => Adds(V[a - 1], V[b], TextIs(t, escape))
  <2>1. mt[n + 1] = ms[a + n]
    <3>1. a + n = b + 1 BY <1>1, <1>3
    <3> QED BY <1>6, <1>11, <1>13, <3>1
  <2> HIDE DEF n
  <2>2. /\ V[b].text = V[a - 1].text \o U[Len(t)].text
        /\ (\A i \in a .. b : ~Breaks(s, ms, i)) => Adds(V[a - 1], V[b], U[Len(t)].text)
    BY <1>8, <1>10, <2>1, SegmentText DEF n, t
  <2> QED BY <1>8, <2>2 DEF n
<1>14. TextIs(t, escape) \in Texts BY <1>2, KeptOf
<1> QED BY <1>2, <1>4, <1>12, <1>13, <1>14 DEF ReadAlone, ms, t

-----------------------------------------------------------------------------
(* A word with an equals sign is what its name and its value are.          *)
Equals == <<"=">>

\* An equals sign is no character the lexer looks for.
LEMMA EqualsChar ==
    "=" \notin {SingleQuote, DoubleQuote, Space, Backslash, Backtick}
  BY DEF SingleQuote, DoubleQuote, Space, Backslash, Backtick

\* A name=value is cut at the first equals sign.
LEMMA FirstEquals ==
    ASSUME NEW w \in Texts, HasEq(w)
    PROVE  \E p \in 1 .. Len(w) : /\ w[p] = "=" /\ \A i \in 1 .. p - 1 : w[i] # "="
                                  /\ Key(w) = SubSeq(w, 1, p - 1) /\ Value(w) = SubSeq(w, p + 1, Len(w))
<1> DEFINE I == {i \in 1 .. Len(w) : w[i] = "="}
           p == SelectInSeq(w, LAMBDA c : c = "=")
<1>1. Len(w) \in Nat /\ DOMAIN w = 1 .. Len(w) BY DEF Texts
<1>2. I # {} BY <1>1 DEF HasEq, ToSet
<1>3. p = IF I # {} THEN Min(I) ELSE 0 BY DEF SelectInSeq
<1>4. Key(w) = SubSeq(w, 1, p - 1) /\ Value(w) = SubSeq(w, p + 1, Len(w)) BY DEF Key, Value
<1>5. I \in SUBSET Nat /\ \A i : i \in I <=> i \in 1 .. Len(w) /\ w[i] = "=" BY <1>1
<1> HIDE DEF I, p
<1>6. p \in I /\ \A i \in I : p <= i BY <1>2, <1>3, <1>5, MinOf
<1>7. p \in 1 .. Len(w) /\ w[p] = "=" BY <1>5, <1>6
<1>8. ASSUME NEW i \in 1 .. p - 1 PROVE w[i] # "="
  <2>1. i \in 1 .. Len(w) /\ ~(p <= i) BY <1>1, <1>7
  <2> QED BY <1>5, <1>6, <2>1
<1> QED BY <1>4, <1>7, <1>8

\* A name without equals signs, one of them and a value are cut into these two.
LEMMA CutAtEquals ==
    ASSUME NEW k \in Texts, NEW v \in Texts, "=" \in Chars, "=" \notin ToSet(k), NEW z, z = (k \o Equals) \o v
    PROVE  z # <<>> /\ Key(z) = k /\ Value(z) = v
<1> DEFINE n == Len(k)
           x == k \o Equals
<1>1. n \in Nat /\ DOMAIN k = 1 .. n /\ Len(v) \in Nat BY DEF Texts
<1>2. \A i \in 1 .. n : k[i] # "=" BY <1>1 DEF ToSet
<1>3. k \in Seq(Chars) /\ v \in Seq(Chars) /\ Equals \in Seq(Chars) /\ Len(Equals) = 1 /\ Equals[1] = "="
  BY DEF Texts, Equals
<1>4. /\ x \in Seq(Chars) /\ Len(x) = n + 1 /\ \A i \in 1 .. n : x[i] = k[i]
      /\ x[n + 1] = "="
  <2>1. k \o Equals \in Seq(Chars) /\ Len(k \o Equals) = Len(k) + Len(Equals) BY <1>3, Concat
  <2>2. \A i \in 1 .. Len(k) : (k \o Equals)[i] = k[i] BY <1>3, Concat
  <2>3. (k \o Equals)[Len(k) + 1] = "="
    <3>1. k \o Equals = Append(k, "=") BY <1>3 DEF Equals
    <3>2. Append(k, "=")[Len(k) + 1] = "=" BY <1>3
    <3> QED BY <3>1, <3>2
  <2> QED BY <1>3, <2>1, <2>2, <2>3
<1> HIDE DEF x
<1>5. /\ z \in Seq(Chars) /\ Len(z) = n + 1 + Len(v)
      /\ \A i \in 1 .. n + 1 : z[i] = x[i]
      /\ \A i \in 1 .. Len(v) : z[n + 1 + i] = v[i]
  <2>1. z = x \o v BY DEF x
  <2>2. x \o v \in Seq(Chars) /\ Len(x \o v) = Len(x) + Len(v) BY <1>3, <1>4, Concat
  <2>3. \A i \in 1 .. Len(x) : (x \o v)[i] = x[i] BY <1>3, <1>4, Concat
  <2>4. \A i \in 1 .. Len(v) : (x \o v)[Len(x) + i] = v[i] BY <1>3, <1>4, Concat
  <2> QED BY <1>4, <2>1, <2>2, <2>3, <2>4
<1> HIDE DEF n
<1>6. z \in Texts /\ DOMAIN z = 1 .. n + 1 + Len(v) BY <1>1, <1>5 DEF Texts
<1>7. \A i \in 1 .. n : z[i] = k[i] /\ z[i] # "=" BY <1>1, <1>2, <1>4, <1>5
<1>8. n + 1 \in DOMAIN z /\ z[n + 1] = "=" BY <1>1, <1>4, <1>5, <1>6
<1>9. HasEq(z) BY <1>8 DEF HasEq, ToSet
<1>10. PICK p \in 1 .. Len(z) : /\ z[p] = "=" /\ \A i \in 1 .. p - 1 : z[i] # "="
                                /\ Key(z) = SubSeq(z, 1, p - 1) /\ Value(z) = SubSeq(z, p + 1, Len(z))
  BY <1>6, <1>9, FirstEquals
<1>11. p = n + 1
  <2>1. ~(p <= n) BY <1>1, <1>7, <1>10
  <2>2. ~(n + 1 <= p - 1) BY <1>1, <1>8, <1>10
  <2> QED BY <1>1, <1>5, <2>1, <2>2
<1>12. SubSeq(z, 1, n) = k
  <2> DEFINE y == SubSeq(z, 1, n)
  <2>1. y \in Seq(Chars) /\ Len(y) = n /\ \A i \in 1 .. n : y[i] = z[i] BY <1>1, <1>5
  <2> HIDE DEF y
  <2>2. Len(k) = n BY DEF n
  <2>3. y = k BY <1>1, <1>3, <1>7, <2>1, <2>2
  <2> QED BY <2>3 DEF y
<1>13. SubSeq(z, n + 1 + 1, n + 1 + Len(v)) = v
  <2> DEFINE y == SubSeq(z, n + 1 + 1, n + 1 + Len(v))
  <2>1. y \in Seq(Chars) /\ Len(y) = Len(v) BY <1>1, <1>5
  <2>2. \A i \in 1 .. Len(v) : y[i] = z[n + 1 + i] BY <1>1, <1>5
  <2> HIDE DEF y
  <2>3. \A i \in 1 .. Len(v) : y[i] = v[i] BY <1>5, <2>2
  <2>4. v \in Seq(Chars) BY <1>3
  <2>5. y = v BY <2>1, <2>3, <2>4
  <2> QED BY <2>5 DEF y
<1>14. n + 1 - 1 = n BY <1>1
<1>15. z # <<>> BY <1>1, <1>5
<1>16. Key(z) = SubSeq(z, 1, n + 1 - 1) /\ Value(z) = SubSeq(z, n + 1 + 1, n + 1 + Len(v)) BY <1>1, <1>5, <1>10, <1>11
<1> QED BY <1>12, <1>13, <1>14, <1>15, <1>16

CutTheSame(w, escape) ==
    /\ Ends(w, escape) /\ TextIs(w, escape) # <<>>
    /\ Key(TextIs(w, escape)) = TextIs(Key(w), escape) /\ Value(TextIs(w, escape)) = TextIs(Value(w), escape)

\* If its name and its value end outside of quotes, so does a name=value, and reading it is to read both.
LEMMA AtEquals ==
    ASSUME NEW w \in Texts, Plain(w), NEW escape \in {Backslash, Backtick}, HasEq(w),
           Ends(Key(w), escape), Ends(Value(w), escape)
    PROVE  CutTheSame(w, escape)
<1> DEFINE n == Len(w)
           ms == Modes(w, escape)
           lx == NewLex(escape)
<1>1. PICK p \in 1 .. n : /\ w[p] = "=" /\ \A i \in 1 .. p - 1 : w[i] # "="
                          /\ Key(w) = SubSeq(w, 1, p - 1) /\ Value(w) = SubSeq(w, p + 1, n)
  BY FirstEquals
<1>2. n \in Nat /\ p \in Int /\ DOMAIN w = 1 .. n BY DEF Texts
<1>3. PICK V : TextMarks(w, escape, V) BY MarksOfText
<1>4. IsModes(ms, w, escape) /\ (Ends(w, escape) <=> ms[n + 1] \in {"plain", "escaped"}) BY MarksOfText
<1> DEFINE key == Key(w)
           value == Value(w)
           k == TextIs(key, escape)
           v == TextIs(value, escape)
<1>5. ReadAlone(w, escape, V, 1, p - 1, key)
  <2>1. 1 \in 1 .. n + 1 /\ p - 1 \in 1 - 1 .. n /\ ms[1] = "plain" BY <1>2, <1>4 DEF IsModes
  <2> QED BY <1>1, <1>3, <2>1, Segment
<1>6. ms[p] \in {"plain", "escaped"} /\ V[p - 1].text = V[0].text \o k /\ key \in Texts /\ k \in Texts
  <2>1. p - 1 + 1 = p /\ 1 - 1 = 0 BY <1>2
  <2> QED BY <1>5, <2>1 DEF ReadAlone
<1>7. ms[p + 1] = "plain"
  <2>1. ms[p + 1] = NextMode(ms[p], w, p, escape) BY <1>4 DEF IsModes
  <2>2. NextMode("plain", w, p, escape) = "plain" /\ NextMode("escaped", w, p, escape) = "plain"
    BY <1>1, EqualsChar, ModesNext
  <2> QED BY <1>6, <2>1, <2>2
<1>8. ReadAlone(w, escape, V, p + 1, n, value)
  <2>1. p + 1 \in 1 .. n + 1 /\ n \in (p + 1) - 1 .. n BY <1>2
  <2> QED BY <1>1, <1>3, <1>7, <2>1, Segment
<1>9. Ends(w, escape) /\ V[n].text = V[p].text \o v /\ v \in Texts
  <2>1. (p + 1) - 1 = p BY <1>2
  <2> QED BY <1>4, <1>8, <2>1 DEF ReadAlone
<1>10. Lexes(lx, w, ms, V) /\ V[n].text = TextIs(w, escape) BY <1>3 DEF TextMarks
<1> HIDE DEF lx, ms, key, value, k, v, n
<1>11. V[p].text = V[p - 1].text \o Equals
  <2>1. Moved(w, ms, V, p) BY <1>10, MarksOnward DEF n
  <2>2. StaysAt(ms, p) BY <1>6, <1>7 DEF StaysAt
  <2> QED BY <1>1, <2>1, <2>2 DEF Moved, Equals
<1>12. V[0].text \o k = k
  <2>1. V[0].text = <<>> BY <1>10, MarksOnward DEF NoMarks
  <2>2. <<>> \o k = k BY <1>6 DEF Texts
  <2> QED BY <2>1, <2>2
<1>13. TextIs(w, escape) = (k \o Equals) \o v BY <1>6, <1>9, <1>10, <1>11, <1>12
<1>14. "=" \notin ToSet(k)
  <2>1. key = SubSeq(w, 1, p - 1) BY <1>1 DEF key
  <2>2. DOMAIN key = 1 .. p - 1 /\ \A i \in 1 .. p - 1 : key[i] = w[i] BY <1>2, <2>1 DEF Texts, n
  <2>3. "=" \notin ToSet(key) BY <1>1, <2>2 DEF ToSet
  <2>4. k \in Seq(ToSet(key)) BY <1>6, KeptOf DEF k
  <2>5. \A i \in DOMAIN k : k[i] \in ToSet(key) BY <2>4
  <2> QED BY <2>3, <2>5 DEF ToSet
<1> DEFINE z == TextIs(w, escape)
<1>15. "=" \in Chars BY <1>1, <1>2 DEF Texts, n
<1>16. z # <<>> /\ Key(z) = k /\ Value(z) = v BY <1>6, <1>9, <1>13, <1>14, <1>15, CutAtEquals
<1> QED BY <1>9, <1>16 DEF CutTheSame, k, v, key, value

-----------------------------------------------------------------------------
(* What a character does to the word of parseWords: it is behind an escape, *)
(* between words, at the end of one, an escape, or one more of the word.   *)
AfterEscape(st, x, c, escape) ==
    /\ st.esc /\ ~x.esc /\ x.phase = st.phase /\ x.quote = st.quote
    /\ x.word = st.word \o <<escape, c>> /\ x.words = st.words

BetweenWords(st, x, c) == ~st.esc /\ c = Space /\ st.phase = "spaces" /\ x = st

AtWordEnd(st, x, c) ==
    /\ ~st.esc /\ c = Space /\ st.phase = "word"
    /\ ~x.esc /\ x.phase = "spaces" /\ x.word = <<>> /\ x.words = EndWord(st)

AtEscape(st, x, c, escape) ==
    /\ ~st.esc /\ c = escape /\ ~(st.phase = "quote" /\ st.quote = SingleQuote)
    /\ x.esc /\ x.phase = (IF st.phase = "spaces" THEN "word" ELSE st.phase) /\ x.quote = st.quote
    /\ x.word = st.word /\ x.words = st.words

OpensQuote(st, x, c) == c \in Quotes /\ st.phase # "quote" /\ x.phase = "quote" /\ x.quote = c
ClosesQuote(st, x, c) == c = st.quote /\ st.phase = "quote" /\ x.phase = "word"
StaysQuoted(st, x, c, escape) ==
    /\ st.phase = "quote" /\ x.phase = "quote" /\ x.quote = st.quote
    /\ c # st.quote /\ (c = escape => st.quote = SingleQuote)
StaysUnquoted(st, x, c, escape) ==
    st.phase # "quote" /\ x.phase = "word" /\ c \notin {Space, escape, SingleQuote, DoubleQuote}

MoreOfWord(st, x, c, escape) ==
    /\ ~st.esc /\ ~x.esc /\ x.word = Append(st.word, c) /\ x.words = st.words
    /\ OpensQuote(st, x, c) \/ ClosesQuote(st, x, c) \/ StaysQuoted(st, x, c, escape) \/ StaysUnquoted(st, x, c, escape)

WordMoves(st, x, c, escape) ==
    \/ AfterEscape(st, x, c, escape)
    \/ BetweenWords(st, x, c)
    \/ AtWordEnd(st, x, c)
    \/ AtEscape(st, x, c, escape)
    \/ MoreOfWord(st, x, c, escape)

\* Each step of parseWords is one of these moves.
LEMMA WordCharMoves ==
    ASSUME NEW escape \in {Backslash, Backtick}, NEW c, NEW st \in WordStates, st.phase = "quote" => st.quote \in Quotes
    PROVE  WordMoves(st, WordChar(escape, st, c), c, escape)
<1> DEFINE x == WordChar(escape, st, c)
<1>1. /\ st.phase \in {"spaces", "word", "quote"} /\ st.esc \in BOOLEAN
      /\ st = [phase |-> st.phase, word |-> st.word, quote |-> st.quote, esc |-> st.esc, words |-> st.words]
  BY DEF WordStates
<1>2. escape \notin {SingleQuote, DoubleQuote, Space} /\ Space \notin {SingleQuote, DoubleQuote}
  BY DEF SingleQuote, DoubleQuote, Space, Backslash, Backtick
<1>3. CASE st.esc
  <2>1. x = [st EXCEPT !.word = @ \o <<escape, c>>, !.esc = FALSE] BY <1>3 DEF WordChar
  <2> HIDE DEF x
  <2>2. AfterEscape(st, x, c, escape) BY <1>1, <1>3, <2>1 DEF AfterEscape
  <2> QED BY <2>2 DEF WordMoves, x
<1>4. CASE ~st.esc /\ c = Space /\ st.phase = "spaces"
  <2>1. x = st BY <1>2, <1>4 DEF WordChar, Quotes
  <2> QED BY <1>4, <2>1 DEF WordMoves, BetweenWords
<1>5. CASE ~st.esc /\ c = Space /\ st.phase = "word"
  <2>1. x = [WordState EXCEPT !.words = EndWord(st)] BY <1>2, <1>5 DEF WordChar, Quotes
  <2> HIDE DEF x
  <2>2. AtWordEnd(st, x, c) BY <1>5, <2>1 DEF AtWordEnd, WordState
  <2> QED BY <2>2 DEF WordMoves, x
<1>6. CASE ~st.esc /\ c = escape /\ ~(st.phase = "quote" /\ st.quote = SingleQuote)
  <2>1. x = [st EXCEPT !.esc = TRUE, !.phase = IF @ = "spaces" THEN "word" ELSE @]
    <3>1. c # Space /\ c \notin Quotes BY <1>2, <1>6 DEF Quotes
    <3>2. st.phase = "quote" => c # st.quote BY <3>1
    <3> QED BY <1>2, <1>6, <3>1, <3>2 DEF WordChar
  <2> HIDE DEF x
  <2>2. AtEscape(st, x, c, escape) BY <1>1, <1>6, <2>1 DEF AtEscape
  <2> QED BY <2>2 DEF WordMoves, x
<1>7. CASE /\ ~st.esc /\ ~(c = Space /\ st.phase \in {"spaces", "word"})
           /\ ~(c = escape /\ ~(st.phase = "quote" /\ st.quote = SingleQuote))
  <2>1. CASE c \in Quotes /\ st.phase # "quote"
    <3>1. x = [st EXCEPT !.word = Append(@, c), !.phase = "quote", !.quote = c]
      BY <1>2, <1>7, <2>1 DEF WordChar, Quotes
    <3> HIDE DEF x
    <3>2. MoreOfWord(st, x, c, escape) BY <1>1, <1>7, <2>1, <3>1 DEF MoreOfWord, OpensQuote
    <3> QED BY <3>2 DEF WordMoves, x
  <2>2. CASE c = st.quote /\ st.phase = "quote"
    <3>1. x = [st EXCEPT !.word = Append(@, c), !.phase = "word"] BY <1>2, <1>7, <2>2 DEF WordChar
    <3> HIDE DEF x
    <3>2. MoreOfWord(st, x, c, escape) BY <1>1, <1>7, <2>2, <3>1 DEF MoreOfWord, ClosesQuote
    <3> QED BY <3>2 DEF WordMoves, x
  <2>3. CASE ~(c \in Quotes /\ st.phase # "quote") /\ ~(c = st.quote /\ st.phase = "quote")
    <3>1. x = [st EXCEPT !.word = Append(@, c), !.phase = IF @ = "spaces" THEN "word" ELSE @]
      BY <1>7, <2>3 DEF WordChar
    <3> HIDE DEF x
    <3>2. /\ x.phase = (IF st.phase = "quote" THEN "quote" ELSE "word") /\ x.quote = st.quote
          /\ ~x.esc /\ x.word = Append(st.word, c) /\ x.words = st.words
      BY <1>1, <1>7, <3>1
    <3>3. CASE st.phase = "quote"
      <4>1. StaysQuoted(st, x, c, escape) BY <1>7, <2>3, <3>2, <3>3 DEF StaysQuoted
      <4> QED BY <1>7, <3>2, <4>1 DEF WordMoves, MoreOfWord, x
    <3>4. CASE st.phase # "quote"
      <4>1. StaysUnquoted(st, x, c, escape) BY <1>1, <1>7, <2>3, <3>2, <3>4 DEF StaysUnquoted, Quotes
      <4> QED BY <1>7, <3>2, <4>1 DEF WordMoves, MoreOfWord, x
    <3> QED BY <3>3, <3>4
  <2> QED BY <2>1, <2>2, <2>3
<1> QED BY <1>1, <1>3, <1>4, <1>5, <1>6, <1>7

\* Both parsers agree on where the quotes are.
WordModes(s, ms, escape, st, i) ==
    /\ st.esc => i >= 1 /\ s[i] = escape /\ st.phase # "spaces"
    /\ st.phase # "quote" /\ ~st.esc => ms[i + 1] = "plain"
    /\ st.phase # "quote" /\ st.esc => ms[i] = "plain" /\ ms[i + 1] = "escaped"
    /\ st.phase = "quote" => st.quote \in Quotes
    /\ st.phase = "quote" /\ ~st.esc => ms[i + 1] = IF st.quote = SingleQuote THEN "single" ELSE "double"
    /\ st.phase = "quote" /\ st.esc => st.quote = DoubleQuote /\ ms[i] = "double" /\ ms[i + 1] # "plain"

\* parseWords is inside of quotes, or behind an escape, when the lexer is.
LEMMA WordModesNext ==
    ASSUME NEW s \in Texts, Plain(s), NEW escape \in {Backslash, Backtick}, NEW ms, IsModes(ms, s, escape),
           NEW i \in 1 .. Len(s), NEW st \in WordStates, NEW x \in WordStates,
           WordModes(s, ms, escape, st, i - 1), WordMoves(st, x, s[i], escape)
    PROVE  WordModes(s, ms, escape, x, i)
<1> DEFINE c == s[i]
<1>1. Len(s) \in Nat /\ DOMAIN s = 1 .. Len(s) /\ i \in Int /\ (i - 1) + 1 = i BY DEF Texts
<1>2. SingleQuote # DoubleQuote /\ escape \notin {SingleQuote, DoubleQuote, Space} /\ Space \notin {SingleQuote, DoubleQuote}
  BY DEF SingleQuote, DoubleQuote, Space, Backslash, Backtick
<1>3. ms[i + 1] = NextMode(ms[i], s, i, escape) BY DEF IsModes
<1>4. /\ NextMode("plain", s, i, escape) =
           IF c = SingleQuote THEN "single" ELSE IF c = DoubleQuote THEN "double"
           ELSE IF c = escape THEN "escaped" ELSE "plain"
      /\ NextMode("single", s, i, escape) = IF c = SingleQuote THEN "plain" ELSE "single"
      /\ c # escape => NextMode("double", s, i, escape) = IF c = DoubleQuote THEN "plain" ELSE "double"
      /\ c = escape => NextMode("double", s, i, escape) \in {"inner", "double"}
      /\ NextMode("inner", s, i, escape) = "double" /\ NextMode("escaped", s, i, escape) = "plain"
  BY <1>2, ModesNext
<1>5. st.phase \in {"spaces", "word", "quote"} /\ x.phase \in {"spaces", "word", "quote"} BY DEF WordStates
<1>6. /\ st.esc => i - 1 >= 1 /\ s[i - 1] = escape /\ st.phase # "spaces"
      /\ st.phase # "quote" /\ ~st.esc => ms[i] = "plain"
      /\ st.phase # "quote" /\ st.esc => ms[i] = "escaped"
      /\ st.phase = "quote" => st.quote \in Quotes
      /\ st.phase = "quote" /\ ~st.esc => ms[i] = IF st.quote = SingleQuote THEN "single" ELSE "double"
      /\ st.phase = "quote" /\ st.esc => st.quote = DoubleQuote /\ ms[i - 1] = "double"
  BY <1>1 DEF WordModes
<1>7. CASE AfterEscape(st, x, c, escape)
  <2>1. st.esc /\ ~x.esc /\ x.phase = st.phase /\ x.quote = st.quote BY <1>7 DEF AfterEscape
  <2>2. CASE st.phase # "quote"
    <3>1. ms[i + 1] = "plain" BY <1>3, <1>4, <1>6, <2>1, <2>2
    <3> QED BY <1>6, <2>1, <2>2, <3>1 DEF WordModes
  <2>3. CASE st.phase = "quote"
    <3>1. i - 1 \in 1 .. Len(s) /\ At(s, i) = c BY <1>1, <1>6, <2>1 DEF At
    <3>2. ms[i] = NextMode("double", s, i - 1, escape)
      <4>1. ms[(i - 1) + 1] = NextMode(ms[i - 1], s, i - 1, escape) BY <3>1 DEF IsModes
      <4> QED BY <1>1, <1>6, <2>1, <2>3, <4>1
    <3>3. ms[i] = IF c \in {DoubleQuote, "$", escape} THEN "inner" ELSE "double"
      <4>1. NextMode("double", s, i - 1, escape) =
              IF s[i - 1] = escape /\ At(s, (i - 1) + 1) \in {DoubleQuote, "$", escape} THEN "inner"
              ELSE IF s[i - 1] = DoubleQuote THEN "plain" ELSE "double"
        BY ModesNext
      <4> QED BY <1>1, <1>2, <1>6, <2>1, <3>1, <3>2, <4>1
    <3>4. ms[i + 1] = "double" BY <1>3, <1>4, <3>3
    <3> QED BY <1>2, <1>6, <2>1, <2>3, <3>4 DEF WordModes, Quotes
  <2> QED BY <2>2, <2>3
<1>8. CASE BetweenWords(st, x, c)
  <2>1. ~st.esc /\ c = Space /\ st.phase = "spaces" /\ x = st BY <1>8 DEF BetweenWords
  <2>2. ms[i + 1] = "plain" BY <1>2, <1>3, <1>4, <1>6, <2>1
  <2> QED BY <2>1, <2>2 DEF WordModes
<1>9. CASE AtWordEnd(st, x, c)
  <2>1. ~st.esc /\ c = Space /\ st.phase = "word" /\ ~x.esc /\ x.phase = "spaces" BY <1>9 DEF AtWordEnd
  <2>2. ms[i + 1] = "plain" BY <1>2, <1>3, <1>4, <1>6, <2>1
  <2> QED BY <2>1, <2>2 DEF WordModes
<1>10. CASE AtEscape(st, x, c, escape)
  <2>1. /\ ~st.esc /\ c = escape /\ ~(st.phase = "quote" /\ st.quote = SingleQuote) /\ x.esc
        /\ x.phase = (IF st.phase = "spaces" THEN "word" ELSE st.phase) /\ x.quote = st.quote
    BY <1>10 DEF AtEscape
  <2>2. CASE st.phase # "quote"
    <3>1. ms[i] = "plain" /\ ms[i + 1] = "escaped" BY <1>2, <1>3, <1>4, <1>6, <2>1, <2>2
    <3> QED BY <1>1, <1>5, <2>1, <2>2, <3>1 DEF WordModes
  <2>3. CASE st.phase = "quote"
    <3>1. st.quote = DoubleQuote /\ ms[i] = "double" BY <1>6, <2>1, <2>3 DEF Quotes
    <3>2. ms[i + 1] # "plain" BY <1>3, <1>4, <2>1, <3>1
    <3> QED BY <1>1, <2>1, <2>3, <3>1, <3>2 DEF WordModes, Quotes
  <2> QED BY <2>2, <2>3
<1>11. CASE MoreOfWord(st, x, c, escape)
  <2>1. ~st.esc /\ ~x.esc BY <1>11 DEF MoreOfWord
  <2>2. CASE OpensQuote(st, x, c)
    <3>1. c \in Quotes /\ st.phase # "quote" /\ x.phase = "quote" /\ x.quote = c BY <2>2 DEF OpensQuote
    <3>2. ms[i + 1] = IF c = SingleQuote THEN "single" ELSE "double" BY <1>3, <1>4, <1>6, <2>1, <3>1 DEF Quotes
    <3> QED BY <2>1, <3>1, <3>2 DEF WordModes
  <2>3. CASE ClosesQuote(st, x, c)
    <3>1. c = st.quote /\ st.phase = "quote" /\ x.phase = "word" BY <2>3 DEF ClosesQuote
    <3>2. ms[i + 1] = "plain" BY <1>2, <1>3, <1>4, <1>6, <2>1, <3>1 DEF Quotes
    <3> QED BY <2>1, <3>1, <3>2 DEF WordModes
  <2>4. CASE StaysQuoted(st, x, c, escape)
    <3>1. /\ st.phase = "quote" /\ x.phase = "quote" /\ x.quote = st.quote
          /\ c # st.quote /\ (c = escape => st.quote = SingleQuote)
      BY <2>4 DEF StaysQuoted
    <3>2. CASE st.quote = SingleQuote
      <4>1. ms[i + 1] = "single" BY <1>3, <1>4, <1>6, <2>1, <3>1, <3>2
      <4> QED BY <1>6, <2>1, <3>1, <3>2, <4>1 DEF WordModes
    <3>3. CASE st.quote = DoubleQuote
      <4>1. ms[i + 1] = "double" BY <1>2, <1>3, <1>4, <1>6, <2>1, <3>1, <3>3
      <4> QED BY <1>2, <1>6, <2>1, <3>1, <3>3, <4>1 DEF WordModes
    <3> QED BY <1>6, <3>1, <3>2, <3>3 DEF Quotes
  <2>5. CASE StaysUnquoted(st, x, c, escape)
    <3>1. st.phase # "quote" /\ x.phase = "word" /\ c \notin {Space, escape, SingleQuote, DoubleQuote}
      BY <2>5 DEF StaysUnquoted
    <3>2. ms[i + 1] = "plain" BY <1>3, <1>4, <1>6, <2>1, <3>1
    <3> QED BY <2>1, <3>1, <3>2 DEF WordModes
  <2> QED BY <1>11, <2>2, <2>3, <2>4, <2>5 DEF MoreOfWord
<1> QED BY <1>7, <1>8, <1>9, <1>10, <1>11 DEF WordMoves

\* the word so far is the text from a position on, where a word of the lexer begins as well
WordTo(st, i) == IF st.esc THEN i - 1 ELSE i
WordFrom(s, ms, V, st, i, a) ==
    /\ ms[a] = "plain" /\ V[a - 1].word = <<>> /\ a - 1 <= WordTo(st, i)
    /\ \A k \in a .. i : ~Breaks(s, ms, k)
    /\ st.word = SubSeq(s, a, WordTo(st, i))
WordSpan(s, ms, V, st, i) ==
    IF st.phase = "spaces" THEN st.word = <<>> /\ V[i].word = <<>> ELSE \E a \in 1 .. i : WordFrom(s, ms, V, st, i, a)

\* the words so far, each read by itself, are those of the lexer
AllEnd(words, escape) == \A k \in DOMAIN words : Ends(words[k], escape) /\ TextIs(words[k], escape) # <<>>
ReadEach(words, escape) == [k \in DOMAIN words |-> TextIs(words[k], escape)]
WordsSame(words, read, escape) == AllEnd(words, escape) => read = ReadEach(words, escape)

\* Reading one more word adds what it reads as.
LEMMA ReadOneMore ==
    ASSUME NEW words \in Seq(Texts), NEW word \in Texts, NEW escape, AllEnd(Append(words, word), escape)
    PROVE  /\ AllEnd(words, escape) /\ Ends(word, escape) /\ TextIs(word, escape) # <<>>
           /\ ReadEach(Append(words, word), escape) = Append(ReadEach(words, escape), TextIs(word, escape))
<1> DEFINE n == Len(words)
           all == Append(words, word)
           old == ReadEach(words, escape)
           new == ReadEach(all, escape)
           text == TextIs(word, escape)
<1>1. n \in Nat /\ DOMAIN words = 1 .. n /\ all \in Seq(Texts) /\ DOMAIN all = 1 .. n + 1 OBVIOUS
<1>2. all[n + 1] = word /\ \A k \in 1 .. n : all[k] = words[k] OBVIOUS
<1>3. AllEnd(all, escape) OBVIOUS
<1> HIDE DEF n, all
<1>4. /\ \A k \in 1 .. n : Ends(words[k], escape) /\ TextIs(words[k], escape) # <<>>
      /\ Ends(word, escape) /\ TextIs(word, escape) # <<>>
  <2>1. \A k \in 1 .. n + 1 : Ends(all[k], escape) /\ TextIs(all[k], escape) # <<>> BY <1>1, <1>3 DEF AllEnd
  <2>2. \A k \in 1 .. n : k \in 1 .. n + 1 BY <1>1
  <2>3. n + 1 \in 1 .. n + 1 BY <1>1
  <2> QED BY <1>2, <2>1, <2>2, <2>3
<1>5. old = [k \in 1 .. n |-> TextIs(words[k], escape)] BY <1>1 DEF ReadEach
<1>6. new = [k \in 1 .. n + 1 |-> TextIs(all[k], escape)] BY <1>1 DEF ReadEach
<1>7. old \in Seq(Texts) /\ Len(old) = n /\ text \in Texts
  <2>1. \A k \in 1 .. n : TextIs(words[k], escape) \in Texts BY <1>1, KeptOf
  <2> HIDE DEF old, text
  <2>2. old \in Seq(Texts) /\ Len(old) = n BY <1>1, <1>5, <2>1
  <2> QED BY <2>2, KeptOf DEF text
<1>8. new = Append(old, text)
  <2> HIDE DEF new, old, text
  <2>1. Append(old, text) \in Seq(Texts) /\ Len(Append(old, text)) = n + 1 BY <1>1, <1>7
  <2>2. \A k \in 1 .. n + 1 : Append(old, text)[k] = IF k = n + 1 THEN text ELSE old[k] BY <1>1, <1>7
  <2>3. ASSUME NEW k \in 1 .. n + 1 PROVE new[k] = Append(old, text)[k]
    <3>1. CASE k = n + 1 BY <1>2, <1>6, <2>2, <3>1 DEF text
    <3>2. CASE k # n + 1
      <4>1. k \in 1 .. n BY <1>1, <3>2
      <4> QED BY <1>2, <1>5, <1>6, <2>2, <3>2, <4>1
    <3> QED BY <3>1, <3>2
  <2> DEFINE l == Append(old, text)
  <2> HIDE DEF l
  <2>4. l \in Seq(Texts) /\ Len(l) = n + 1 BY <2>1 DEF l
  <2>5. \A k \in 1 .. n + 1 : new[k] = l[k] BY <2>3 DEF l
  <2>6. new \in Seq(Texts) /\ Len(new) = n + 1
    <3>1. \A k \in 1 .. n + 1 : l[k] \in Texts BY <2>4
    <3>2. \A k \in 1 .. n + 1 : new[k] \in Texts BY <2>5, <3>1
    <3>3. new = [k \in 1 .. n + 1 |-> new[k]] BY <1>6
    <3> QED BY <1>1, <3>2, <3>3
  <2>7. new = l BY <2>4, <2>5, <2>6
  <2> QED BY <2>7 DEF l
<1> QED BY <1>1, <1>4, <1>8 DEF AllEnd, all, n

\* the words with the one that ends here
LEMMA WordEnds ==
    ASSUME NEW s \in Texts, Plain(s), NEW escape \in {Backslash, Backtick}, NEW V, TextMarks(s, escape, V),
           NEW ms, ms = Modes(s, escape), NEW i \in 1 .. Len(s), NEW a \in 1 .. i, NEW st \in WordStates,
           WordFrom(s, ms, V, st, i, a), NEW b, b = WordTo(st, i), WordsSame(st.words, V[b].words, escape),
           AllEnd(EndWord(st), escape)
    PROVE  /\ ms[b + 1] \in {"plain", "escaped"}
           /\ WithWord(V[b].word, V[b].words) = ReadEach(EndWord(st), escape)
<1> DEFINE word == st.word
           text == TextIs(word, escape)
<1>1. Len(s) \in Nat /\ a \in 1 .. Len(s) + 1 /\ b \in Int /\ b \in a - 1 .. Len(s) BY DEF WordTo, WordFrom, Texts, WordStates
<1>2. /\ ms[a] = "plain" /\ V[a - 1].word = <<>> /\ word = SubSeq(s, a, b)
      /\ \A k \in a .. b : ~Breaks(s, ms, k)
  <2>1. b <= i /\ i \in Int BY DEF WordTo, WordStates, Texts
  <2>2. \A k \in a .. b : k \in a .. i BY <1>1, <2>1
  <2> QED BY <2>2 DEF WordFrom
<1>3. ReadAlone(s, escape, V, a, b, word) BY <1>1, <1>2, Segment
<1>4. word \in Texts /\ st.words \in Seq(Texts) BY DEF WordStates
<1>5. CASE word = <<>>
  <2>1. EndWord(st) = st.words BY <1>5 DEF EndWord
  <2>2. b + 1 = a /\ b = a - 1
    <3>1. Len(SubSeq(s, a, b)) = b - a + 1 BY <1>1 DEF Texts
    <3>2. Len(word) = 0 BY <1>5
    <3> QED BY <1>1, <1>2, <3>1, <3>2
  <2>3. WithWord(V[b].word, V[b].words) = V[b].words BY <1>2, <2>2 DEF WithWord
  <2> QED BY <1>2, <2>1, <2>2, <2>3 DEF WordsSame
<1>6. CASE word # <<>>
  <2>1. EndWord(st) = Append(st.words, word) BY <1>6 DEF EndWord
  <2>2. /\ AllEnd(st.words, escape) /\ Ends(word, escape) /\ text # <<>>
        /\ ReadEach(EndWord(st), escape) = Append(ReadEach(st.words, escape), text)
    BY <1>4, <2>1, ReadOneMore
  <2>3. ms[b + 1] \in {"plain", "escaped"} /\ Adds(V[a - 1], V[b], text) /\ text \in Texts
    BY <1>2, <1>3, <2>2 DEF ReadAlone
  <2> HIDE DEF text
  <2>4. V[b].word = text
    <3>1. <<>> \o text = text BY <2>3 DEF Texts
    <3> QED BY <1>2, <2>3, <3>1 DEF Adds
  <2>5. V[b].words = ReadEach(st.words, escape) BY <2>2 DEF WordsSame
  <2> QED BY <2>2, <2>3, <2>4, <2>5 DEF WithWord
<1> QED BY <1>5, <1>6

\* Two texts of one character make one of two.
LEMMA TwoCharacters ==
    ASSUME NEW a \in Chars, NEW b \in Chars
    PROVE  <<a>> \o <<b>> = <<a, b>>
<1> DEFINE l == <<a>> \o <<b>>
           r == <<a, b>>
<1>1. l \in Seq(Chars) /\ Len(l) = 2 /\ l[1] = a /\ l[2] = b
  <2>1. l = Append(<<a>>, b) OBVIOUS
  <2>2. <<a>> \in Seq(Chars) /\ Len(<<a>>) = 1 /\ <<a>>[1] = a OBVIOUS
  <2> QED BY <2>1, <2>2
<1>2. r \in Seq(Chars) /\ Len(r) = 2 /\ r[1] = a /\ r[2] = b OBVIOUS
<1> HIDE DEF l, r
<1>3. \A i \in 1 .. 2 : l[i] = r[i]
  <2>1. \A i \in 1 .. 2 : i = 1 \/ i = 2 OBVIOUS
  <2> QED BY <1>1, <1>2, <2>1
<1>4. l = r BY <1>1, <1>2, <1>3
<1> QED BY <1>4 DEF l, r

ParsesAlike(s, ms, V, escape, st, i) ==
    /\ WordModes(s, ms, escape, st, i)
    /\ WordSpan(s, ms, V, st, i)
    /\ WordsSame(st.words, V[i].words, escape)

\* As long as each word ends outside of quotes, parseWords splits where the lexer does.
LEMMA ParsesNext ==
    ASSUME NEW s \in Texts, Plain(s), NEW escape \in {Backslash, Backtick}, NEW V, TextMarks(s, escape, V),
           NEW ms, ms = Modes(s, escape), NEW i \in 1 .. Len(s), NEW st \in WordStates, NEW x \in WordStates,
           ParsesAlike(s, ms, V, escape, st, i - 1), WordMoves(st, x, s[i], escape)
    PROVE  ParsesAlike(s, ms, V, escape, x, i)
<1> DEFINE c == s[i]
           u == V[i - 1]
           v == V[i]
           j == WordTo(st, i - 1)
           Before(a) == /\ ms[a] = "plain" /\ V[a - 1].word = <<>> /\ a - 1 <= j /\ st.word = SubSeq(s, a, j)
                        /\ \A k \in a .. i : ~Breaks(s, ms, k)
<1>1. Len(s) \in Nat /\ i \in Int /\ (i - 1) + 1 = i /\ c \in Chars /\ i - 1 \in 0 .. Len(s) BY DEF Texts
<1>2. /\ st.phase \in {"spaces", "word", "quote"} /\ st.esc \in BOOLEAN /\ st.word \in Seq(Chars)
      /\ x.phase \in {"spaces", "word", "quote"} /\ x.esc \in BOOLEAN
  BY DEF WordStates, Texts
<1>3. WordModes(s, ms, escape, st, i - 1) /\ WordSpan(s, ms, V, st, i - 1) /\ WordsSame(st.words, u.words, escape)
  BY DEF ParsesAlike
<1>4. IsModes(ms, s, escape) BY MarksOfText
<1>5. WordModes(s, ms, escape, x, i) BY <1>3, <1>4, WordModesNext
<1>6. /\ st.esc => i - 1 >= 1 /\ s[i - 1] = escape /\ st.phase # "spaces"
      /\ st.phase # "quote" /\ ~st.esc => ms[i] = "plain"
      /\ st.phase = "quote" \/ st.esc => ms[i] # "plain"
  <2>1. /\ st.esc => i - 1 >= 1 /\ s[i - 1] = escape /\ st.phase # "spaces"
        /\ st.phase # "quote" /\ ~st.esc => ms[i] = "plain"
        /\ st.phase # "quote" /\ st.esc => ms[i] = "escaped"
        /\ st.phase = "quote" /\ ~st.esc => ms[i] = IF st.quote = SingleQuote THEN "single" ELSE "double"
        /\ st.phase = "quote" /\ st.esc => ms[i] # "plain"
    BY <1>1, <1>3 DEF WordModes
  <2> QED BY <1>2, <2>1
<1>7. /\ Breaks(s, ms, i) => v.word = <<>> /\ v.words = WithWord(u.word, u.words)
      /\ ~Breaks(s, ms, i) => v.words = u.words
  <2>1. Moved(s, ms, V, i)
    <3>1. Lexes(NewLex(escape), s, ms, V) BY DEF TextMarks
    <3> QED BY <3>1, MarksOnward
  <2> QED BY <2>1 DEF Moved
<1>8. CASE BetweenWords(st, x, c)
  <2>1. ~st.esc /\ c = Space /\ st.phase = "spaces" /\ x = st BY <1>8 DEF BetweenWords
  <2>2. Breaks(s, ms, i) BY <1>6, <2>1 DEF Breaks
  <2>3. st.word = <<>> /\ u.word = <<>> BY <1>3, <2>1 DEF WordSpan
  <2>4. v.word = <<>> /\ v.words = u.words BY <1>7, <2>2, <2>3 DEF WithWord
  <2>5. WordSpan(s, ms, V, x, i) BY <2>1, <2>3, <2>4 DEF WordSpan
  <2> QED BY <1>3, <1>5, <2>1, <2>4, <2>5 DEF ParsesAlike
<1>9. CASE AtWordEnd(st, x, c)
  <2>1. /\ ~st.esc /\ c = Space /\ st.phase = "word"
        /\ ~x.esc /\ x.phase = "spaces" /\ x.word = <<>> /\ x.words = EndWord(st)
    BY <1>9 DEF AtWordEnd
  <2>2. Breaks(s, ms, i) BY <1>6, <2>1 DEF Breaks
  <2>3. WordSpan(s, ms, V, x, i) BY <1>7, <2>1, <2>2 DEF WordSpan
  <2>4. ASSUME AllEnd(EndWord(st), escape) PROVE v.words = ReadEach(EndWord(st), escape)
    <3>1. PICK a \in 1 .. i - 1 : WordFrom(s, ms, V, st, i - 1, a) BY <1>3, <2>1 DEF WordSpan
    <3>2. i - 1 = WordTo(st, i - 1) BY <2>1 DEF WordTo
    <3>3. i - 1 \in 1 .. Len(s) BY <1>1, <3>1
    <3>4. WithWord(u.word, u.words) = ReadEach(EndWord(st), escape) BY <1>3, <2>4, <3>1, <3>2, <3>3, WordEnds
    <3> QED BY <1>7, <2>2, <3>4
  <2>5. WordsSame(x.words, v.words, escape) BY <2>1, <2>4 DEF WordsSame
  <2> QED BY <1>5, <2>3, <2>5 DEF ParsesAlike
<1>10. ASSUME ~Breaks(s, ms, i) PROVE \E a \in 1 .. i : Before(a)
  <2>1. CASE st.phase = "spaces"
    <3>1. j = i - 1 /\ ms[i] = "plain" BY <1>6, <2>1 DEF WordTo
    <3>2. st.word = <<>> /\ u.word = <<>> BY <1>3, <2>1 DEF WordSpan
    <3>3. SubSeq(s, i, i - 1) = <<>> BY <1>1 DEF Texts
    <3>4. \A k \in i .. i : ~Breaks(s, ms, k) BY <1>1, <1>10
    <3>5. Before(i) BY <1>1, <3>1, <3>2, <3>3, <3>4
    <3> HIDE DEF Before
    <3> QED BY <1>1, <3>5
  <2>2. CASE st.phase # "spaces"
    <3>1. PICK a \in 1 .. i - 1 : WordFrom(s, ms, V, st, i - 1, a) BY <1>3, <2>2 DEF WordSpan
    <3>2. \A k \in a .. i : ~Breaks(s, ms, k)
      <4>1. \A k \in a .. i - 1 : ~Breaks(s, ms, k) BY <3>1 DEF WordFrom
      <4>2. \A k \in a .. i : k \in a .. i - 1 \/ k = i BY <1>1
      <4> QED BY <1>10, <4>1, <4>2
    <3>3. Before(a) BY <3>1, <3>2 DEF WordFrom
    <3>4. a \in 1 .. i BY <1>1
    <3> QED BY <3>3, <3>4
  <2> QED BY <2>1, <2>2
<1>11. ASSUME ~Breaks(s, ms, i), x.phase # "spaces", x.words = st.words,
              \A a \in 1 .. i : Before(a) => a - 1 <= WordTo(x, i) /\ x.word = SubSeq(s, a, WordTo(x, i))
       PROVE  ParsesAlike(s, ms, V, escape, x, i)
  <2>1. PICK a \in 1 .. i : Before(a) BY <1>10, <1>11
  <2>2. WordFrom(s, ms, V, x, i, a) BY <1>11, <2>1 DEF WordFrom
  <2>3. WordSpan(s, ms, V, x, i) BY <1>11, <2>2 DEF WordSpan
  <2>4. WordsSame(x.words, v.words, escape) BY <1>3, <1>7, <1>11
  <2> QED BY <1>5, <2>3, <2>4 DEF ParsesAlike
<1>12. CASE AfterEscape(st, x, c, escape)
  <2>1. /\ st.esc /\ ~x.esc /\ x.phase = st.phase
        /\ x.word = st.word \o <<escape, c>> /\ x.words = st.words
    BY <1>12 DEF AfterEscape
  <2>2. ~Breaks(s, ms, i) /\ j = i - 2 /\ WordTo(x, i) = i BY <1>1, <1>6, <2>1 DEF Breaks, WordTo
  <2>3. i - 1 \in 1 .. Len(s) /\ (i - 1) - 1 = i - 2 /\ escape \in Chars BY <1>1, <1>6, <2>1, CharFacts
  <2>4. ASSUME NEW a \in 1 .. i, Before(a) PROVE a - 1 <= i /\ x.word = SubSeq(s, a, i)
    <3>1. a \in 1 .. Len(s) + 1 /\ a <= i - 1 /\ a <= i /\ a \in Int BY <1>1, <2>2, <2>4
    <3>2. SubSeq(s, a, i - 1) = SubSeq(s, a, (i - 1) - 1) \o <<s[i - 1]>> BY <2>3, <3>1, SubTextNext
    <3>3. SubSeq(s, a, i) = SubSeq(s, a, i - 1) \o <<c>> BY <3>1, SubTextNext
    <3>4. SubSeq(s, a, i) = (st.word \o <<escape>>) \o <<c>> BY <1>6, <2>1, <2>2, <2>3, <2>4, <3>2, <3>3
    <3>5. <<escape>> \in Seq(Chars) /\ <<c>> \in Seq(Chars) BY <1>1, <2>3
    <3>6. <<escape>> \o <<c>> = <<escape, c>> BY <1>1, <2>3, TwoCharacters
    <3>7. (st.word \o <<escape>>) \o <<c>> = st.word \o (<<escape>> \o <<c>>) BY <1>2, <3>5, Behind
    <3>8. x.word = SubSeq(s, a, i) BY <2>1, <3>4, <3>6, <3>7, Zenon
    <3> QED BY <1>1, <3>1, <3>8
  <2> QED BY <1>6, <1>11, <2>1, <2>2, <2>4
<1>13. CASE AtEscape(st, x, c, escape)
  <2>1. /\ ~st.esc /\ c = escape /\ x.esc
        /\ x.phase = (IF st.phase = "spaces" THEN "word" ELSE st.phase)
        /\ x.word = st.word /\ x.words = st.words
    BY <1>13 DEF AtEscape
  <2>2. escape # Space BY DEF Space, Backslash, Backtick
  <2>3. ~Breaks(s, ms, i) /\ j = i - 1 /\ WordTo(x, i) = i - 1 BY <1>1, <2>1, <2>2 DEF Breaks, WordTo
  <2>4. x.phase # "spaces" BY <2>1
  <2> QED BY <1>11, <2>1, <2>3, <2>4
<1>14. CASE MoreOfWord(st, x, c, escape)
  <2>1. ~st.esc /\ ~x.esc /\ x.word = Append(st.word, c) /\ x.words = st.words BY <1>14 DEF MoreOfWord
  <2>2. /\ x.phase # "spaces"
        /\ c # Space \/ st.phase = "quote"
    <3>1. Space \notin Quotes BY DEF Space, Quotes, SingleQuote, DoubleQuote
    <3> QED BY <1>14, <3>1 DEF MoreOfWord, OpensQuote, ClosesQuote, StaysQuoted, StaysUnquoted
  <2>3. ~Breaks(s, ms, i) /\ j = i - 1 /\ WordTo(x, i) = i BY <1>1, <1>6, <2>1, <2>2 DEF Breaks, WordTo
  <2>4. ASSUME NEW a \in 1 .. i, Before(a) PROVE a - 1 <= i /\ x.word = SubSeq(s, a, i)
    <3>1. a \in 1 .. Len(s) + 1 /\ a <= i /\ a \in Int BY <1>1
    <3>2. SubSeq(s, a, i) = SubSeq(s, a, i - 1) \o <<c>> BY <3>1, SubTextNext
    <3>3. Append(st.word, c) = st.word \o <<c>> BY <1>1, <1>2
    <3> QED BY <1>1, <2>1, <2>3, <2>4, <3>1, <3>2, <3>3
  <2> QED BY <1>11, <2>1, <2>2, <2>3, <2>4
<1> QED BY <1>8, <1>9, <1>12, <1>13, <1>14 DEF WordMoves

\* Words that end outside of quotes are those of the lexer, which accepts the text.
LEMMA ParsedAsRead ==
    ASSUME NEW s \in Texts, Plain(s), NEW escape \in {Backslash, Backtick}, AllEnd(ParseWords(s, escape), escape)
    PROVE  Ends(s, escape) /\ MeantWords(s, Modes(s, escape)) = ReadEach(ParseWords(s, escape), escape)
<1> DEFINE n == Len(s)
           ms == Modes(s, escape)
<1>1. n \in Nat /\ escape \in Chars /\ \A i \in 1 .. n : s[i] \in Chars /\ i - 1 \in 0 .. n BY CharFacts DEF Texts
<1>2. PICK h \in [0 .. n -> WordStates] :
               /\ h[0] = WordState
               /\ \A i \in 1 .. n : h[i] = WordChar(escape, h[i - 1], s[i])
               /\ ParseWords(s, escape) = EndWord(h[n])
  BY <1>1, WordsRun
<1>3. PICK V : TextMarks(s, escape, V) BY MarksOfText
<1>4. IsModes(ms, s, escape) /\ (Ends(s, escape) <=> ms[n + 1] \in {"plain", "escaped"}) BY MarksOfText
<1>5. Lexes(NewLex(escape), s, ms, V) BY <1>3 DEF TextMarks
<1>6. V[0] = NoMarks /\ (\A i \in 0 .. n : V[i].word \in Seq(Chars)) /\ (\A i \in 1 .. n : Moved(s, ms, V, i))
  BY <1>5, MarksOnward
<1>7. TextMarks(s, escape, V) /\ ms = Modes(s, escape) BY <1>3
<1> HIDE DEF ms
<1> DEFINE T == {i \in 0 .. n : ParsesAlike(s, ms, V, escape, h[i], i)}
<1>8. 0 \in T
  <2>1. /\ h[0].phase = "spaces" /\ ~h[0].esc /\ h[0].word = <<>> /\ h[0].words = <<>> BY <1>2 DEF WordState
  <2>2. ms[0 + 1] = "plain" BY <1>4 DEF IsModes
  <2>3. WordModes(s, ms, escape, h[0], 0) BY <2>1, <2>2 DEF WordModes
  <2>4. V[0].word = <<>> /\ V[0].words = <<>> BY <1>6 DEF NoMarks
  <2>5. WordSpan(s, ms, V, h[0], 0) BY <2>1, <2>4 DEF WordSpan
  <2>6. ReadEach(<<>>, escape) = <<>> BY DEF ReadEach
  <2>7. WordsSame(h[0].words, V[0].words, escape) BY <2>1, <2>4, <2>6 DEF WordsSame
  <2>8. ParsesAlike(s, ms, V, escape, h[0], 0) BY <2>3, <2>5, <2>7 DEF ParsesAlike
  <2> QED BY <1>1, <2>8
<1>9. ASSUME NEW i \in 1 .. n, i - 1 \in T PROVE i \in T
  <2>1. h[i - 1] \in WordStates /\ h[i] \in WordStates /\ h[i] = WordChar(escape, h[i - 1], s[i]) BY <1>1, <1>2
  <2>2. ParsesAlike(s, ms, V, escape, h[i - 1], i - 1) BY <1>9
  <2>3. h[i - 1].phase = "quote" => h[i - 1].quote \in Quotes BY <2>2 DEF ParsesAlike, WordModes
  <2>4. WordMoves(h[i - 1], h[i], s[i], escape) BY <2>1, <2>3, WordCharMoves
  <2>5. ParsesAlike(s, ms, V, escape, h[i], i) BY <1>7, <2>1, <2>2, <2>4, ParsesNext
  <2> QED BY <2>5
<1> DEFINE st == h[n]
<1>10. st \in WordStates /\ ParsesAlike(s, ms, V, escape, st, n)
  <2> HIDE DEF T
  <2>1. 0 .. n \subseteq T BY <1>1, <1>8, <1>9, SetInduction
  <2>2. n \in T BY <1>1, <2>1
  <2> QED BY <1>1, <1>2, <2>2 DEF T
<1>11. ParseWords(s, escape) = EndWord(st) /\ AllEnd(EndWord(st), escape) BY <1>2
<1> HIDE DEF st, T
<1>12. st.phase \in {"spaces", "word", "quote"} /\ st.esc \in BOOLEAN BY <1>10 DEF WordStates
<1>13. WordModes(s, ms, escape, st, n) /\ WordSpan(s, ms, V, st, n) /\ WordsSame(st.words, V[n].words, escape)
  BY <1>10 DEF ParsesAlike
<1> DEFINE Same == /\ ms[n + 1] \in {"plain", "escaped"}
                   /\ WithWord(V[n].word, V[n].words) = ReadEach(EndWord(st), escape)
<1>14. ASSUME st.phase = "spaces" PROVE Same
  <2>1. ~st.esc /\ ms[n + 1] = "plain" BY <1>12, <1>13, <1>14 DEF WordModes
  <2>2. st.word = <<>> /\ V[n].word = <<>> BY <1>13, <1>14 DEF WordSpan
  <2>3. EndWord(st) = st.words BY <2>2 DEF EndWord
  <2>4. V[n].words = ReadEach(EndWord(st), escape) BY <1>11, <1>13, <2>3 DEF WordsSame
  <2> QED BY <2>1, <2>2, <2>4 DEF WithWord
<1>15. ASSUME st.phase # "spaces" PROVE Same
  <2>1. PICK a \in 1 .. n : WordFrom(s, ms, V, st, n, a) BY <1>13, <1>15 DEF WordSpan
  <2>2. n \in 1 .. n BY <1>1, <2>1
  <2>3. CASE ~st.esc
    <3> DEFINE b == WordTo(st, n)
    <3>1. b = n BY <2>3 DEF WordTo
    <3>2. WordsSame(st.words, V[b].words, escape) BY <1>13, <3>1
    <3>3. b = WordTo(st, n) OBVIOUS
    <3> HIDE DEF b
    <3>4. /\ ms[b + 1] \in {"plain", "escaped"}
          /\ WithWord(V[b].word, V[b].words) = ReadEach(EndWord(st), escape)
      BY <1>7, <1>10, <1>11, <2>1, <2>2, <3>2, <3>3, WordEnds DEF n
    <3> QED BY <3>1, <3>4
  <2>4. CASE st.esc
    <3>1. n - 1 = WordTo(st, n) BY <2>4 DEF WordTo
    <3>2. ~Breaks(s, ms, n) BY <2>1, <2>2 DEF WordFrom
    <3>3. Moved(s, ms, V, n) BY <1>6, <2>2
    <3>4. V[n].words = V[n - 1].words BY <3>2, <3>3 DEF Moved
    <3>5. WordsSame(st.words, V[n - 1].words, escape) BY <1>13, <3>4
    <3>6. /\ ms[(n - 1) + 1] \in {"plain", "escaped"}
          /\ WithWord(V[n - 1].word, V[n - 1].words) = ReadEach(EndWord(st), escape)
      BY <1>7, <1>10, <1>11, <2>1, <2>2, <3>1, <3>5, WordEnds DEF n
    <3>7. ms[n] = "plain" /\ ms[n + 1] = "escaped"
      <4>1. (n - 1) + 1 = n BY <1>1
      <4> QED BY <1>13, <2>4, <3>6, <4>1 DEF WordModes
    <3>8. V[n].word = V[n - 1].word
      <4>1. ~StaysAt(ms, n) BY <3>7 DEF StaysAt
      <4>2. V[n].word = V[n - 1].word \o <<>> BY <3>2, <3>3, <4>1 DEF Moved
      <4>3. V[n - 1].word \in Seq(Chars) BY <1>1, <1>6, <2>2
      <4>4. V[n - 1].word \o <<>> = V[n - 1].word BY <4>3
      <4> QED BY <4>2, <4>4
    <3> QED BY <3>4, <3>6, <3>7, <3>8
  <2> QED BY <2>3, <2>4
<1>16. MeantWords(s, ms) = WithWord(V[n].word, V[n].words) BY <1>5, KeptWords
<1> QED BY <1>4, <1>11, <1>12, <1>14, <1>15, <1>16 DEF ms

\* Words of a text without variables have none.
LEMMA PlainAppend ==
    ASSUME NEW w \in Texts, Plain(w), NEW c \in Chars, c # "$"
    PROVE  Append(w, c) \in Texts /\ Plain(Append(w, c))
<1> DEFINE n == Len(w)
           l == Append(w, c)
<1>1. n \in Nat /\ DOMAIN w = 1 .. n /\ \A i \in 1 .. n : w[i] # "$" BY DEF Texts, Plain, ToSet
<1>2. l \in Texts /\ DOMAIN l = 1 .. n + 1 /\ l[n + 1] = c /\ \A i \in 1 .. n : l[i] = w[i] BY DEF Texts
<1> HIDE DEF l, n
<1>3. \A i \in 1 .. n + 1 : l[i] # "$"
  <2>1. \A i \in 1 .. n + 1 : i \in 1 .. n \/ i = n + 1 BY <1>1
  <2> QED BY <1>1, <1>2, <2>1
<1> QED BY <1>2, <1>3 DEF Plain, ToSet, l

PlainState(st) ==
    /\ st.phase = "quote" => st.quote \in Quotes
    /\ Plain(st.word) /\ \A k \in DOMAIN st.words : Plain(st.words[k])

\* Ending a word adds no variable.
LEMMA PlainWordEnds ==
    ASSUME NEW st \in WordStates, PlainState(st)
    PROVE  \A k \in DOMAIN EndWord(st) : Plain(EndWord(st)[k])
<1> DEFINE words == st.words
           n == Len(words)
           all == Append(words, st.word)
<1>1. n \in Nat /\ DOMAIN words = 1 .. n BY DEF WordStates
<1>2. DOMAIN all = 1 .. n + 1 /\ all[n + 1] = st.word /\ \A k \in 1 .. n : all[k] = words[k] BY DEF WordStates
<1>3. EndWord(st) \in {words, all} BY DEF EndWord
<1>4. Plain(st.word) /\ \A k \in 1 .. n : Plain(words[k]) BY <1>1 DEF PlainState
<1> HIDE DEF all, n, words
<1>5. \A k \in 1 .. n + 1 : Plain(all[k])
  <2>1. \A k \in 1 .. n + 1 : k \in 1 .. n \/ k = n + 1 BY <1>1
  <2> QED BY <1>2, <1>4, <2>1
<1> QED BY <1>1, <1>2, <1>3, <1>4, <1>5

\* A character that is no dollar sign makes no variable.
LEMMA PlainStateNext ==
    ASSUME NEW escape \in {Backslash, Backtick}, NEW c \in Chars, c # "$", NEW st \in WordStates, PlainState(st),
           NEW x \in WordStates, WordMoves(st, x, c, escape)
    PROVE  PlainState(x)
<1>1. escape \in Chars /\ escape # "$" BY CharFacts DEF Backslash, Backtick
<1>2. st.word \in Texts BY DEF WordStates
<1>3. /\ st.phase = "quote" => st.quote \in Quotes
      /\ Plain(st.word) /\ \A k \in DOMAIN st.words : Plain(st.words[k])
  BY DEF PlainState
<1>4. CASE AfterEscape(st, x, c, escape)
  <2>1. x.phase = st.phase /\ x.quote = st.quote /\ x.word = st.word \o <<escape, c>> /\ x.words = st.words
    BY <1>4 DEF AfterEscape
  <2> DEFINE u == Append(st.word, escape)
  <2>2. u \in Texts /\ Plain(u) BY <1>1, <1>2, <1>3, PlainAppend
  <2>3. x.word = Append(u, c)
    <3>1. u = st.word \o <<escape>> BY <1>1, <1>2 DEF Texts
    <3> HIDE DEF u
    <3>2. Append(u, c) = u \o <<c>> BY <2>2 DEF Texts
    <3>3. <<escape>> \in Seq(Chars) /\ <<c>> \in Seq(Chars) /\ st.word \in Seq(Chars) BY <1>1, <1>2 DEF Texts
    <3>4. <<escape>> \o <<c>> = <<escape, c>> BY <1>1, TwoCharacters
    <3>5. (st.word \o <<escape>>) \o <<c>> = st.word \o (<<escape>> \o <<c>>) BY <3>3, Behind
    <3> QED BY <2>1, <3>1, <3>2, <3>4, <3>5, Zenon
  <2> HIDE DEF u
  <2>4. Plain(x.word) BY <2>2, <2>3, PlainAppend
  <2> QED BY <1>3, <2>1, <2>4 DEF PlainState
<1>5. CASE BetweenWords(st, x, c) BY <1>5 DEF BetweenWords
<1>6. CASE AtWordEnd(st, x, c)
  <2>1. x.phase = "spaces" /\ x.word = <<>> /\ x.words = EndWord(st) BY <1>6 DEF AtWordEnd
  <2>2. Plain(<<>>) BY DEF Plain, ToSet
  <2> QED BY <2>1, <2>2, PlainWordEnds DEF PlainState
<1>7. CASE AtEscape(st, x, c, escape)
  <2>1. /\ x.phase = (IF st.phase = "spaces" THEN "word" ELSE st.phase) /\ x.quote = st.quote
        /\ x.word = st.word /\ x.words = st.words
    BY <1>7 DEF AtEscape
  <2> QED BY <1>3, <2>1 DEF PlainState
<1>8. CASE MoreOfWord(st, x, c, escape)
  <2>1. x.word = Append(st.word, c) /\ x.words = st.words BY <1>8 DEF MoreOfWord
  <2>2. x.phase = "quote" => x.quote \in Quotes
    BY <1>3, <1>8 DEF MoreOfWord, OpensQuote, ClosesQuote, StaysQuoted, StaysUnquoted
  <2>3. Plain(x.word) BY <1>2, <1>3, <2>1, PlainAppend
  <2> QED BY <1>3, <2>1, <2>2, <2>3 DEF PlainState
<1> QED BY <1>4, <1>5, <1>6, <1>7, <1>8 DEF WordMoves

\* The words of a line without variables have none.
LEMMA WordsPlain ==
    ASSUME NEW s \in Texts, Plain(s), NEW escape \in {Backslash, Backtick}
    PROVE  \A k \in DOMAIN ParseWords(s, escape) : Plain(ParseWords(s, escape)[k])
<1> DEFINE n == Len(s)
<1>1. n \in Nat /\ escape \in Chars /\ \A i \in 1 .. n : s[i] \in Chars /\ s[i] # "$" /\ i - 1 \in 0 .. n
  BY CharFacts DEF Texts, Plain, ToSet
<1>2. PICK h \in [0 .. n -> WordStates] :
               /\ h[0] = WordState
               /\ \A i \in 1 .. n : h[i] = WordChar(escape, h[i - 1], s[i])
               /\ ParseWords(s, escape) = EndWord(h[n])
  BY <1>1, WordsRun
<1> DEFINE T == {i \in 0 .. n : PlainState(h[i])}
<1>3. 0 \in T
  <2>1. h[0].phase = "spaces" /\ h[0].word = <<>> /\ h[0].words = <<>> BY <1>2 DEF WordState
  <2>2. Plain(<<>>) BY DEF Plain, ToSet
  <2>3. PlainState(h[0]) BY <2>1, <2>2 DEF PlainState
  <2> QED BY <1>1, <2>3
<1>4. ASSUME NEW i \in 1 .. n, i - 1 \in T PROVE i \in T
  <2>1. h[i - 1] \in WordStates /\ h[i] \in WordStates /\ h[i] = WordChar(escape, h[i - 1], s[i]) BY <1>1, <1>2
  <2>2. PlainState(h[i - 1]) BY <1>4
  <2>3. h[i - 1].phase = "quote" => h[i - 1].quote \in Quotes BY <2>2 DEF PlainState
  <2>4. WordMoves(h[i - 1], h[i], s[i], escape) BY <2>1, <2>3, WordCharMoves
  <2>5. PlainState(h[i]) BY <1>1, <2>1, <2>2, <2>4, PlainStateNext
  <2> QED BY <2>5
<1> HIDE DEF T
<1>5. PlainState(h[n]) /\ h[n] \in WordStates
  <2>1. 0 .. n \subseteq T BY <1>1, <1>3, <1>4, SetInduction
  <2>2. n \in T BY <1>1, <2>1
  <2> QED BY <1>1, <1>2, <2>2 DEF T
<1> QED BY <1>2, <1>5, PlainWordEnds

\* Neither have the name and the value of such a word.
LEMMA PlainKey ==
    ASSUME NEW w \in Texts, Plain(w), HasEq(w)
    PROVE  Plain(Key(w)) /\ Plain(Value(w)) /\ Key(w) \in Texts /\ Value(w) \in Texts
<1> DEFINE n == Len(w)
<1>1. PICK p \in 1 .. n : Key(w) = SubSeq(w, 1, p - 1) /\ Value(w) = SubSeq(w, p + 1, n) BY FirstEquals
<1>2. n \in Nat /\ p \in Int /\ DOMAIN w = 1 .. n /\ \A i \in 1 .. n : w[i] # "$" BY DEF Texts, Plain, ToSet
<1>3. Key(w) \in Texts /\ Value(w) \in Texts BY KeyTexts
<1>4. DOMAIN Key(w) = 1 .. p - 1 /\ \A i \in 1 .. p - 1 : Key(w)[i] = w[i] BY <1>1, <1>2 DEF Texts
<1>5. DOMAIN Value(w) = 1 .. n - p /\ \A i \in 1 .. n - p : Value(w)[i] = w[p + i] BY <1>1, <1>2 DEF Texts
<1> HIDE DEF n
<1>6. \A i \in 1 .. p - 1 : i \in 1 .. n BY <1>1, <1>2
<1>7. \A i \in 1 .. n - p : p + i \in 1 .. n BY <1>1, <1>2
<1>8. Plain(Key(w)) BY <1>2, <1>4, <1>6 DEF Plain, ToSet
<1>9. Plain(Value(w)) BY <1>2, <1>5, <1>7 DEF Plain, ToSet
<1> QED BY <1>3, <1>8, <1>9

\* the names and values of words, one behind the other
PairOf(word) == <<Key(word), Value(word)>>
PairsOf(words) == FlattenSeq([k \in DOMAIN words |-> PairOf(words[k])])

LEMMA PairsAre ==
    ASSUME NEW words \in Seq(Texts)
    PROVE  /\ PairsOf(words) \in Seq(Texts) /\ Len(PairsOf(words)) = 2 * Len(words)
           /\ \A k \in 1 .. Len(words) : PairsOf(words)[2 * k - 1] = Key(words[k]) /\ PairsOf(words)[2 * k] = Value(words[k])
<1> DEFINE n == Len(words)
           X == Seq(Texts)
           pairs == [k \in DOMAIN words |-> PairOf(words[k])]
<1>1. n \in Nat /\ DOMAIN words = 1 .. n BY DEF Texts
<1>2. ASSUME NEW k \in 1 .. n
      PROVE  /\ PairOf(words[k]) \in X /\ Len(PairOf(words[k])) = 2
             /\ PairOf(words[k])[1] = Key(words[k]) /\ PairOf(words[k])[2] = Value(words[k])
  <2>1. words[k] \in Texts OBVIOUS
  <2>2. Key(words[k]) \in Texts /\ Value(words[k]) \in Texts BY <2>1, KeyTexts
  <2> QED BY <2>2 DEF PairOf
<1>3. pairs = [k \in 1 .. n |-> PairOf(words[k])] BY <1>1
<1>4. PairsOf(words) = FlattenSeq(pairs) BY DEF PairsOf
<1> HIDE DEF pairs, n, X
<1>5. pairs \in Seq(X) /\ Len(pairs) = n /\ DOMAIN pairs = 1 .. n BY <1>1, <1>2, <1>3
<1>6. \A k \in 1 .. n : pairs[k] = PairOf(words[k]) BY <1>3
<1>7. \A k \in DOMAIN pairs : Len(pairs[k]) = 2 BY <1>2, <1>5, <1>6
<1>8. /\ FlattenSeq(pairs) \in Seq(Texts) /\ Len(FlattenSeq(pairs)) = 2 * Len(pairs)
      /\ \A k \in DOMAIN pairs : /\ FlattenSeq(pairs)[2 * k - 1] = pairs[k][1]
                                 /\ FlattenSeq(pairs)[2 * k] = pairs[k][2]
  BY <1>5, <1>7, FlattenPairs DEF X
<1>9. \A k \in 1 .. n : PairsOf(words)[2 * k - 1] = Key(words[k]) /\ PairsOf(words)[2 * k] = Value(words[k])
  BY <1>2, <1>4, <1>5, <1>6, <1>8
<1> QED BY <1>4, <1>5, <1>8, <1>9 DEF n

\* Every number up to 2n is the first or the second of a pair.
LEMMA EvenOdd ==
    ASSUME NEW n \in Nat, NEW m \in 1 .. 2 * n
    PROVE  \E k \in 1 .. n : m = 2 * k - 1 \/ m = 2 * k
<1>1. CASE m % 2 = 0
  <2>1. m = 2 * (m \div 2) /\ m \div 2 \in 1 .. n BY <1>1
  <2> QED BY <2>1
<1>2. CASE m % 2 = 1
  <2>1. m = 2 * (m \div 2 + 1) - 1 /\ m \div 2 + 1 \in 1 .. n BY <1>2
  <2> QED BY <2>1
<1> QED BY <1>1, <1>2

\* what the lexer makes of a word is what the environment is not needed for
ReadsAs(escape, e, s) == Process(NewLex(escape), e, s).ok => /\ Ends(s, escape)
                                                              /\ Process(NewLex(escape), e, s).text = TextIs(s, escape)

\* What the lexer makes of a text without variables is what its modes keep.
LEMMA ReadAsMeant ==
    ASSUME NEW s \in Texts, Plain(s), NEW escape \in {Backslash, Backtick}, NEW e
    PROVE  ReadsAs(escape, e, s)
<1> DEFINE read == Process(NewLex(escape), e, s)
           ms == Modes(s, escape)
<1>1. /\ read.ok = (Last(ms) \in {"plain", "escaped"})
      /\ (read.ok => read.text = Kept(s, ms, DOMAIN s) /\ read.words = MeantWords(s, ms))
  BY LexedAsMeant
<1> QED BY <1>1 DEF ReadsAs, Ends, TextIs

(* The pairs of a line are read, name and value by themselves, as those of *)
(* the words that the lexer reads.                                         *)
PairsRead(rest, escape, texts) ==
    LET read == Process(NewLex(escape), NoEnv, rest)
    IN  read.ok /\ texts = PairsOf(read.words)

\* texts are what the lexer makes of each argument
LexedEach(args, escape, e, texts) ==
    /\ \A m \in DOMAIN args : Process(NewLex(escape), e, args[m]).ok
    /\ texts = [m \in DOMAIN args |-> Process(NewLex(escape), e, args[m]).text]

\* If every name and value is read without an error, they are the pairs the lexer reads in the line.
LEMMA PairsMeant ==
    ASSUME NEW rest \in Texts, Plain(rest), NEW escape \in {Backslash, Backtick}, NEW words, words = ParseWords(rest, escape),
           \A k \in DOMAIN words : HasEq(words[k]), NEW args, args = PairsOf(words), NEW e, NEW texts,
           LexedEach(args, escape, e, texts)
    PROVE  PairsRead(rest, escape, texts)
<1> DEFINE n == Len(words)
           read == ReadEach(words, escape)
           Text1(s) == Process(NewLex(escape), e, s).text
<1>0. /\ \A m \in DOMAIN args : Process(NewLex(escape), e, args[m]).ok
      /\ texts = [m \in DOMAIN args |-> Process(NewLex(escape), e, args[m]).text]
  BY DEF LexedEach
<1>1. escape \in Chars BY CharFacts
<1>2. words \in Seq(Texts) /\ \A k \in DOMAIN words : Plain(words[k]) BY <1>1, WordsTyped, WordsPlain
<1>3. n \in Nat /\ DOMAIN words = 1 .. n /\ \A k \in 1 .. n : words[k] \in Texts /\ Plain(words[k]) /\ HasEq(words[k])
  BY <1>2
<1>4. /\ args \in Seq(Texts) /\ Len(args) = 2 * n
      /\ \A k \in 1 .. n : args[2 * k - 1] = Key(words[k]) /\ args[2 * k] = Value(words[k])
  BY <1>2, PairsAre
<1>5. DOMAIN args = 1 .. 2 * n BY <1>4
<1> HIDE DEF n
<1>6. ASSUME NEW k \in 1 .. n
      PROVE  /\ 2 * k - 1 \in 1 .. 2 * n /\ 2 * k \in 1 .. 2 * n
             /\ ReadsAs(escape, e, args[2 * k - 1]) /\ ReadsAs(escape, e, args[2 * k])
             /\ CutTheSame(words[k], escape)
             /\ Text1(args[2 * k - 1]) = TextIs(Key(words[k]), escape)
             /\ Text1(args[2 * k]) = TextIs(Value(words[k]), escape)
  <2>1. 2 * k - 1 \in 1 .. 2 * n /\ 2 * k \in 1 .. 2 * n BY <1>3
  <2>2. words[k] \in Texts /\ Plain(words[k]) /\ HasEq(words[k]) BY <1>3
  <2>3. Plain(Key(words[k])) /\ Plain(Value(words[k])) /\ Key(words[k]) \in Texts /\ Value(words[k]) \in Texts
    BY <2>2, PlainKey
  <2>4. ReadsAs(escape, e, Key(words[k])) /\ ReadsAs(escape, e, Value(words[k])) BY <2>3, ReadAsMeant
  <2>5. args[2 * k - 1] = Key(words[k]) /\ args[2 * k] = Value(words[k]) BY <1>4
  <2>6. Process(NewLex(escape), e, args[2 * k - 1]).ok /\ Process(NewLex(escape), e, args[2 * k]).ok BY <1>0, <1>5, <2>1
  <2>7. /\ Ends(Key(words[k]), escape) /\ Ends(Value(words[k]), escape)
        /\ Text1(args[2 * k - 1]) = TextIs(Key(words[k]), escape)
        /\ Text1(args[2 * k]) = TextIs(Value(words[k]), escape)
    BY <2>4, <2>5, <2>6 DEF ReadsAs
  <2>8. CutTheSame(words[k], escape) BY <2>2, <2>7, AtEquals
  <2> QED BY <2>1, <2>4, <2>5, <2>7, <2>8
<1> HIDE DEF Text1
<1>7. AllEnd(words, escape) BY <1>3, <1>6 DEF AllEnd, CutTheSame
<1>8. Ends(rest, escape) /\ MeantWords(rest, Modes(rest, escape)) = read BY <1>7, ParsedAsRead
<1>9. Process(NewLex(escape), NoEnv, rest).ok /\ Process(NewLex(escape), NoEnv, rest).words = read
  BY <1>8, LexedAsMeant DEF Ends
<1>10. read \in Seq(Texts) /\ Len(read) = n /\ \A k \in 1 .. n : read[k] = TextIs(words[k], escape)
  <2>1. read = [k \in 1 .. n |-> TextIs(words[k], escape)] BY <1>3 DEF ReadEach
  <2>2. \A k \in 1 .. n : TextIs(words[k], escape) \in Texts BY <1>3, KeptOf
  <2> HIDE DEF read
  <2> QED BY <1>3, <2>1, <2>2
<1> HIDE DEF read
<1>11. /\ PairsOf(read) \in Seq(Texts) /\ Len(PairsOf(read)) = 2 * n
       /\ \A k \in 1 .. n : PairsOf(read)[2 * k - 1] = Key(read[k]) /\ PairsOf(read)[2 * k] = Value(read[k])
  BY <1>10, PairsAre
<1>12. texts = [m \in 1 .. 2 * n |-> Text1(args[m])] BY <1>0, <1>5 DEF Text1
<1>13. ASSUME NEW m \in 1 .. 2 * n PROVE Text1(args[m]) = PairsOf(read)[m]
  <2>1. PICK k \in 1 .. n : m = 2 * k - 1 \/ m = 2 * k BY <1>3, EvenOdd
  <2>2. Key(read[k]) = TextIs(Key(words[k]), escape) /\ Value(read[k]) = TextIs(Value(words[k]), escape)
    BY <1>6, <1>10 DEF CutTheSame
  <2>3. CASE m = 2 * k - 1 BY <1>6, <1>11, <2>2, <2>3
  <2>4. CASE m = 2 * k BY <1>6, <1>11, <2>2, <2>4
  <2> QED BY <2>1, <2>3, <2>4
<1>14. texts = PairsOf(read)
  <2> DEFINE l == PairsOf(read)
  <2>1. l \in Seq(Texts) /\ Len(l) = 2 * n BY <1>11
  <2>2. \A m \in 1 .. 2 * n : Text1(args[m]) = l[m] BY <1>13
  <2> HIDE DEF l
  <2>3. \A m \in 1 .. 2 * n : texts[m] = l[m] BY <1>12, <2>2
  <2>4. \A m \in 1 .. 2 * n : texts[m] \in Texts
    <3>1. \A m \in 1 .. 2 * n : l[m] \in Texts BY <1>3, <2>1
    <3> QED BY <2>3, <3>1
  <2>5. texts = [m \in 1 .. 2 * n |-> texts[m]] BY <1>12
  <2>6. texts \in Seq(Texts) /\ Len(texts) = 2 * n BY <1>3, <2>4, <2>5
  <2>7. texts = l BY <2>1, <2>3, <2>6
  <2> QED BY <2>7 DEF l
<1> QED BY <1>9, <1>14 DEF PairsRead

\* An ENV has the names and values that ParseNameVal cuts its line into.
LEMMA PairsOfNode ==
    ASSUME NEW line, NEW escape, NodeOf(line, escape).cmd = "env"
    PROVE  LET rest == SplitFlags(AfterFirst(Trim(line.text))).args
           IN  NodeOf(line, escape).args = ParseNameVal(rest, ParseWords(rest, escape)).args
<1> DEFINE Sub(rest) == ParseSubCommand(rest, escape)
           text == Trim(line.text)
           cmd == CommandOf(FirstWord(text))
           rest == SplitFlags(AfterFirst(text)).args
           parsed == ParseArgs(cmd, rest, escape, Sub)
           node == NewNodeFromLine(line.text, escape)
<1>1. node.cmd = cmd /\ node.args = parsed.args BY DEF NewNodeFromLine, NodeFromLine
<1>2. NodeOf(line, escape).cmd = node.cmd /\ NodeOf(line, escape).args = node.args BY DEF NodeOf, WithDocs
<1> HIDE DEF node, cmd, rest, text
<1>3. cmd = "env" BY <1>1, <1>2
<1>4. parsed = ParseNameVal(rest, ParseWords(rest, escape)) BY <1>3 DEF ParseArgs
<1> QED BY <1>1, <1>2, <1>4 DEF rest, text

\* An accepted ENV is the line's node with its words, and has some.
LEMMA EnvOfNode ==
    ASSUME NEW node, ParseInstruction(node).ok, ParseInstruction(node).name = "env"
    PROVE  node.cmd = "env" /\ ParseInstruction(node).words = node.args /\ node.args # <<>>
<1> DEFINE ins == ParseInstruction(node)
           flags == ParseFlags(IF ParsesFlags(node) THEN node.flags ELSE <<>>, FlagsOf(node.cmd))
<1>1. ins = IF flags.ok /\ Accepts(node, flags.values) THEN Instruction(node, flags.values) ELSE NoInstruction
  BY DEF ParseInstruction
<1>2. NoInstruction.ok = FALSE BY DEF NoInstruction
<1> HIDE DEF ins, flags
<1>3. ins.ok /\ ins.name = "env" BY DEF ins
<1>4. Accepts(node, flags.values) /\ ins = Instruction(node, flags.values) BY <1>1, <1>2, <1>3
<1>5. ins.name = node.cmd /\ (node.cmd = "env" => ins.words = node.args)
  BY <1>4 DEF Instruction, InstructionWith, WordsOf
<1>6. node.cmd = "env" BY <1>3, <1>5
<1>7. IsPairs(node.args) BY <1>4, <1>6 DEF Accepts
<1> QED BY <1>5, <1>6, <1>7 DEF IsPairs, ins

\* parseNameVal that leaves anything of name=value words cuts each of them.
LEMMA PairsOfWords ==
    ASSUME NEW rest, NEW words, words # <<>>, HasEq(words[1]), ParseNameVal(rest, words).args # <<>>
    PROVE  ParseNameVal(rest, words).args = PairsOf(words) /\ \A k \in DOMAIN words : HasEq(words[k])
<1> DEFINE pairs == FlattenSeq([i \in DOMAIN words |-> <<Key(words[i]), Value(words[i])>>])
<1>1. pairs = PairsOf(words) BY DEF PairsOf, PairOf
<1>2. ParseNameVal(rest, words) = IF \E i \in DOMAIN words : ~HasEq(words[i]) THEN BadLine ELSE Args(pairs)
  BY DEF ParseNameVal
<1> HIDE DEF pairs
<1>3. BadLine.args = <<>> /\ Args(pairs).args = pairs BY DEF BadLine, Args
<1> QED BY <1>1, <1>2, <1>3

\* An ENV is expanded by reading each of its words.
LEMMA EnvExpanded ==
    ASSUME NEW ins, IsCommand(ins), ins.name = "env", NEW lx, NEW e, Expand(ins, lx, e).ok
    PROVE  /\ Expand(ins, lx, e).words = [i \in DOMAIN ins.words |-> Process(lx, e, ins.words[i]).text]
           /\ \A i \in DOMAIN ins.words : Process(lx, e, ins.words[i]).ok
<1> DEFINE d == Expand(ins, lx, e)
           read == [i \in DOMAIN ins.words |-> Process(lx, e, ins.words[i])]
           texts == [i \in DOMAIN read |-> read[i].text]
<1>1. DOMAIN ins = InstructionFields BY DEF IsCommand
<1>2. NoInstruction.ok = FALSE BY DEF NoInstruction
<1>3. d = WithWords(ins, read) BY DEF Expand, Expandable
<1>4. DOMAIN read = DOMAIN ins.words /\ \A i \in DOMAIN ins.words : read[i] = Process(lx, e, ins.words[i]) OBVIOUS
<1>5. texts = [i \in DOMAIN ins.words |-> Process(lx, e, ins.words[i]).text] OBVIOUS
<1> HIDE DEF d, read
<1>6. d = IF \E i \in DOMAIN read : ~read[i].ok THEN NoInstruction ELSE [ins EXCEPT !.words = texts]
  BY <1>3 DEF WithWords, Checked
<1> HIDE DEF texts
<1>7. (\A i \in DOMAIN read : read[i].ok) /\ d = [ins EXCEPT !.words = texts] BY <1>2, <1>6 DEF d
<1>8. d.words = texts BY <1>1, <1>7 DEF InstructionFields
<1> QED BY <1>4, <1>5, <1>7, <1>8 DEF d

\* A command that is expanded keeps its name.
LEMMA ExpandedName ==
    ASSUME NEW ins, IsCommand(ins), NEW scope, Expand(ins, Lex, scope).ok
    PROVE  Expand(ins, Lex, scope).name = ins.name
<1> DEFINE d == Expand(ins, Lex, scope)
           text(k) == Text(file, scope, ins.words[k])
<1>1. /\ d.name = ins.name /\ d.sets = ins.sets
      /\ ins.name \in {"env", "arg"} => d.words = [i \in DOMAIN ins.words |-> text(i)]
  BY ExpandedCommand DEF Lex
<1> QED BY <1>1

\* A dispatched ENV assigns the pairs the lexer reads in its line.
LEMMA EnvWords == Shape /\ InScope /\ GoodSoFar => WordsAgree
<1> DEFINE RestAt(j) == SplitFlags(RestOf(LineOf(j))).args
<1> SUFFICES ASSUME Shape, InScope, GoodSoFar, NEW j \in DOMAIN Done, Done[j].name = "env",
                    Plain(RestAt(j)), HasEq(ParseWords(RestAt(j), file.escape)[1])
             PROVE  PairsRead(RestAt(j), file.escape, Done[j].words)
  BY DEF WordsAgree, PairsRead, PairsOf, PairOf, Read1, Lex
<1> DEFINE n == Len(log)
           cs == stages[n].commands
           at == LineOf(j)
           node == nodes[at]
           ins == ParseInstruction(node)
           d == Done[j]
           rest == RestAt(j)
           words == ParseWords(rest, file.escape)
<1>1. log # <<>>
  <2> SUFFICES ASSUME log = <<>> PROVE FALSE
    OBVIOUS
  <2>1. Done = <<>> BY DEF Done
  <2>2. DOMAIN Done = {} BY <2>1
  <2> HIDE DEF d
  <2> QED BY <2>2
<1>2. Sequence(log) /\ n \in Nat /\ n \in 1 .. Len(log) BY <1>1, SequenceFacts DEF Shape, LogMade, Sequence
<1>3. Sequence(Done) /\ DOMAIN Done = 1 .. Len(Done) BY <1>1, <1>2, SequenceFacts DEF Done, Shape, LogMade
<1>4. n \in 1 .. Len(stages)
  <2>1. Len(stages) \in Nat BY SequenceFacts DEF Shape, StagesMade
  <2> QED BY <1>2, <2>1 DEF Shape, LogMade
<1>5. j \in 1 .. Len(cs) /\ d.ok
  <2>1. Sequence(cs) BY <1>4 DEF Shape, StagesMade, StageMade
  <2>2. Len(cs) \in Nat /\ Len(Done) \in Nat BY <1>3, <2>1, SequenceFacts
  <2>3. j \in 1 .. Len(Done) BY <1>3
  <2>4. j <= Len(cs) /\ d.ok BY <1>1, <2>3 DEF GoodSoFar
  <2> HIDE DEF cs, d
  <2> QED BY <2>2, <2>3, <2>4
<1>6. at \in 1 .. Len(nodes) /\ cs[j] = ins /\ ins.ok /\ IsCommand(ins)
  <2>1. StageMade(stages[n], nodes) BY <1>4 DEF Shape, StagesMade
  <2>2. at = stages[n].lines[j] BY DEF LineOf
  <2>3. at \in 1 .. Len(nodes) /\ cs[j].ok /\ cs[j] = ParseInstruction(nodes[at]) BY <1>5, <2>1, <2>2 DEF StageMade
  <2> QED BY <2>3, MadeNode
<1>7. PICK e : d = Expand(ins, Lex, e)
  <2>1. PICK sc : ReadInScope(sc, file, cs, Done) BY <1>1 DEF InScope
  <2>2. d = Expand(cs[j], NewLex(file.escape), sc[j - 1]) BY <2>1 DEF ReadInScope
  <2> QED BY <1>6, <2>2 DEF Lex
<1>8. file.lines[at].text \in Texts /\ node = NodeOf(file.lines[at], file.escape) /\ file.escape \in {Backslash, Backtick}
  <2>1. Len(file.lines) \in Nat /\ Len(nodes) \in Nat BY SequenceFacts DEF Shape, FileGiven, NodesMade
  <2>2. at \in 1 .. Len(file.lines) BY <1>6, <2>1 DEF Shape, NodesMade
  <2> QED BY <1>6, <2>2 DEF Shape, FileGiven, NodesMade
<1>9. rest = SplitFlags(AfterFirst(Trim(file.lines[at].text))).args /\ rest \in Texts
  <2>1. AfterFirst(Trim(file.lines[at].text)) \in Texts BY <1>8, TrimText, WordTexts
  <2> QED BY <2>1, FlagsTyped DEF RestOf
<1>10. d.name = "env" /\ Plain(rest) /\ HasEq(words[1]) OBVIOUS
<1> SUFFICES PairsRead(rest, file.escape, d.words)
  OBVIOUS
<1> HIDE DEF d, cs, n, rest, words, at, node, ins
<1>11. ins.name = "env"
  <2>1. Expand(ins, Lex, e).ok BY <1>5, <1>7
  <2>2. Expand(ins, Lex, e).name = ins.name BY <1>6, <2>1, ExpandedName
  <2> QED BY <1>7, <1>10, <2>2
<1>12. node.cmd = "env" /\ ins.words = node.args /\ node.args # <<>> BY <1>6, <1>11, EnvOfNode DEF ins
<1>13. node.args = ParseNameVal(rest, words).args BY <1>8, <1>9, <1>12, PairsOfNode DEF words
<1>14. words # <<>>
  <2>1. ParseNameVal(rest, <<>>).args = <<>> BY DEF ParseNameVal, Args
  <2> QED BY <1>12, <1>13, <2>1
<1>15. node.args = PairsOf(words) /\ \A k \in DOMAIN words : HasEq(words[k])
  BY <1>10, <1>12, <1>13, <1>14, PairsOfWords
<1>16. /\ d.words = [i \in DOMAIN ins.words |-> Process(Lex, e, ins.words[i]).text]
       /\ \A i \in DOMAIN ins.words : Process(Lex, e, ins.words[i]).ok
  BY <1>5, <1>6, <1>7, <1>11, EnvExpanded
<1> QED
  <2> DEFINE args == node.args
             texts == [m \in DOMAIN args |-> Process(NewLex(file.escape), e, args[m]).text]
  <2>1. words = ParseWords(rest, file.escape) BY DEF words
  <2>2. d.words = texts /\ \A m \in DOMAIN args : Process(NewLex(file.escape), e, args[m]).ok
    BY <1>12, <1>16 DEF Lex
  <2>3. args = PairsOf(words) /\ \A k \in DOMAIN words : HasEq(words[k]) BY <1>15
  <2>4. LexedEach(args, file.escape, e, texts) BY <2>2 DEF LexedEach
  <2> HIDE DEF args, texts
  <2>5. PairsRead(rest, file.escape, texts) BY <1>8, <1>9, <1>10, <2>1, <2>3, <2>4, PairsMeant
  <2> QED BY <2>2, <2>5

(* ENV passes two parsers: one splits the line into words, and the lexer   *)
(* reads each name and each value on its own when the instruction is       *)
(* dispatched.  Of a line of name=value words without variables, together  *)
(* they assign what the lexer alone reads in the line, cut at the first    *)
(* equals sign of each word (parseWords, parseNameVal, Expand): for every  *)
(* Dockerfile, build arguments and bases.                                  *)
THEOREM EnvWordsAgree == Spec => []WordsAgree
<1>1. Spec => [](Shape /\ InScope /\ GoodSoFar)
  BY ShapeInit, InScopeInit, GoodInit, ShapeStep, InScopeStep, GoodStep, PTL DEF Spec
<1>2. Shape /\ InScope /\ GoodSoFar => WordsAgree BY EnvWords
<1> QED BY <1>1, <1>2, PTL
=============================================================================
