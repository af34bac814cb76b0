--------------------------- MODULE Dispatch_proofs ---------------------------
(***************************************************************************)
(* Proofs about the dispatch loop.                                         *)
(***************************************************************************)
EXTENDS Dispatch, FiniteSetTheorems, WellFoundedInduction, TLAPS

-----------------------------------------------------------------------------
(* Induction for the provers at hand, which cannot instantiate a theorem   *)
(* about an operator: it is stated of a set of numbers, and recursion of   *)
(* a function F whose F[i] is what the i-th step does.                     *)

\* A nonempty set of numbers has a least one.
LEMMA NatMin ==
    ASSUME NEW Q \in SUBSET Nat, Q # {}
    PROVE  \E m \in Q : \A n \in Q : m <= n
<1> DEFINE R == {p \in Nat \X Nat : p[1] < p[2]}
<1>1. R = OpToRel(<, Nat) BY DEF OpToRel
<1>2. IsWellFoundedOn(R, Nat) BY <1>1, NatLessThanWellFounded
<1>3. PICK m \in Q : \A n \in Q : <<n, m>> \notin R BY <1>2, WFMin
<1>4. ASSUME NEW n \in Q PROVE m <= n
  <2>1. m \in Nat /\ n \in Nat OBVIOUS
  <2>2. n < m => <<n, m>> \in R BY <2>1
  <2> QED BY <1>3, <2>1, <2>2
<1> QED BY <1>4

\* A set that has 0 and, with every number, the next has all numbers.
LEMMA SetInduction ==
    ASSUME NEW n \in Nat, NEW Q, 0 \in Q, \A i \in 1 .. n : i - 1 \in Q => i \in Q
    PROVE  0 .. n \subseteq Q
<1> DEFINE T == 0 .. n \ Q
<1> SUFFICES ASSUME T # {} PROVE FALSE
  OBVIOUS
<1>1. T \in SUBSET Nat OBVIOUS
<1>2. PICK m \in T : \A k \in T : m <= k BY <1>1, NatMin
<1>3. m \in 1 .. n /\ m - 1 \in 0 .. n BY <1>2
<1>4. m - 1 \notin T BY <1>2, <1>3
<1> QED BY <1>2, <1>3, <1>4

\* n steps on values of X, and the functions that do the first i of them from b
Steps(X, n) == [1 .. n -> [X -> X]]
Runs(X, n, F, b) == {h \in [0 .. n -> X] : h[0] = b /\ \A i \in 1 .. n : h[i] = F[i][h[i - 1]]}

\* There is a function that does any number of steps.
LEMMA Recursion ==
    ASSUME NEW X, NEW n \in Nat, NEW F \in Steps(X, n), NEW b \in X
    PROVE  Runs(X, n, F, b) # {}
<1> DEFINE Upto(m) == {h \in [0 .. m -> X] :
                         h[0] = b /\ \A i \in 1 .. m : h[i] = F[i][h[i - 1]]}
           Q == {m \in 0 .. n : Upto(m) # {}}
<1>1. 0 \in Q
  <2> DEFINE h == [i \in 0 .. 0 |-> b]
  <2>1. h \in Upto(0) OBVIOUS
  <2> QED BY <2>1
<1>2. ASSUME NEW i \in 1 .. n, i - 1 \in Q PROVE i \in Q
  <2>1. PICK h : h \in Upto(i - 1) BY <1>2
  <2> DEFINE g == [j \in 0 .. i |-> IF j = i THEN F[i][h[i - 1]] ELSE h[j]]
  <2>2. h \in [0 .. i - 1 -> X] /\ h[0] = b /\ \A j \in 1 .. i - 1 : h[j] = F[j][h[j - 1]]
    BY <2>1
  <2>3. h[i - 1] \in X /\ F[i] \in [X -> X] BY <2>2 DEF Steps
  <2>4. g \in [0 .. i -> X] BY <2>2, <2>3
  <2>5. g[0] = b BY <2>2
  <2>6. ASSUME NEW j \in 1 .. i PROVE g[j] = F[j][g[j - 1]]
    <3>1. g[j - 1] = h[j - 1] BY <2>6
    <3>2. CASE j = i BY <3>1, <3>2
    <3>3. CASE j # i BY <2>2, <3>1, <3>3
    <3> QED BY <3>2, <3>3
  <2>7. g \in Upto(i) BY <2>4, <2>5, <2>6
  <2> QED BY <2>7
<1> HIDE DEF Q
<1>3. 0 .. n \subseteq Q BY <1>1, <1>2, SetInduction
<1>4. Upto(n) # {} BY <1>3 DEF Q
<1> QED BY <1>4 DEF Runs

-----------------------------------------------------------------------------
(* Lists of instructions, and of instructions that ran.                    *)
Entries == {Ran(c, d, layer) : c \in Instructions, d \in Nat, layer \in BOOLEAN}
Things == Instructions \cup Entries

Among(l, T) == {i \in 1 .. Len(l) : l[i] \in T}

LEMMA AppendFacts ==
    ASSUME NEW l \in Seq(Things), NEW e \in Things
    PROVE  /\ Len(l) \in Nat
           /\ Append(l, e) \in Seq(Things)
           /\ Len(Append(l, e)) = Len(l) + 1
           /\ \A i \in 1 .. Len(l) : Append(l, e)[i] = l[i]
           /\ Append(l, e)[Len(l) + 1] = e
OBVIOUS

LEMMA AmongFacts ==
    ASSUME NEW l \in Seq(Things), NEW T
    PROVE  /\ Among(l, T) \subseteq 1 .. Len(l)
           /\ IsFiniteSet(Among(l, T)) /\ Cardinality(Among(l, T)) \in Nat
<1>1. Len(l) \in Nat OBVIOUS
<1>2. IsFiniteSet(1 .. Len(l)) BY <1>1, FS_Interval
<1>3. Among(l, T) \subseteq 1 .. Len(l) BY DEF Among
<1>4. IsFiniteSet(Among(l, T)) BY <1>2, <1>3, FS_Subset
<1> QED BY <1>3, <1>4, FS_CardinalityType

LEMMA AmongAppend ==
    ASSUME NEW l \in Seq(Things), NEW e \in Things, NEW T
    PROVE  Among(Append(l, e), T) = Among(l, T) \cup (IF e \in T THEN {Len(l) + 1} ELSE {})
<1>1. 1 .. Len(Append(l, e)) = (1 .. Len(l)) \cup {Len(l) + 1} BY AppendFacts
<1> QED BY <1>1, AppendFacts DEF Among

\* The k-th of a finite set of numbers.
Below(I, i) == {j \in I : j <= i}
Ranked(I) == \A k \in 1 .. Cardinality(I) : \E i \in I : Cardinality(Below(I, i)) = k

LEMMA RankedOneMore ==
    ASSUME NEW m \in Nat, NEW H \in SUBSET (1 .. m), Ranked(H)
    PROVE  Ranked(H \cup {m + 1})
<1> DEFINE J == H \cup {m + 1}
<1>0. IsFiniteSet(1 .. m) BY FS_Interval
<1>1. IsFiniteSet(H) BY <1>0, FS_Subset
<1>2. Cardinality(J) = Cardinality(H) + 1 /\ Cardinality(H) \in Nat
  BY <1>1, FS_AddElement, FS_CardinalityType
<1>3. Below(J, m + 1) = J
  <2>1. \A j \in J : j <= m + 1 OBVIOUS
  <2> HIDE DEF J
  <2> QED BY <2>1 DEF Below
<1>4. \A i \in H : Below(J, i) = Below(H, i) BY DEF Below
<1> HIDE DEF J
<1>5. H \subseteq J /\ m + 1 \in J BY DEF J
<1>6. ASSUME NEW k \in 1 .. Cardinality(J) PROVE \E i \in J : Cardinality(Below(J, i)) = k
  <2>1. CASE k = Cardinality(J) BY <1>3, <1>5, <2>1
  <2>2. CASE k # Cardinality(J)
    <3>1. k \in 1 .. Cardinality(H) BY <1>2, <2>2
    <3>2. PICK i \in H : Cardinality(Below(H, i)) = k BY <3>1 DEF Ranked
    <3> QED BY <1>4, <1>5, <3>2
  <2> QED BY <2>1, <2>2
<1> QED BY <1>6 DEF Ranked, J

LEMMA AllRanked == ASSUME NEW n \in Nat, NEW I \in SUBSET (1 .. n) PROVE Ranked(I)
<1> DEFINE P == {m \in 0 .. n : \A J \in SUBSET (1 .. m) : Ranked(J)}
<1>1. 0 \in P
  <2>1. \A J \in SUBSET (1 .. 0) : J = {} OBVIOUS
  <2>2. Ranked({}) BY FS_EmptySet DEF Ranked
  <2>3. \A J \in SUBSET (1 .. 0) : Ranked(J) BY <2>1, <2>2
  <2> QED BY <2>3
<1>2. ASSUME NEW m \in 1 .. n, m - 1 \in P PROVE m \in P
  <2>1. ASSUME NEW J \in SUBSET (1 .. m) PROVE Ranked(J)
    <3>1. CASE m \notin J
      <4>1. J \in SUBSET (1 .. m - 1) BY <3>1
      <4> QED BY <1>2, <4>1
    <3>2. CASE m \in J
      <4> DEFINE H == J \ {m}
                 k == m - 1
      <4>1. k \in Nat /\ k + 1 = m OBVIOUS
      <4>2. H \in SUBSET (1 .. k) BY <3>2
      <4>3. Ranked(H) BY <1>2, <4>2
      <4> HIDE DEF k
      <4>4. Ranked(H \cup {k + 1}) BY <4>1, <4>2, <4>3, RankedOneMore
      <4>5. J = H \cup {k + 1} BY <3>2, <4>1
      <4> QED BY <4>4, <4>5
    <3> QED BY <3>1, <3>2
  <2> QED BY <2>1
<1> HIDE DEF P
<1>3. 0 .. n \subseteq P BY <1>1, <1>2, SetInduction
<1>4. n \in P BY <1>3
<1> QED BY <1>4 DEF P

LEMMA KthFacts ==
    ASSUME NEW n \in Nat, NEW I \in SUBSET (1 .. n), NEW k \in 1 .. Cardinality(I)
    PROVE  Kth(I, k) \in I /\ Cardinality(Below(I, Kth(I, k))) = k
<1>1. \E i \in I : Cardinality({j \in I : j <= i}) = k BY AllRanked DEF Ranked, Below
<1> QED BY <1>1 DEF Kth, Below

\* One more element, after the others, is the last one.
LEMMA KthAppend ==
    ASSUME NEW n \in Nat, NEW I \in SUBSET (1 .. n)
    PROVE  /\ IsFiniteSet(I) /\ Cardinality(I) \in Nat
           /\ Cardinality(I \cup {n + 1}) = Cardinality(I) + 1
           /\ \A k \in 1 .. Cardinality(I) : Kth(I \cup {n + 1}, k) = Kth(I, k)
           /\ Kth(I \cup {n + 1}, Cardinality(I) + 1) = n + 1
<1> DEFINE J == I \cup {n + 1}
           c == Cardinality(I)
<1>0. IsFiniteSet(1 .. n) BY FS_Interval
<1>1. IsFiniteSet(I) /\ c \in Nat BY <1>0, FS_Subset, FS_CardinalityType
<1>2. Cardinality(J) = c + 1 BY <1>1, FS_AddElement
<1>3. \A i \in I : Below(J, i) = Below(I, i) BY DEF Below
<1>4. Below(J, n + 1) = J
  <2>1. \A j \in J : j <= n + 1 OBVIOUS
  <2> HIDE DEF J
  <2> QED BY <2>1 DEF Below
<1>5. ASSUME NEW i \in I PROVE Cardinality(Below(I, i)) <= c /\ Cardinality(Below(I, i)) \in Nat
  <2>1. Below(I, i) \subseteq I BY DEF Below
  <2> QED BY <1>1, <2>1, FS_Subset, FS_CardinalityType
<1>6. J \in SUBSET (1 .. n + 1) /\ n + 1 \in Nat OBVIOUS
<1>7. n + 1 \notin I OBVIOUS
<1> HIDE DEF c
<1>8. ASSUME NEW k \in 1 .. c PROVE Kth(J, k) = Kth(I, k)
  <2>0. Cardinality(Below(J, n + 1)) # k BY <1>1, <1>2, <1>4
  <2>1. \A i : (i \in J /\ Cardinality(Below(J, i)) = k) <=> (i \in I /\ Cardinality(Below(I, i)) = k)
    BY <1>3, <2>0
  <2> HIDE DEF J
  <2>2. (CHOOSE i : i \in J /\ Cardinality(Below(J, i)) = k) = (CHOOSE i : i \in I /\ Cardinality(Below(I, i)) = k)
    BY <2>1
  <2> QED BY <2>2 DEF Kth, Below
<1>9. Kth(J, c + 1) = n + 1
  <2>1. c + 1 \in 1 .. Cardinality(J) BY <1>1, <1>2
  <2> DEFINE i == Kth(J, c + 1)
  <2>2. i \in J /\ Cardinality(Below(J, i)) = c + 1 BY <1>6, <2>1, KthFacts
  <2> HIDE DEF i
  <2>3. i \in I => FALSE BY <1>1, <1>3, <1>5, <2>2
  <2>4. i = n + 1 BY <2>2, <2>3
  <2> QED BY <2>4 DEF i
<1> QED BY <1>1, <1>2, <1>8, <1>9 DEF c

\* The elements at the positions I of a list are a list.
LEMMA PickedType ==
    ASSUME NEW l \in Seq(Things), NEW I \in SUBSET (1 .. Len(l))
    PROVE  /\ Picked(l, I) \in Seq(Things)
           /\ Len(Picked(l, I)) = Cardinality(I)
           /\ \A k \in 1 .. Cardinality(I) : Kth(I, k) \in I /\ Picked(l, I)[k] = l[Kth(I, k)]
<1>1. Len(l) \in Nat OBVIOUS
<1>2. Cardinality(I) \in Nat BY <1>1, KthAppend
<1>3. \A k \in 1 .. Cardinality(I) : Kth(I, k) \in I BY <1>1, KthFacts
<1>4. \A i \in I : l[i] \in Things OBVIOUS
<1>5. \A k \in 1 .. Cardinality(I) : l[Kth(I, k)] \in Things BY <1>3, <1>4
<1>6. Picked(l, I) \in [1 .. Cardinality(I) -> Things] BY <1>5 DEF Picked
<1> QED BY <1>2, <1>3, <1>6 DEF Picked

LEMMA PickedAppend ==
    ASSUME NEW l \in Seq(Things), NEW e \in Things, NEW I \in SUBSET (1 .. Len(l))
    PROVE  /\ Picked(Append(l, e), I) = Picked(l, I)
           /\ Picked(Append(l, e), I \cup {Len(l) + 1}) = Append(Picked(l, I), e)
<1> DEFINE n == Len(l)
           m == Append(l, e)
           c == Cardinality(I)
           J == I \cup {n + 1}
<1>0. n \in Nat OBVIOUS
<1>1. n \in Nat /\ c \in Nat /\ Cardinality(J) = c + 1 BY <1>0, KthAppend
<1>2. (\A k \in 1 .. c : Kth(J, k) = Kth(I, k)) /\ Kth(J, c + 1) = n + 1 BY <1>1, KthAppend
<1>3. \A k \in 1 .. c : Kth(I, k) \in I BY <1>1, KthFacts
<1>4. (\A i \in I : m[i] = l[i]) /\ m[n + 1] = e BY AppendFacts
<1>5. Picked(l, I) \in Seq(Things) /\ Len(Picked(l, I)) = c BY PickedType
<1> HIDE DEF n, m, c, J
<1>6. Picked(m, I) = Picked(l, I) BY <1>3, <1>4 DEF Picked, c
<1>7. Picked(m, J) = [k \in 1 .. c + 1 |-> m[Kth(J, k)]] BY <1>1 DEF Picked
<1>8. \A k \in 1 .. c : m[Kth(J, k)] = Picked(l, I)[k] BY <1>2, <1>3, <1>4 DEF Picked, c
<1>9. m[Kth(J, c + 1)] = e BY <1>2, <1>4
<1>10. \A k \in 1 .. c + 1 : m[Kth(J, k)] = Append(Picked(l, I), e)[k] BY <1>1, <1>5, <1>8, <1>9
<1>11. Append(Picked(l, I), e) = [k \in 1 .. c + 1 |-> Append(Picked(l, I), e)[k]]
  <2> DEFINE s == Append(Picked(l, I), e)
  <2>1. s \in Seq(Things) /\ Len(s) = c + 1 BY <1>5, AppendFacts
  <2> HIDE DEF s
  <2>2. s = [k \in 1 .. c + 1 |-> s[k]] BY <2>1
  <2> QED BY <2>2 DEF s
<1>12. Picked(m, J) = Append(Picked(l, I), e) BY <1>7, <1>10, <1>11
<1> QED BY <1>6, <1>12 DEF m, J, n

-----------------------------------------------------------------------------
(* What one more instruction changes in the reference definitions.         *)
WithOp(f) == {c \in Things : c.op = f}

LEMMA AmongOp ==
    ASSUME NEW l \in Seq(Things), NEW e \in Things, NEW f
    PROVE  Among(Append(l, e), WithOp(f)) =
               IF e.op = f THEN Among(l, WithOp(f)) \cup {Len(l) + 1} ELSE Among(l, WithOp(f))
<1> DEFINE T == WithOp(f)
<1>1. e \in T <=> e.op = f BY DEF WithOp
<1>2. Among(Append(l, e), T) = Among(l, T) \cup (IF e \in T THEN {Len(l) + 1} ELSE {}) BY AmongAppend
<1> HIDE DEF T
<1>3. Among(Append(l, e), T) = IF e.op = f THEN Among(l, T) \cup {Len(l) + 1} ELSE Among(l, T)
  BY <1>1, <1>2
<1> QED BY <1>3 DEF T

LEMMA WhichOp == ASSUME NEW l \in Seq(Things), NEW f PROVE Which(l, LAMBDA c : c.op = f) = Among(l, WithOp(f))
<1>1. \A i \in 1 .. Len(l) : l[i] \in Things OBVIOUS
<1> QED BY <1>1 DEF Which, Among, WithOp

\* The last of some positions is one of them, and a new one after them is the last.
LEMMA LatestFacts ==
    ASSUME NEW n \in Nat, NEW I \in SUBSET (1 .. n)
    PROVE  /\ I # {} => Latest(I) \in I /\ \A j \in I : j <= Latest(I)
           /\ Latest(I \cup {n + 1}) = n + 1
<1>1. I # {} => \E i \in I : \A j \in I : j <= i
  <2> SUFFICES ASSUME I # {} PROVE \E i \in I : \A j \in I : j <= i
    OBVIOUS
  <2> DEFINE M == {n - j : j \in I}
  <2>0. \A j \in I : n - j \in Nat OBVIOUS
  <2>1. M \in SUBSET Nat /\ M # {} BY <2>0
  <2> HIDE DEF M
  <2>2. PICK m \in M : \A k \in M : m <= k BY <2>1, NatMin
  <2>3. PICK i \in I : m = n - i BY DEF M
  <2>4. ASSUME NEW j \in I PROVE j <= i
    <3>1. n - j \in M BY DEF M
    <3>2. n - i <= n - j BY <2>2, <2>3, <3>1
    <3> QED BY <3>2
  <2> QED BY <2>4
<1>2. Latest(I \cup {n + 1}) = n + 1
  <2> DEFINE J == I \cup {n + 1}
  <2>1. \A j \in J : j <= n + 1 OBVIOUS
  <2>2. \A i \in I : ~(n + 1 <= i) OBVIOUS
  <2>3. n + 1 \in J OBVIOUS
  <2>4. \A i \in J : (\A j \in J : j <= i) => i = n + 1 BY <2>2
  <2> HIDE DEF J
  <2>5. Latest(J) = n + 1 BY <2>1, <2>3, <2>4 DEF Latest
  <2> QED BY <2>5 DEF J
<1> QED BY <1>1, <1>2 DEF Latest

\* the field f of what is set last
LEMMA SetValueAppend ==
    ASSUME NEW l \in Seq(Things), NEW e \in Things, NEW f, f # "WorkingDir"
    PROVE  SetValue(Append(l, e), f) = IF e.op = f THEN e.val ELSE SetValue(l, f)
<1> DEFINE n == Len(l)
           m == Append(l, e)
           I == Among(l, WithOp(f))
<1>1. n \in Nat /\ I \in SUBSET (1 .. n) BY AmongFacts
<1>2. m \in Seq(Things) /\ (\A i \in 1 .. n : m[i] = l[i]) /\ m[n + 1] = e BY AppendFacts
<1>3. Among(m, WithOp(f)) = IF e.op = f THEN I \cup {n + 1} ELSE I BY AmongOp
<1>4. Which(l, LAMBDA c : c.op = f) = I BY WhichOp
<1>5. Which(m, LAMBDA c : c.op = f) = Among(m, WithOp(f)) BY <1>2, WhichOp
<1> HIDE DEF n, m, I
<1>6. SetValue(l, f) = IF I = {} THEN Absent ELSE l[Latest(I)].val BY <1>4 DEF SetValue
<1>7. SetValue(m, f) = IF Among(m, WithOp(f)) = {} THEN Absent ELSE m[Latest(Among(m, WithOp(f)))].val
  BY <1>5 DEF SetValue
<1>8. CASE e.op = f
  <2>1. Among(m, WithOp(f)) # {} /\ Latest(Among(m, WithOp(f))) = n + 1 BY <1>1, <1>3, <1>8, LatestFacts
  <2> QED BY <1>2, <1>7, <1>8, <2>1 DEF m
<1>9. CASE e.op # f
  <2>1. I # {} => Latest(I) \in 1 .. n BY <1>1, LatestFacts
  <2> QED BY <1>2, <1>3, <1>6, <1>7, <1>9, <2>1 DEF m
<1> QED BY <1>8, <1>9

\* the arguments of an instruction depend on what came before it
ShellArgs(shell, c) == IF c.key = "shell" THEN <<shell, c.val>> ELSE <<c.val>>

LEMMA ArgsAppend ==
    ASSUME NEW l \in Seq(Things), NEW e \in Things
    PROVE  /\ \A i \in 1 .. Len(l) : ArgsOf(Append(l, e), i) = ArgsOf(l, i)
           /\ ArgsOf(Append(l, e), Len(l) + 1) = ShellArgs(SetValue(l, "Shell"), e)
<1> DEFINE n == Len(l)
           m == Append(l, e)
<1>1. n \in Nat /\ m \in Seq(Things) /\ Len(m) = n + 1 /\ (\A i \in 1 .. n : m[i] = l[i]) /\ m[n + 1] = e
  BY AppendFacts
<1> HIDE DEF n, m
<1>2. ASSUME NEW i \in 1 .. n + 1 PROVE SubSeq(m, 1, i - 1) = SubSeq(l, 1, i - 1)
  <2>1. SubSeq(m, 1, i - 1) = [k \in 1 .. i - 1 |-> m[k]] BY <1>1
  <2>2. SubSeq(l, 1, i - 1) = [k \in 1 .. i - 1 |-> l[k]] BY <1>1
  <2>3. \A k \in 1 .. i - 1 : k \in 1 .. n BY <1>1
  <2>4. \A k \in 1 .. i - 1 : m[k] = l[k] BY <1>1, <2>3
  <2> QED BY <2>1, <2>2, <2>4
<1>3. SubSeq(l, 1, n) = l BY <1>1 DEF n
<1>4. ASSUME NEW i \in 1 .. n PROVE ArgsOf(m, i) = ArgsOf(l, i)
  <2>1. i \in 1 .. n + 1 BY <1>1
  <2> QED BY <1>1, <1>2, <2>1 DEF ArgsOf
<1>5. ArgsOf(m, n + 1) = ShellArgs(SetValue(l, "Shell"), e)
  <2>1. n + 1 \in 1 .. n + 1 /\ (n + 1) - 1 = n BY <1>1
  <2>2. SubSeq(m, 1, (n + 1) - 1) = l BY <1>2, <1>3, <2>1
  <2> QED BY <1>1, <2>2 DEF ArgsOf, ShellArgs
<1> QED BY <1>4, <1>5 DEF n, m

\* what is run is the last ENTRYPOINT
LEMMA EntrypointAppend ==
    ASSUME NEW l \in Seq(Things), NEW e \in Things
    PROVE  EntrypointOf(Append(l, e)) =
               IF e.op = "Entrypoint" THEN ShellArgs(SetValue(l, "Shell"), e) ELSE EntrypointOf(l)
<1> DEFINE n == Len(l)
           m == Append(l, e)
           I == Among(l, WithOp("Entrypoint"))
           J == Among(m, WithOp("Entrypoint"))
<1>1. n \in Nat /\ I \in SUBSET (1 .. n) BY AmongFacts
<1>2. m \in Seq(Things) BY AppendFacts
<1>3. J = IF e.op = "Entrypoint" THEN I \cup {n + 1} ELSE I BY AmongOp
<1>4. Which(l, LAMBDA c : c.op = "Entrypoint") = I BY WhichOp
<1>5. Which(m, LAMBDA c : c.op = "Entrypoint") = J BY <1>2, WhichOp
<1>6. (\A i \in 1 .. n : ArgsOf(m, i) = ArgsOf(l, i)) /\ ArgsOf(m, n + 1) = ShellArgs(SetValue(l, "Shell"), e)
  BY ArgsAppend
<1> HIDE DEF n, m, I, J
<1>7. EntrypointOf(l) = IF I = {} THEN Absent ELSE ArgsOf(l, Latest(I)) BY <1>4 DEF EntrypointOf
<1>8. EntrypointOf(m) = IF J = {} THEN Absent ELSE ArgsOf(m, Latest(J)) BY <1>5 DEF EntrypointOf
<1>9. CASE e.op = "Entrypoint"
  <2>1. J # {} /\ Latest(J) = n + 1 BY <1>1, <1>3, <1>9, LatestFacts
  <2> QED BY <1>6, <1>8, <1>9, <2>1 DEF m
<1>10. CASE e.op # "Entrypoint"
  <2>1. I # {} => Latest(I) \in 1 .. n BY <1>1, LatestFacts
  <2> QED BY <1>3, <1>6, <1>7, <1>8, <1>10, <2>1 DEF m
<1> QED BY <1>9, <1>10

\* a list in which every instruction is of the stage given last, or an earlier one
Ordered(l) == \A i, j \in 1 .. Len(l) : i <= j => l[i].stage <= l[j].stage
CmdIn(l, d) == \E i \in 1 .. Len(l) : l[i].op = "Cmd" /\ l[i].stage = d

LEMMA CmdAppend ==
    ASSUME NEW l \in Seq(Entries), NEW e \in Entries, Ordered(l),
           \A i \in 1 .. Len(l) : l[i].stage <= e.stage
    PROVE  CmdOf(Append(l, e)) =
               IF e.op = "Cmd" THEN ShellArgs(SetValue(l, "Shell"), e)
               ELSE IF e.op = "Entrypoint" /\ ~CmdIn(l, e.stage) THEN Absent ELSE CmdOf(l)
<1> DEFINE n == Len(l)
           m == Append(l, e)
           I == Among(l, WithOp("Cmd"))
           J == Among(m, WithOp("Cmd"))
           Cleared(s, i) == \E j \in i + 1 .. Len(s) : s[j].op = "Entrypoint" /\ s[j].stage # s[i].stage
<1>0. l \in Seq(Things) /\ e \in Things BY DEF Things
<1>1. n \in Nat /\ I \in SUBSET (1 .. n) BY <1>0, AmongFacts
<1>2. m \in Seq(Things) /\ Len(m) = n + 1 /\ (\A i \in 1 .. n : m[i] = l[i]) /\ m[n + 1] = e BY <1>0, AppendFacts
<1>3. J = IF e.op = "Cmd" THEN I \cup {n + 1} ELSE I BY <1>0, AmongOp
<1>4. Which(l, LAMBDA c : c.op = "Cmd") = I BY <1>0, WhichOp
<1>5. Which(m, LAMBDA c : c.op = "Cmd") = J BY <1>2, WhichOp
<1>6. (\A i \in 1 .. n : ArgsOf(m, i) = ArgsOf(l, i)) /\ ArgsOf(m, n + 1) = ShellArgs(SetValue(l, "Shell"), e)
  BY <1>0, ArgsAppend
<1>7. \A i \in I : l[i].op = "Cmd" BY DEF Among, WithOp
<1>8. \A i \in 1 .. n : l[i].op = "Cmd" => i \in I
  <2>1. \A i \in 1 .. n : l[i] \in Things BY <1>0
  <2> QED BY <2>1 DEF Among, WithOp
<1>9. \A i \in 1 .. n : l[i].stage \in Nat
  <2>1. \A i \in 1 .. n : l[i] \in Entries OBVIOUS
  <2> QED BY <2>1 DEF Entries, Ran
<1>10. e.stage \in Nat BY DEF Entries, Ran
<1>11. CmdOf(l) = IF I = {} THEN Absent ELSE IF Cleared(l, Latest(I)) THEN Absent ELSE ArgsOf(l, Latest(I))
  BY <1>4 DEF CmdOf
<1>12. CmdOf(m) = IF J = {} THEN Absent ELSE IF Cleared(m, Latest(J)) THEN Absent ELSE ArgsOf(m, Latest(J))
  BY <1>5 DEF CmdOf
<1>13. CmdIn(l, e.stage) <=> \E i \in I : l[i].stage = e.stage BY <1>1, <1>7, <1>8 DEF CmdIn
<1>14. \A i, j \in 1 .. n : i <= j => l[i].stage <= l[j].stage BY DEF Ordered
<1>15. \A i \in 1 .. n : l[i].stage <= e.stage OBVIOUS
<1> HIDE DEF n, m, I, J
<1>16. CASE e.op = "Cmd"
  <2>1. J # {} /\ Latest(J) = n + 1 BY <1>1, <1>3, <1>16, LatestFacts
  <2>2. ~Cleared(m, n + 1) BY <1>1, <1>2
  <2> QED BY <1>6, <1>12, <1>16, <2>1, <2>2 DEF m
<1>17. CASE e.op # "Cmd" /\ I = {}
  <2>1. J = {} /\ ~CmdIn(l, e.stage) BY <1>3, <1>13, <1>17
  <2> QED BY <1>11, <1>12, <1>17, <2>1 DEF m
<1>18. CASE e.op # "Cmd" /\ I # {}
  <2> DEFINE i == Latest(I)
  <2>1. i \in I /\ i \in 1 .. n /\ \A j \in I : j <= i BY <1>1, <1>18, LatestFacts
  <2>2. J = I BY <1>3, <1>18
  <2> HIDE DEF i
  <2>3. ArgsOf(m, i) = ArgsOf(l, i) /\ m[i] = l[i] BY <1>2, <1>6, <2>1
  <2>4. Cleared(m, i) <=> Cleared(l, i) \/ (e.op = "Entrypoint" /\ e.stage # l[i].stage)
    <3>1. i + 1 .. n + 1 = (i + 1 .. n) \cup {n + 1} BY <1>1, <2>1
    <3>2. \A j \in i + 1 .. n : m[j] = l[j] BY <1>1, <1>2, <2>1
    <3>3. Len(l) = n BY DEF n
    <3> QED BY <1>2, <2>3, <3>1, <3>2, <3>3
  <2>5. CmdIn(l, e.stage) <=> l[i].stage = e.stage
    <3>1. ASSUME NEW j \in I, l[j].stage = e.stage PROVE l[i].stage = e.stage
      <4>1. j <= i /\ j \in 1 .. n BY <1>1, <2>1
      <4>2. l[j].stage <= l[i].stage /\ l[i].stage <= e.stage BY <1>14, <1>15, <2>1, <4>1
      <4>3. l[i].stage \in Nat BY <1>9, <2>1
      <4> QED BY <1>10, <3>1, <4>2, <4>3
    <3> QED BY <1>13, <2>1, <3>1
  <2>6. CmdOf(l) = IF Cleared(l, i) THEN Absent ELSE ArgsOf(l, i) BY <1>11, <1>18 DEF i
  <2>7. CmdOf(m) = IF Cleared(m, i) THEN Absent ELSE ArgsOf(m, i) BY <1>12, <1>18, <2>2 DEF i
  <2> QED BY <1>18, <2>3, <2>4, <2>5, <2>6, <2>7 DEF m
<1> QED BY <1>16, <1>17, <1>18

LEMMA PickedTail ==
    ASSUME NEW l \in Seq(Things), NEW e \in Things, NEW T
    PROVE  /\ Picked(l, Among(l, T)) \in Seq(Things)
           /\ Picked(Append(l, e), Among(Append(l, e), T)) =
                  IF e \in T THEN Append(Picked(l, Among(l, T)), e) ELSE Picked(l, Among(l, T))
<1> DEFINE I == Among(l, T)
           J == Among(Append(l, e), T)
<1>1. I \in SUBSET (1 .. Len(l)) BY AmongFacts
<1>2. J = I \cup (IF e \in T THEN {Len(l) + 1} ELSE {}) BY AmongAppend
<1> HIDE DEF I, J
<1>3. Picked(l, I) \in Seq(Things) BY <1>1, PickedType
<1>4. CASE e \in T
  <2>1. J = I \cup {Len(l) + 1} BY <1>2, <1>4
  <2>2. Picked(Append(l, e), J) = Append(Picked(l, I), e) BY <1>1, <2>1, PickedAppend
  <2> QED BY <1>3, <1>4, <2>2 DEF I, J
<1>5. CASE e \notin T
  <2>1. J = I BY <1>2, <1>5
  <2>2. Picked(Append(l, e), J) = Picked(l, I) BY <1>1, <2>1, PickedAppend
  <2> QED BY <1>3, <1>5, <2>2 DEF I, J
<1> QED BY <1>4, <1>5

\* the history has every instruction but ONBUILD
LEMMA HistoryAppend ==
    ASSUME NEW l \in Seq(Things), NEW e \in Things
    PROVE  /\ HistoryOf(l) \in Seq(Things)
           /\ HistoryOf(Append(l, e)) = IF e.op # "OnBuild" THEN Append(HistoryOf(l), e) ELSE HistoryOf(l)
<1> DEFINE T == {c \in Things : c.op # "OnBuild"}
<1>1. ASSUME NEW m \in Seq(Things) PROVE HistoryOf(m) = Picked(m, Among(m, T))
  <2>1. \A i \in 1 .. Len(m) : m[i] \in Things OBVIOUS
  <2>2. Which(m, LAMBDA c : c.op # "OnBuild") = Among(m, T) BY <2>1 DEF Which, Among
  <2> HIDE DEF T
  <2> QED BY <2>2 DEF HistoryOf
<1>2. e \in T <=> e.op # "OnBuild" OBVIOUS
<1>3. Append(l, e) \in Seq(Things) BY AppendFacts
<1> HIDE DEF T
<1>4. HistoryOf(l) = Picked(l, Among(l, T)) /\ HistoryOf(Append(l, e)) = Picked(Append(l, e), Among(Append(l, e), T))
  BY <1>1, <1>3
<1> DEFINE g == Picked(l, Among(l, T))
           h == Picked(Append(l, e), Among(Append(l, e), T))
<1>5. g \in Seq(Things) /\ h = IF e \in T THEN Append(g, e) ELSE g BY PickedTail
<1> HIDE DEF g, h
<1>6. HistoryOf(l) = g /\ HistoryOf(Append(l, e)) = h BY <1>4 DEF g, h
<1> QED BY <1>2, <1>5, <1>6

\* the number of layers in a history
LEMMA LayersAppend ==
    ASSUME NEW h \in Seq(Things), NEW e \in Things
    PROVE  /\ LayersIn(h) \in Nat
           /\ LayersIn(Append(h, e)) = LayersIn(h) + (IF e.layer THEN 1 ELSE 0)
<1> DEFINE T == {c \in Things : c.layer}
<1>1. ASSUME NEW m \in Seq(Things) PROVE LayersIn(m) = Cardinality(Among(m, T))
  <2>1. \A i \in 1 .. Len(m) : m[i] \in Things OBVIOUS
  <2>2. Which(m, LAMBDA c : c.layer) = Among(m, T) BY <2>1 DEF Which, Among
  <2> HIDE DEF T
  <2> QED BY <2>2 DEF LayersIn
<1>2. e \in T <=> e.layer OBVIOUS
<1>3. Append(h, e) \in Seq(Things) BY AppendFacts
<1> HIDE DEF T
<1>4. LayersIn(h) = Cardinality(Among(h, T)) /\ LayersIn(Append(h, e)) = Cardinality(Among(Append(h, e), T))
  BY <1>1, <1>3
<1> DEFINE I == Among(h, T)
<1>5. I \in SUBSET (1 .. Len(h)) /\ Cardinality(I) \in Nat BY AmongFacts
<1>6. Among(Append(h, e), T) = I \cup (IF e \in T THEN {Len(h) + 1} ELSE {}) BY AmongAppend
<1> HIDE DEF I
<1>7. Len(h) \in Nat OBVIOUS
<1>8. Cardinality(I \cup {Len(h) + 1}) = Cardinality(I) + 1 BY <1>5, <1>7, KthAppend
<1>9. CASE e.layer
  <2>1. Among(Append(h, e), T) = I \cup {Len(h) + 1} BY <1>2, <1>6, <1>9
  <2> QED BY <1>4, <1>5, <1>8, <1>9, <2>1 DEF I
<1>10. CASE ~e.layer
  <2>1. Among(Append(h, e), T) = I BY <1>2, <1>6, <1>10
  <2> QED BY <1>4, <1>5, <1>10, <2>1 DEF I
<1> QED BY <1>9, <1>10

\* the triggers given
LEMMA OnBuildAppend ==
    ASSUME NEW l \in Seq(Things), NEW e \in Things
    PROVE  OnBuildOf(Append(l, e)) = IF e.op = "OnBuild" THEN Append(OnBuildOf(l), e.val) ELSE OnBuildOf(l)
<1> DEFINE T == WithOp("OnBuild")
           Vals(s) == [i \in 1 .. Len(s) |-> s[i].val]
           g == Picked(l, Among(l, T))
           h == Picked(Append(l, e), Among(Append(l, e), T))
<1>1. ASSUME NEW m \in Seq(Things) PROVE OnBuildOf(m) = Vals(Picked(m, Among(m, T)))
  <2>1. Which(m, LAMBDA c : c.op = "OnBuild") = Among(m, T) BY WhichOp
  <2> HIDE DEF T
  <2> QED BY <2>1 DEF OnBuildOf
<1>2. Append(l, e) \in Seq(Things) BY AppendFacts
<1>3. e \in T <=> e.op = "OnBuild" BY DEF WithOp
<1> HIDE DEF T
<1>4. g \in Seq(Things) /\ h = IF e.op = "OnBuild" THEN Append(g, e) ELSE g BY <1>3, PickedTail
<1>5. OnBuildOf(l) = Vals(g) /\ OnBuildOf(Append(l, e)) = Vals(h) BY <1>1, <1>2
<1> HIDE DEF g, h
<1>6. Vals(Append(g, e)) = Append(Vals(g), e.val)
  <2> DEFINE V == {c.val : c \in Things}
  <2>1. Len(g) \in Nat /\ Len(Append(g, e)) = Len(g) + 1 /\ (\A i \in 1 .. Len(g) : Append(g, e)[i] = g[i])
        /\ Append(g, e)[Len(g) + 1] = e
    BY <1>4, AppendFacts
  <2>2. \A i \in 1 .. Len(g) : g[i].val \in V BY <1>4
  <2>3. e.val \in V OBVIOUS
  <2> HIDE DEF V
  <2>4. Vals(g) \in Seq(V) /\ Len(Vals(g)) = Len(g) BY <2>1, <2>2
  <2>5. Vals(Append(g, e)) = [i \in 1 .. Len(g) + 1 |-> Append(g, e)[i].val] BY <2>1
  <2>6. Append(Vals(g), e.val) = [i \in 1 .. Len(g) + 1 |-> IF i = Len(g) + 1 THEN e.val ELSE g[i].val]
    BY <2>1, <2>3, <2>4
  <2> QED BY <2>1, <2>5, <2>6
<1> HIDE DEF Vals
<1> QED BY <1>4, <1>5, <1>6

\* the keys an instruction has set in a map
LEMMA KeysAppend ==
    ASSUME NEW l \in Seq(Things), NEW e \in Things, NEW f
    PROVE  KeysOf(Append(l, e), f) = IF e.op = f THEN KeysOf(l, f) \cup {e.key} ELSE KeysOf(l, f)
<1> DEFINE n == Len(l)
           m == Append(l, e)
           I == Among(l, WithOp(f))
           J == Among(m, WithOp(f))
<1>1. n \in Nat /\ I \in SUBSET (1 .. n) BY AmongFacts
<1>2. m \in Seq(Things) /\ (\A i \in 1 .. n : m[i] = l[i]) /\ m[n + 1] = e BY AppendFacts
<1>3. J = IF e.op = f THEN I \cup {n + 1} ELSE I BY AmongOp
<1>4. Which(l, LAMBDA c : c.op = f) = I BY WhichOp
<1>5. Which(m, LAMBDA c : c.op = f) = J BY <1>2, WhichOp
<1> HIDE DEF n, m, I, J
<1>6. KeysOf(l, f) = {l[i].key : i \in I} BY <1>4 DEF KeysOf
<1>7. KeysOf(m, f) = {m[i].key : i \in J} BY <1>5 DEF KeysOf
<1>8. {m[i].key : i \in I} = {l[i].key : i \in I} BY <1>1, <1>2
<1>9. CASE e.op = f
  <2>1. J = I \cup {n + 1} BY <1>3, <1>9
  <2>2. {m[i].key : i \in J} = {m[i].key : i \in I} \cup {m[n + 1].key} BY <2>1
  <2> QED BY <1>2, <1>6, <1>7, <1>8, <1>9, <2>2 DEF m
<1>10. CASE e.op # f
  <2>1. J = I BY <1>3, <1>10
  <2> QED BY <1>6, <1>7, <1>8, <1>10, <2>1 DEF m
<1> QED BY <1>9, <1>10

\* the environment
LEMMA EnvAppend ==
    ASSUME NEW l \in Seq(Things), NEW e \in Things
    PROVE  EnvOf(Append(l, e)) = IF e.op = "Env" THEN AddEnv(EnvOf(l), e.key, e.val) ELSE EnvOf(l)
<1> DEFINE n == Len(l)
           m == Append(l, e)
           E(k) == {c \in Things : c.op = "Env" /\ c.key = k}
           Value(s, k) == s[Latest(Among(s, E(k)))].val
<1>1. n \in Nat BY AppendFacts
<1>2. m \in Seq(Things) /\ (\A i \in 1 .. n : m[i] = l[i]) /\ m[n + 1] = e BY AppendFacts
<1>3. ASSUME NEW s \in Seq(Things) PROVE EnvOf(s) = [k \in KeysOf(s, "Env") |-> Value(s, k)]
  <2>1. \A i \in 1 .. Len(s) : s[i] \in Things OBVIOUS
  <2>2. ASSUME NEW k PROVE Which(s, LAMBDA c : c.op = "Env" /\ c.key = k) = Among(s, E(k))
    BY <2>1 DEF Which, Among
  <2> HIDE DEF E
  <2> QED BY <2>2 DEF EnvOf, KeysOf
<1>4. ASSUME NEW k, NEW s \in Seq(Things) PROVE k \in KeysOf(s, "Env") <=> Among(s, E(k)) # {}
  <2>1. \A i \in 1 .. Len(s) : s[i] \in Things OBVIOUS
  <2> QED BY <2>1 DEF KeysOf, Among, Which
<1>5. ASSUME NEW k, k \in KeysOf(l, "Env"), ~(e.op = "Env" /\ e.key = k) PROVE Value(m, k) = Value(l, k)
  <2> DEFINE I == Among(l, E(k))
  <2>1. I \in SUBSET (1 .. n) BY AmongFacts
  <2>2. I # {} BY <1>4, <1>5
  <2>3. e \notin E(k) BY <1>5
  <2> DEFINE T == E(k)
  <2>4. Among(m, T) = Among(l, T)
    <3> HIDE DEF T, m, n
    <3>1. Among(Append(l, e), T) = Among(l, T) \cup (IF e \in T THEN {Len(l) + 1} ELSE {}) BY AmongAppend
    <3>2. e \notin T BY <2>3 DEF T
    <3> QED BY <3>1, <3>2 DEF m
  <2>5. Among(m, E(k)) = I BY <2>4
  <2> HIDE DEF I
  <2>6. Latest(I) \in 1 .. n BY <1>1, <2>1, <2>2, LatestFacts
  <2> QED BY <1>2, <2>5, <2>6 DEF I
<1>6. ASSUME e.op = "Env" PROVE Value(m, e.key) = e.val
  <2> DEFINE I == Among(l, E(e.key))
  <2>1. I \in SUBSET (1 .. n) BY AmongFacts
  <2>2. e \in E(e.key) BY <1>6
  <2>3. Among(m, E(e.key)) = I \cup {n + 1} BY <2>2, AmongAppend
  <2> HIDE DEF I
  <2>4. Latest(I \cup {n + 1}) = n + 1 BY <1>1, <2>1, LatestFacts
  <2> QED BY <1>2, <2>3, <2>4
<1>7. KeysOf(m, "Env") = IF e.op = "Env" THEN KeysOf(l, "Env") \cup {e.key} ELSE KeysOf(l, "Env") BY KeysAppend
<1>8. EnvOf(l) = [k \in KeysOf(l, "Env") |-> Value(l, k)] /\ EnvOf(m) = [k \in KeysOf(m, "Env") |-> Value(m, k)]
  BY <1>2, <1>3
<1> HIDE DEF m, Value
<1>9. CASE e.op = "Env"
  <2>1. DOMAIN EnvOf(l) = KeysOf(l, "Env") BY <1>8
  <2>2. \A k \in KeysOf(m, "Env") : Value(m, k) = IF k = e.key THEN e.val ELSE EnvOf(l)[k]
    BY <1>5, <1>6, <1>7, <1>8, <1>9
  <2>3. EnvOf(m) = AddEnv(EnvOf(l), e.key, e.val) BY <1>7, <1>8, <1>9, <2>1, <2>2 DEF AddEnv
  <2> QED BY <1>9, <2>3 DEF m
<1>10. CASE e.op # "Env"
  <2>1. \A k \in KeysOf(l, "Env") : Value(m, k) = Value(l, k) BY <1>5, <1>10
  <2>2. EnvOf(m) = EnvOf(l) BY <1>7, <1>8, <1>10, <2>1
  <2> QED BY <1>10, <2>2 DEF m
<1> QED BY <1>9, <1>10

-----------------------------------------------------------------------------
(* The working directory: the directories after the instructions of a list *)
(* are a function that is defined by recursion.                            *)
Into(c, dir) == IF c.op # "WorkingDir" THEN dir ELSE IF c.val.abs THEN c.val.path ELSE dir \o c.val.path
Dirs(l, h) == h = [i \in 0 .. Len(l) |-> IF i = 0 THEN <<>> ELSE Into(l[i], h[i - 1])]

LEMMA WorkdirIsLast == ASSUME NEW l PROVE WorkdirOf(l) = (CHOOSE h : Dirs(l, h))[Len(l)]
BY DEF WorkdirOf, Dirs, Into

LEMMA IntoType ==
    ASSUME NEW c \in Things, NEW dir \in Seq(Names)
    PROVE  Into(c, dir) \in Seq(Names)
<1>1. c.op = "WorkingDir" => c.val \in [abs : BOOLEAN, path : Seq(Names)]
  BY DispatchAssumption DEF Things, Entries, Ran
<1> QED BY <1>1 DEF Into

LEMMA DirsExist ==
    ASSUME NEW l \in Seq(Things)
    PROVE  \E h : Dirs(l, h)
<1> DEFINE X == Seq(Names)
           n == Len(l)
           F == [i \in 1 .. n |-> [dir \in X |-> Into(l[i], dir)]]
<1>1. n \in Nat /\ \A i \in 1 .. n : l[i] \in Things OBVIOUS
<1>2. F \in Steps(X, n) BY <1>1, IntoType DEF Steps
<1>3. <<>> \in X OBVIOUS
<1> HIDE DEF X, F
<1>4. PICK h : h \in Runs(X, n, F, <<>>) BY <1>1, <1>2, <1>3, Recursion
<1>5. h \in [0 .. n -> X] /\ h[0] = <<>> /\ \A i \in 1 .. n : h[i] = F[i][h[i - 1]] BY <1>4 DEF Runs
<1>6. \A i \in 1 .. n : h[i] = Into(l[i], h[i - 1])
  <2> TAKE i \in 1 .. n
  <2>1. h[i - 1] \in X BY <1>1, <1>5
  <2> QED BY <1>5, <2>1 DEF F
<1>7. h = [i \in 0 .. n |-> IF i = 0 THEN <<>> ELSE Into(l[i], h[i - 1])] BY <1>1, <1>5, <1>6
<1> QED BY <1>7 DEF Dirs

LEMMA DirsUnique ==
    ASSUME NEW l \in Seq(Things), NEW g, NEW h, Dirs(l, g), Dirs(l, h)
    PROVE  g = h
<1> DEFINE P == {i \in 0 .. Len(l) : g[i] = h[i]}
<1>1. Len(l) \in Nat OBVIOUS
<1>2. g[0] = h[0] BY <1>1 DEF Dirs
<1>3. ASSUME NEW i \in 1 .. Len(l), g[i - 1] = h[i - 1] PROVE g[i] = h[i] BY <1>1, <1>3 DEF Dirs
<1>4. 0 \in P BY <1>1, <1>2
<1>5. \A i \in 1 .. Len(l) : i - 1 \in P => i \in P BY <1>3
<1> HIDE DEF P
<1>6. 0 .. Len(l) \subseteq P BY <1>1, <1>4, <1>5, SetInduction
<1>7. \A i \in 0 .. Len(l) : g[i] = h[i] BY <1>6 DEF P
<1>8. g = [i \in 0 .. Len(l) |-> g[i]] /\ h = [i \in 0 .. Len(l) |-> h[i]] BY DEF Dirs
<1> QED BY <1>7, <1>8

LEMMA WorkdirAppend ==
    ASSUME NEW l \in Seq(Things), NEW e \in Things
    PROVE  WorkdirOf(Append(l, e)) = Into(e, WorkdirOf(l))
<1> DEFINE n == Len(l)
           m == Append(l, e)
<1>1. n \in Nat /\ m \in Seq(Things) /\ Len(m) = n + 1 /\ (\A i \in 1 .. n : m[i] = l[i]) /\ m[n + 1] = e
  BY AppendFacts
<1> DEFINE g == CHOOSE h : Dirs(l, h)
           h == CHOOSE f : Dirs(m, f)
           r == [i \in 0 .. n |-> h[i]]
<1>2. Dirs(l, g) BY DirsExist
<1>3. Dirs(m, h) BY <1>1, DirsExist
<1> HIDE DEF m, g, h
<1>4. h[0] = <<>> /\ \A i \in 1 .. n + 1 : h[i] = Into(m[i], h[i - 1])
  <2>1. h = [i \in 0 .. n + 1 |-> IF i = 0 THEN <<>> ELSE Into(m[i], h[i - 1])] BY <1>1, <1>3 DEF Dirs
  <2>2. 0 \in 0 .. n + 1 /\ \A i \in 1 .. n + 1 : i \in 0 .. n + 1 /\ i # 0 BY <1>1
  <2>3. h[0] = <<>> BY <2>1, <2>2
  <2>4. \A i \in 1 .. n + 1 : h[i] = Into(m[i], h[i - 1]) BY <2>1, <2>2
  <2> QED BY <2>3, <2>4
<1>5. \A i \in 1 .. n : r[i] = Into(l[i], r[i - 1])
  <2> TAKE i \in 1 .. n
  <2>1. i \in 1 .. n + 1 /\ i \in 0 .. n /\ i - 1 \in 0 .. n BY <1>1
  <2> QED BY <1>1, <1>4, <2>1
<1>6. r[0] = <<>> BY <1>1, <1>4
<1>7. r = [i \in 0 .. n |-> IF i = 0 THEN <<>> ELSE Into(l[i], r[i - 1])]
  <2>1. \A i \in 0 .. n : i = 0 \/ i \in 1 .. n BY <1>1
  <2>2. \A i \in 0 .. n : r[i] = IF i = 0 THEN <<>> ELSE Into(l[i], r[i - 1]) BY <1>5, <1>6, <2>1
  <2>3. r = [i \in 0 .. n |-> r[i]] OBVIOUS
  <2> HIDE DEF r
  <2> QED BY <2>2, <2>3
<1> HIDE DEF r
<1>8. r = g
  <2>1. Dirs(l, r) BY <1>1, <1>7 DEF Dirs
  <2> QED BY <1>2, <2>1, DirsUnique
<1>9. g[n] = h[n] BY <1>1, <1>8 DEF r
<1>10. n + 1 \in 1 .. n + 1 /\ (n + 1) - 1 = n BY <1>1
<1>11. h[n + 1] = Into(e, g[n]) BY <1>1, <1>4, <1>9, <1>10
<1>12. WorkdirOf(l) = g[n] BY WorkdirIsLast DEF g
<1>13. WorkdirOf(m) = h[n + 1] BY <1>1, WorkdirIsLast DEF h
<1> QED BY <1>11, <1>12, <1>13 DEF m

\* the field f of the config
LEMMA FieldAppend ==
    ASSUME NEW l \in Seq(Things), NEW e \in Things, NEW f \in SetFields
    PROVE  SetValue(Append(l, e), f) = IF e.op # f THEN SetValue(l, f)
                                       ELSE IF f = "WorkingDir" THEN Into(e, SetValue(l, f)) ELSE e.val
<1>1. CASE f = "WorkingDir"
  <2>1. SetValue(l, f) = WorkdirOf(l) /\ SetValue(Append(l, e), f) = WorkdirOf(Append(l, e)) BY <1>1 DEF SetValue
  <2> QED BY <1>1, <2>1, WorkdirAppend DEF Into
<1>2. CASE f # "WorkingDir" BY <1>2, SetValueAppend
<1> QED BY <1>1, <1>2

-----------------------------------------------------------------------------
(* The type invariant.  The values an instruction sets are any values, so  *)
(* a state has its fields and no more is said of most of them.             *)
Fields == {"layers", "env", "hist", "maps", "imageEnv", "fields", "cmd", "entrypoint",
           "onBuild", "cmdSet", "cmdIndex", "ctxPaths"}
Shape(s) == DOMAIN s = Fields /\ DOMAIN s.fields = SetFields /\ DOMAIN s.maps = MapFields
Slots == Things \cup {Absent}
Slices(mem) == [arr : 1 .. Len(mem), len : Nat]

StateType(s, d, mem) ==
    /\ Shape(s)
    /\ s.hist \in Slices(mem) /\ s.hist.len <= Len(mem[s.hist.arr])
    /\ s.onBuild \in Seq(Instructions)
    /\ s.layers \in Nat /\ s.cmdIndex \in Nat
    /\ \A f \in MapFields : s.maps[f] \in 0 .. d

ControlType ==
    /\ cur \in 1 .. Len(plan) + 1
    /\ phase \in {"stage", "triggers", "commands", "done", "failed"}
    /\ phase \in {"triggers", "commands", "failed"} => cur \in Node
    /\ phase = "done" => cur = Len(plan) + 1

TypeInv ==
    /\ plan \in Plans /\ target \in Node
    /\ ControlType
    /\ todo \in Seq(Instructions)
    /\ arrays \in Seq(Seq(Slots))
    /\ DOMAIN ds = Node /\ \A d \in Node : StateType(ds[d], d, arrays)
    /\ DOMAIN maps = MapFields /\ \A f \in MapFields : DOMAIN maps[f] = Node
    /\ log \in [Node -> Seq(Entries)]

-----------------------------------------------------------------------------
(* What dispatching one instruction does, said once for all handlers: the  *)
(* state s the stage is left in, when e is the entry it is logged with.    *)
Owner(f) == IF S.maps[f] = 0 THEN cur ELSE S.maps[f]

Core(s, e) ==
    /\ Shape(s)
    /\ s.layers = S.layers + (IF e.layer THEN 1 ELSE 0)
    /\ s.cmdIndex = S.cmdIndex + (IF e.layer /\ Total(cur) # 0 THEN 1 ELSE 0)
    /\ \A f \in SetFields :
         s.fields[f] = IF e.op # f THEN S.fields[f] ELSE IF f = "WorkingDir" THEN Into(e, S.fields[f]) ELSE e.val
    /\ s.cmd = IF e.op = "Cmd" THEN ShellArgs(S.fields["Shell"], e)
               ELSE IF e.op = "Entrypoint" /\ ~S.cmdSet THEN Absent ELSE S.cmd
    /\ s.cmdSet <=> (S.cmdSet \/ e.op = "Cmd")
    /\ s.entrypoint = IF e.op = "Entrypoint" THEN ShellArgs(S.fields["Shell"], e) ELSE S.entrypoint
    /\ s.imageEnv = IF e.op = "Env" THEN AddEnv(S.imageEnv, e.key, e.val) ELSE S.imageEnv
    /\ s.env = IF e.op = "Env" \/ (e.op = "Arg" /\ e.val # Absent) THEN AddEnv(S.env, e.key, e.val) ELSE S.env
    /\ s.onBuild = IF e.op = "OnBuild" THEN Append(S.onBuild, e.val) ELSE S.onBuild
    /\ \A f \in MapFields : s.maps[f] = IF e.op = f THEN Owner(f) ELSE S.maps[f]
    /\ S.ctxPaths \cup PathsOf(Instr) \subseteq s.ctxPaths

LayerRule(e) ==
    /\ e.op \in {"Add", "Copy", "Run"} => e.layer
    /\ e.layer => e.op \in CountedOps

Memory(s, e) ==
    /\ e.op = "OnBuild" => s.hist = S.hist /\ arrays' = arrays
    /\ e.op # "OnBuild" => s.hist = AppendTo(S.hist, e).slice /\ arrays' = AppendTo(S.hist, e).mem

Rest(s, e) ==
    /\ ds' = [ds EXCEPT ![cur] = s]
    /\ maps' = IF e.op \in MapFields THEN [maps EXCEPT ![e.op][Owner(e.op)] = @ \cup {e.key}] ELSE maps
    /\ todo' = Tail(todo)
    /\ log' = [log EXCEPT ![cur] = Append(@, e)]
    /\ \A r \in reads' : r \in reads \/ \E src : r = Read(src)
    /\ UNCHANGED <<cur, phase, ctxPaths>>

Stepped(s, e) == Core(s, e) /\ LayerRule(e) /\ Memory(s, e) /\ Rest(s, e)

\* the handlers, of which all but ONBUILD's end with a commit
Handler == \E layer \in BOOLEAN : \E s : Running /\ Stepped(s, Entry(layer))

LEMMA CommitFacts ==
    ASSUME TypeInv, Running, NEW layer \in BOOLEAN, NEW t, Core(t, Entry(layer)), t.hist = S.hist,
           Instr.op # "OnBuild", LayerRule(Entry(layer)),
           Commit(t, layer), Executed(layer),
           \A r \in reads' : r \in reads \/ \E src : r = Read(src),
           maps' = IF Instr.op \in MapFields THEN [maps EXCEPT ![Instr.op][Owner(Instr.op)] = @ \cup {Instr.key}] ELSE maps
    PROVE  Handler
<1> DEFINE e == Entry(layer)
           h == AppendTo(S.hist, e)
           s == [t EXCEPT !.hist = h.slice]
<1>1. e.op = Instr.op /\ e.key = Instr.key /\ e.val = Instr.val /\ e.layer = layer BY DEF Entry, Ran
<1>2. Shape(t) BY DEF Core
<1>3. ds' = [ds EXCEPT ![cur] = s] /\ arrays' = h.mem BY DEF Commit
<1> HIDE DEF e, h
<1>4. s.hist = h.slice /\ Shape(s) BY <1>2 DEF Shape, Fields
<1>5. /\ s.layers = t.layers /\ s.cmdIndex = t.cmdIndex /\ s.fields = t.fields /\ s.cmd = t.cmd
      /\ s.cmdSet = t.cmdSet /\ s.entrypoint = t.entrypoint /\ s.imageEnv = t.imageEnv /\ s.env = t.env
      /\ s.onBuild = t.onBuild /\ s.maps = t.maps /\ s.ctxPaths = t.ctxPaths
  BY <1>2 DEF Shape, Fields
<1> HIDE DEF s
<1>6. Core(t, e) /\ LayerRule(e) BY DEF e
<1>7. Core(s, e) BY <1>4, <1>5, <1>6 DEF Core
<1>8. Memory(s, e) BY <1>1, <1>3, <1>4 DEF Memory, h
<1>9. Executed(layer) => /\ todo' = Tail(todo) /\ log' = [log EXCEPT ![cur] = Append(@, e)]
                         /\ UNCHANGED <<cur, phase, ctxPaths>>
  BY DEF Executed, e
<1>10. Rest(s, e) BY <1>1, <1>3, <1>9 DEF Rest
<1>11. Stepped(s, e) BY <1>6, <1>7, <1>8, <1>10 DEF Stepped
<1> QED BY <1>11 DEF Handler, e

LEMMA TypeInvState ==
    ASSUME TypeInv, Running
    PROVE  /\ cur \in Node /\ cur \in Nat /\ Shape(S) /\ S.layers \in Nat /\ S.cmdIndex \in Nat
           /\ Instr \in Instructions /\ DOMAIN ds = Node
           /\ \A f \in MapFields : S.maps[f] \in 0 .. cur
<1>1. cur \in Node BY DEF TypeInv, ControlType, Running
<1>2. Node = 1 .. Len(plan) /\ Len(plan) \in Nat BY DispatchAssumption DEF TypeInv, Node
<1>3. StateType(ds[cur], cur, arrays) /\ DOMAIN ds = Node BY <1>1 DEF TypeInv
<1>4. Instr \in Instructions BY DEF TypeInv, Running, Instr
<1> QED BY <1>1, <1>2, <1>3, <1>4 DEF StateType, S

LEMMA EnvCore ==
    ASSUME TypeInv, Running, Instr.op = "Env"
    PROVE  LET t == [S EXCEPT !.env = AddEnv(@, Instr.key, Instr.val), !.imageEnv = AddEnv(@, Instr.key, Instr.val)]
           IN  Core(t, Entry(FALSE)) /\ t.hist = S.hist
<1> DEFINE t == [S EXCEPT !.env = AddEnv(@, Instr.key, Instr.val), !.imageEnv = AddEnv(@, Instr.key, Instr.val)]
<1>1. Shape(S) BY TypeInvState
<1>2. Core(t, Entry(FALSE)) /\ t.hist = S.hist
  BY <1>1, TypeInvState DEF Core, Shape, Fields, SetFields, MapFields, Entry, Ran, Args, ShellArgs, PathsOf
<1> QED BY <1>2

LEMMA ArgCore ==
    ASSUME TypeInv, Running, Instr.op = "Arg"
    PROVE  LET t == IF Instr.val = Absent THEN S ELSE [S EXCEPT !.env = AddEnv(@, Instr.key, Instr.val)]
           IN  Core(t, Entry(FALSE)) /\ t.hist = S.hist
<1> DEFINE t == IF Instr.val = Absent THEN S ELSE [S EXCEPT !.env = AddEnv(@, Instr.key, Instr.val)]
<1>1. Shape(S) BY TypeInvState
<1>2. Core(t, Entry(FALSE)) /\ t.hist = S.hist
  BY <1>1, TypeInvState DEF Core, Shape, Fields, SetFields, MapFields, Entry, Ran, Args, ShellArgs, PathsOf
<1> QED BY <1>2

LEMMA EntrypointCore ==
    ASSUME TypeInv, Running, Instr.op = "Entrypoint"
    PROVE  LET t == [S EXCEPT !.entrypoint = Args, !.cmd = IF S.cmdSet THEN @ ELSE Absent]
           IN  Core(t, Entry(FALSE)) /\ t.hist = S.hist
<1> DEFINE t == [S EXCEPT !.entrypoint = Args, !.cmd = IF S.cmdSet THEN @ ELSE Absent]
<1>1. Shape(S) BY TypeInvState
<1>2. Core(t, Entry(FALSE)) /\ t.hist = S.hist
  BY <1>1, TypeInvState DEF Core, Shape, Fields, SetFields, MapFields, Entry, Ran, Args, ShellArgs, PathsOf
<1> QED BY <1>2

LEMMA CmdCore ==
    ASSUME TypeInv, Running, Instr.op = "Cmd"
    PROVE  LET t == [S EXCEPT !.cmd = Args, !.cmdSet = TRUE]
           IN  Core(t, Entry(FALSE)) /\ t.hist = S.hist
<1> DEFINE t == [S EXCEPT !.cmd = Args, !.cmdSet = TRUE]
<1>1. Shape(S) BY TypeInvState
<1>2. Core(t, Entry(FALSE)) /\ t.hist = S.hist
  BY <1>1, TypeInvState DEF Core, Shape, Fields, SetFields, MapFields, Entry, Ran, Args, ShellArgs, PathsOf
<1> QED BY <1>2

LEMMA SetKeyCore ==
    ASSUME TypeInv, Running, NEW f \in MapFields, Instr.op = f
    PROVE  LET t == [S EXCEPT !.maps[f] = Owner(f)]
           IN  Core(t, Entry(FALSE)) /\ t.hist = S.hist
<1> DEFINE t == [S EXCEPT !.maps[f] = Owner(f)]
<1>1. Shape(S) BY TypeInvState
<1>2. Core(t, Entry(FALSE)) /\ t.hist = S.hist
  BY <1>1, TypeInvState DEF Core, Shape, Fields, SetFields, MapFields, Entry, Ran, PathsOf
<1> QED BY <1>2

LEMMA SetFieldCore ==
    ASSUME TypeInv, Running, NEW f \in SetFields, Instr.op = f, f # "WorkingDir"
    PROVE  LET t == [S EXCEPT !.fields[f] = Instr.val]
           IN  Core(t, Entry(FALSE)) /\ t.hist = S.hist
<1> DEFINE t == [S EXCEPT !.fields[f] = Instr.val]
<1>1. Shape(S) BY TypeInvState
<1>2. Core(t, Entry(FALSE)) /\ t.hist = S.hist
  BY <1>1, TypeInvState DEF Core, Shape, Fields, SetFields, MapFields, Entry, Ran, PathsOf
<1> QED BY <1>2

LEMMA WithLayerFacts ==
    ASSUME NEW s, Shape(s), s.layers = S.layers, s.cmdIndex = S.cmdIndex, S.layers \in Nat, S.cmdIndex \in Nat
    PROVE  LET t == WithLayer(s)
           IN  /\ Shape(t) /\ t.layers = S.layers + 1
               /\ t.cmdIndex = S.cmdIndex + (IF Total(cur) # 0 THEN 1 ELSE 0)
               /\ t.env = s.env /\ t.hist = s.hist /\ t.maps = s.maps /\ t.imageEnv = s.imageEnv
               /\ t.fields = s.fields /\ t.cmd = s.cmd /\ t.entrypoint = s.entrypoint
               /\ t.onBuild = s.onBuild /\ t.cmdSet = s.cmdSet /\ t.ctxPaths = s.ctxPaths
<1>1. CASE Total(cur) = 0 BY <1>1 DEF WithLayer, Step, Shape, Fields
<1>2. CASE Total(cur) # 0 BY <1>2 DEF WithLayer, Step, Shape, Fields
<1> QED BY <1>1, <1>2

LEMMA LayeredCore ==
    ASSUME TypeInv, Running, Instr.op \in {"Add", "Copy", "Run"}, NEW paths, PathsOf(Instr) \subseteq paths
    PROVE  LET t == [WithLayer(S) EXCEPT !.ctxPaths = @ \cup paths]
           IN  Core(t, Entry(TRUE)) /\ t.hist = S.hist
<1> DEFINE w == WithLayer(S)
           t == [w EXCEPT !.ctxPaths = @ \cup paths]
<1>1. Shape(S) BY TypeInvState
<1>2. /\ Shape(w) /\ w.layers = S.layers + 1
      /\ w.cmdIndex = S.cmdIndex + (IF Total(cur) # 0 THEN 1 ELSE 0)
      /\ w.env = S.env /\ w.hist = S.hist /\ w.maps = S.maps /\ w.imageEnv = S.imageEnv
      /\ w.fields = S.fields /\ w.cmd = S.cmd /\ w.entrypoint = S.entrypoint
      /\ w.onBuild = S.onBuild /\ w.cmdSet = S.cmdSet /\ w.ctxPaths = S.ctxPaths
  BY <1>1, TypeInvState, WithLayerFacts
<1> HIDE DEF w
<1>3. /\ Shape(t) /\ t.layers = w.layers /\ t.cmdIndex = w.cmdIndex
      /\ t.env = w.env /\ t.hist = w.hist /\ t.maps = w.maps /\ t.imageEnv = w.imageEnv
      /\ t.fields = w.fields /\ t.cmd = w.cmd /\ t.entrypoint = w.entrypoint
      /\ t.onBuild = w.onBuild /\ t.cmdSet = w.cmdSet /\ t.ctxPaths = w.ctxPaths \cup paths
  BY <1>2 DEF Shape, Fields
<1> HIDE DEF t
<1>4. Core(t, Entry(TRUE)) /\ t.hist = S.hist
  BY <1>2, <1>3 DEF Core, SetFields, MapFields, Entry, Ran
<1> QED BY <1>4 DEF t, w

LEMMA WorkdirCore ==
    ASSUME TypeInv, Running, Instr.op = "WorkingDir", NEW layer \in BOOLEAN
    PROVE  LET wd == IF Instr.val.abs THEN Instr.val.path ELSE S.fields["WorkingDir"] \o Instr.val.path
               s == [S EXCEPT !.fields["WorkingDir"] = wd]
               t == IF layer THEN WithLayer(s) ELSE s
           IN  Core(t, Entry(layer)) /\ t.hist = S.hist
<1> DEFINE wd == IF Instr.val.abs THEN Instr.val.path ELSE S.fields["WorkingDir"] \o Instr.val.path
           s == [S EXCEPT !.fields["WorkingDir"] = wd]
           t == IF layer THEN WithLayer(s) ELSE s
<1>1. Shape(S) /\ S.layers \in Nat /\ S.cmdIndex \in Nat BY TypeInvState
<1>2. wd = Into(Entry(layer), S.fields["WorkingDir"]) BY DEF Into, Entry, Ran
<1> HIDE DEF wd
<1>3. /\ Shape(s) /\ s.layers = S.layers /\ s.cmdIndex = S.cmdIndex /\ s.env = S.env /\ s.hist = S.hist
      /\ s.maps = S.maps /\ s.imageEnv = S.imageEnv /\ s.cmd = S.cmd /\ s.entrypoint = S.entrypoint
      /\ s.onBuild = S.onBuild /\ s.cmdSet = S.cmdSet /\ s.ctxPaths = S.ctxPaths
      /\ \A f \in SetFields : s.fields[f] = IF f = "WorkingDir" THEN wd ELSE S.fields[f]
  BY <1>1 DEF Shape, Fields, SetFields
<1> HIDE DEF s
<1> DEFINE w == WithLayer(s)
<1>4. /\ Shape(w) /\ w.layers = S.layers + 1
      /\ w.cmdIndex = S.cmdIndex + (IF Total(cur) # 0 THEN 1 ELSE 0)
      /\ w.env = s.env /\ w.hist = s.hist /\ w.maps = s.maps /\ w.imageEnv = s.imageEnv
      /\ w.fields = s.fields /\ w.cmd = s.cmd /\ w.entrypoint = s.entrypoint
      /\ w.onBuild = s.onBuild /\ w.cmdSet = s.cmdSet /\ w.ctxPaths = s.ctxPaths
  BY <1>1, <1>3, WithLayerFacts
<1> HIDE DEF w
<1>5. ASSUME layer PROVE Core(t, Entry(layer)) /\ t.hist = S.hist
  <2>1. t = w BY <1>5 DEF w
  <2>2. Core(w, Entry(layer)) /\ w.hist = S.hist
    BY <1>2, <1>3, <1>4, <1>5 DEF Core, SetFields, MapFields, Entry, Ran, PathsOf
  <2> QED BY <2>1, <2>2
<1>6. ASSUME ~layer PROVE Core(t, Entry(layer)) /\ t.hist = S.hist
  <2>1. t = s BY <1>6
  <2>2. Core(s, Entry(layer)) /\ s.hist = S.hist
    BY <1>1, <1>2, <1>3, <1>6 DEF Core, SetFields, MapFields, Entry, Ran, PathsOf
  <2> QED BY <2>1, <2>2
<1>7. Core(t, Entry(layer)) /\ t.hist = S.hist BY <1>5, <1>6
<1> QED BY <1>7 DEF s, wd

\* what the handler of an instruction leaves alone, and what it logs
LEMMA EntryFacts ==
    ASSUME NEW layer
    PROVE  LET e == Entry(layer) IN
           e.op = Instr.op /\ e.key = Instr.key /\ e.val = Instr.val /\ e.stage = cur /\ e.layer = layer
BY DEF Entry, Ran

LEMMA SetKeyStep == ASSUME TypeInv, Running, NEW f \in MapFields, Instr.op = f, SetKey(f) PROVE Handler
<1> DEFINE t == [S EXCEPT !.maps[f] = Owner(f)]
<1>1. Core(t, Entry(FALSE)) /\ t.hist = S.hist BY SetKeyCore
<1>2. LayerRule(Entry(FALSE)) BY EntryFacts DEF LayerRule, MapFields
<1>3. Commit(t, FALSE) /\ Executed(FALSE) /\ reads' = reads BY DEF SetKey, Owner
<1>4. maps' = IF Instr.op \in MapFields THEN [maps EXCEPT ![Instr.op][Owner(Instr.op)] = @ \cup {Instr.key}] ELSE maps
  BY DEF SetKey, Owner
<1> HIDE DEF t
<1>5. Instr.op # "OnBuild" BY DEF MapFields
<1> QED BY <1>1, <1>2, <1>3, <1>4, <1>5, CommitFacts

LEMMA SetFieldStep == ASSUME TypeInv, NEW f \in SetFields, f # "WorkingDir", SetField(f) PROVE Handler
<1> DEFINE t == [S EXCEPT !.fields[f] = Instr.val]
<1>1. Running /\ Instr.op = f BY DEF SetField
<1>2. Core(t, Entry(FALSE)) /\ t.hist = S.hist BY <1>1, SetFieldCore
<1>3. LayerRule(Entry(FALSE)) BY <1>1, EntryFacts DEF LayerRule, SetFields
<1>4. Commit(t, FALSE) /\ Executed(FALSE) /\ UNCHANGED <<maps, reads>> BY DEF SetField
<1>5. Instr.op # "OnBuild" /\ Instr.op \notin MapFields BY <1>1 DEF SetFields, MapFields
<1> HIDE DEF t
<1> QED BY <1>1, <1>2, <1>3, <1>4, <1>5, CommitFacts

LEMMA PlainStep ==
    ASSUME TypeInv, Running, Instr.op \in {"Env", "Arg", "Entrypoint", "Cmd"}, NEW t,
           Core(t, Entry(FALSE)), t.hist = S.hist, Commit(t, FALSE), Executed(FALSE), UNCHANGED <<maps, reads>>
    PROVE  Handler
<1>1. LayerRule(Entry(FALSE)) BY EntryFacts DEF LayerRule
<1>2. Instr.op # "OnBuild" /\ Instr.op \notin MapFields BY DEF MapFields
<1> QED BY <1>1, <1>2, CommitFacts

LEMMA LayeredStep ==
    ASSUME TypeInv, Running, Instr.op \in {"Add", "Copy", "Run"}, NEW t,
           Core(t, Entry(TRUE)), t.hist = S.hist, Commit(t, TRUE), Executed(TRUE), UNCHANGED maps,
           \A r \in reads' : r \in reads \/ \E src : r = Read(src)
    PROVE  Handler
<1>1. LayerRule(Entry(TRUE)) BY EntryFacts DEF LayerRule, CountedOps
<1>2. Instr.op # "OnBuild" /\ Instr.op \notin MapFields BY DEF MapFields
<1> QED BY <1>1, <1>2, CommitFacts

LEMMA WorkdirStep == ASSUME TypeInv, DispatchWorkdir PROVE Handler
<1> DEFINE wd == IF Instr.val.abs THEN Instr.val.path ELSE S.fields["WorkingDir"] \o Instr.val.path
           layer == fileOp /\ wd # <<>>
           s == [S EXCEPT !.fields["WorkingDir"] = wd]
           t == IF layer THEN WithLayer(s) ELSE s
<1>1. Running /\ Instr.op = "WorkingDir" BY DEF DispatchWorkdir
<1>2. Commit(t, layer) /\ Executed(layer) /\ UNCHANGED <<maps, reads>> BY DEF DispatchWorkdir
<1> DEFINE b == fileOp /\ wd # <<>>
<1>3. b \in BOOLEAN OBVIOUS
<1>4. Core(t, Entry(layer)) /\ t.hist = S.hist
  <2> DEFINE l == layer
  <2>1. l \in BOOLEAN OBVIOUS
  <2> HIDE DEF l
  <2>2. LET u == IF l THEN WithLayer(s) ELSE s IN Core(u, Entry(l)) /\ u.hist = S.hist
    BY <1>1, <2>1, WorkdirCore
  <2> QED BY <2>2 DEF l
<1>5. layer => fileOp OBVIOUS
<1> HIDE DEF layer, t
<1>6. layer \in BOOLEAN BY <1>3 DEF layer
<1>7. LayerRule(Entry(layer)) BY <1>1, <1>5, EntryFacts DEF LayerRule, CountedOps
<1>8. Instr.op # "OnBuild" /\ Instr.op \notin MapFields BY <1>1 DEF MapFields
<1> QED BY <1>1, <1>2, <1>4, <1>6, <1>7, <1>8, CommitFacts

LEMMA OnbuildStep == ASSUME TypeInv, DispatchOnbuild PROVE Handler
<1> DEFINE e == Entry(FALSE)
           s == [S EXCEPT !.onBuild = Append(@, Instr.val)]
<1>1. Running /\ Instr.op = "OnBuild" BY DEF DispatchOnbuild
<1>2. Shape(S) /\ DOMAIN ds = Node /\ cur \in Node BY <1>1, TypeInvState
<1>3. s.hist = S.hist /\ Core(s, e)
  BY <1>1, <1>2, TypeInvState DEF Core, Shape, Fields, SetFields, MapFields, Entry, Ran, PathsOf
<1>4. ds' = [ds EXCEPT ![cur] = s]
  <2>1. ds' = [ds EXCEPT ![cur].onBuild = Append(@, Instr.val)] BY DEF DispatchOnbuild
  <2> QED BY <1>2, <2>1 DEF S
<1>5. e.op = "OnBuild" /\ e.layer = FALSE BY <1>1, EntryFacts
<1>6. LayerRule(e) BY <1>5 DEF LayerRule
<1>7. arrays' = arrays /\ maps' = maps /\ reads' = reads /\ Executed(FALSE) BY DEF DispatchOnbuild
<1> HIDE DEF s
<1>8. Memory(s, e) BY <1>3, <1>5, <1>7 DEF Memory
<1>9. todo' = Tail(todo) /\ log' = [log EXCEPT ![cur] = Append(@, e)] /\ UNCHANGED <<cur, phase, ctxPaths>>
  BY <1>7 DEF Executed
<1> HIDE DEF e
<1>10. Rest(s, e) BY <1>4, <1>5, <1>7, <1>9 DEF Rest, MapFields
<1>11. Stepped(s, e) BY <1>3, <1>6, <1>8, <1>10 DEF Stepped
<1> QED BY <1>1, <1>11 DEF Handler, e

LEMMA AddStep == ASSUME TypeInv, DispatchAdd PROVE Handler
<1> DEFINE t == [WithLayer(S) EXCEPT !.ctxPaths = @ \cup Instr.paths]
<1>1. Running /\ Instr.op = "Add" BY DEF DispatchAdd
<1>2. PathsOf(Instr) \subseteq Instr.paths BY <1>1 DEF PathsOf
<1>3. Core(t, Entry(TRUE)) /\ t.hist = S.hist BY <1>1, <1>2, LayeredCore
<1>4. Commit(t, TRUE) /\ Executed(TRUE) /\ UNCHANGED <<maps, reads>> BY DEF DispatchAdd
<1> HIDE DEF t
<1> QED BY <1>1, <1>3, <1>4, LayeredStep

LEMMA CopyStep == ASSUME TypeInv, DispatchCopy PROVE Handler
<1>1. Running /\ Instr.op = "Copy" BY DEF DispatchCopy
<1>2. CASE Instr.from = Context
  <2> DEFINE t == [WithLayer(S) EXCEPT !.ctxPaths = @ \cup Instr.paths]
  <2>1. PathsOf(Instr) \subseteq Instr.paths BY <1>1, <1>2 DEF PathsOf
  <2>2. Core(t, Entry(TRUE)) /\ t.hist = S.hist BY <1>1, <2>1, LayeredCore
  <2>3. Commit(t, TRUE) /\ Executed(TRUE) /\ UNCHANGED <<maps, reads>> BY <1>2 DEF DispatchCopy
  <2> HIDE DEF t
  <2> QED BY <1>1, <2>2, <2>3, LayeredStep
<1>3. CASE Instr.from # Context
  <2> DEFINE t == WithLayer(S)
  <2>1. PathsOf(Instr) = {} BY <1>1, <1>3 DEF PathsOf
  <2>2. /\ Shape(t) /\ t.layers = S.layers + 1
        /\ t.cmdIndex = S.cmdIndex + (IF Total(cur) # 0 THEN 1 ELSE 0)
        /\ t.env = S.env /\ t.hist = S.hist /\ t.maps = S.maps /\ t.imageEnv = S.imageEnv
        /\ t.fields = S.fields /\ t.cmd = S.cmd /\ t.entrypoint = S.entrypoint
        /\ t.onBuild = S.onBuild /\ t.cmdSet = S.cmdSet /\ t.ctxPaths = S.ctxPaths
    BY <1>1, TypeInvState, WithLayerFacts
  <2>3. Commit(t, TRUE) /\ Executed(TRUE) /\ UNCHANGED maps /\ reads' = reads \cup {Read(Instr.from)}
    BY <1>3 DEF DispatchCopy
  <2> HIDE DEF t
  <2>4. Core(t, Entry(TRUE)) BY <1>1, <2>1, <2>2 DEF Core, SetFields, MapFields, Entry, Ran
  <2>5. \A r \in reads' : r \in reads \/ \E src : r = Read(src) BY <2>3
  <2> QED BY <1>1, <2>2, <2>3, <2>4, <2>5, LayeredStep
<1> QED BY <1>2, <1>3

LEMMA RunStep == ASSUME TypeInv, DispatchRun PROVE Handler
<1> DEFINE t == [WithLayer(S) EXCEPT !.ctxPaths = @ \cup RunPaths]
<1>1. Running /\ Instr.op = "Run" BY DEF DispatchRun
<1>2. PathsOf(Instr) \subseteq RunPaths BY <1>1 DEF PathsOf, RunPaths
<1>3. Core(t, Entry(TRUE)) /\ t.hist = S.hist BY <1>1, <1>2, LayeredCore
<1>4. Commit(t, TRUE) /\ Executed(TRUE) /\ UNCHANGED maps BY DEF DispatchRun
<1>5. \A r \in reads' : r \in reads \/ \E src : r = Read(src) BY DEF DispatchRun
<1> HIDE DEF t
<1> QED BY <1>1, <1>3, <1>4, <1>5, LayeredStep

\* Every instruction that is not wrong is handled in that way.
LEMMA HandlerStep == ASSUME TypeInv, Dispatch PROVE Handler \/ DispatchError
<1>1. CASE DispatchEnv
  <2> DEFINE t == [S EXCEPT !.env = AddEnv(@, Instr.key, Instr.val), !.imageEnv = AddEnv(@, Instr.key, Instr.val)]
  <2>1. Running /\ Instr.op = "Env" BY <1>1 DEF DispatchEnv
  <2>2. Core(t, Entry(FALSE)) /\ t.hist = S.hist BY <2>1, EnvCore
  <2>3. Commit(t, FALSE) /\ Executed(FALSE) /\ UNCHANGED <<maps, reads>> BY <1>1 DEF DispatchEnv
  <2> HIDE DEF t
  <2> QED BY <2>1, <2>2, <2>3, PlainStep
<1>2. CASE DispatchArg
  <2> DEFINE t == IF Instr.val = Absent THEN S ELSE [S EXCEPT !.env = AddEnv(@, Instr.key, Instr.val)]
  <2>1. Running /\ Instr.op = "Arg" BY <1>2 DEF DispatchArg
  <2>2. Core(t, Entry(FALSE)) /\ t.hist = S.hist BY <2>1, ArgCore
  <2>3. Commit(t, FALSE) /\ Executed(FALSE) /\ UNCHANGED <<maps, reads>> BY <1>2 DEF DispatchArg
  <2> HIDE DEF t
  <2> QED BY <2>1, <2>2, <2>3, PlainStep
<1>3. CASE DispatchEntrypoint
  <2> DEFINE t == [S EXCEPT !.entrypoint = Args, !.cmd = IF S.cmdSet THEN @ ELSE Absent]
  <2>1. Running /\ Instr.op = "Entrypoint" BY <1>3 DEF DispatchEntrypoint
  <2>2. Core(t, Entry(FALSE)) /\ t.hist = S.hist BY <2>1, EntrypointCore
  <2>3. Commit(t, FALSE) /\ Executed(FALSE) /\ UNCHANGED <<maps, reads>> BY <1>3 DEF DispatchEntrypoint
  <2> HIDE DEF t
  <2> QED BY <2>1, <2>2, <2>3, PlainStep
<1>4. CASE DispatchCmd
  <2> DEFINE t == [S EXCEPT !.cmd = Args, !.cmdSet = TRUE]
  <2>1. Running /\ Instr.op = "Cmd" BY <1>4 DEF DispatchCmd
  <2>2. Core(t, Entry(FALSE)) /\ t.hist = S.hist BY <2>1, CmdCore
  <2>3. Commit(t, FALSE) /\ Executed(FALSE) /\ UNCHANGED <<maps, reads>> BY <1>4 DEF DispatchCmd
  <2> HIDE DEF t
  <2> QED BY <2>1, <2>2, <2>3, PlainStep
<1>5. CASE DispatchLabel \/ DispatchExpose \/ DispatchVolume
  <2>1. \E f \in MapFields : Running /\ Instr.op = f /\ SetKey(f)
    BY <1>5 DEF DispatchLabel, DispatchExpose, DispatchVolume, MapFields
  <2> QED BY <2>1, SetKeyStep
<1>6. CASE DispatchMaintainer \/ DispatchUser \/ DispatchStopSignal \/ DispatchHealthcheck \/ DispatchShell
  <2>1. \E f \in SetFields : f # "WorkingDir" /\ SetField(f)
    BY <1>6 DEF DispatchMaintainer, DispatchUser, DispatchStopSignal, DispatchHealthcheck, DispatchShell, SetFields
  <2> QED BY <2>1, SetFieldStep
<1> QED BY <1>1, <1>2, <1>3, <1>4, <1>5, <1>6, WorkdirStep, OnbuildStep, AddStep, CopyStep, RunStep DEF Dispatch

-----------------------------------------------------------------------------
(* The inductive invariant.  A stage has begun when the loop has reached it *)
(* and not passed over it; until then it is as the registration left it.    *)
Begun(d) == Reachable(d) /\ (d < cur \/ (d = cur /\ phase # "stage"))

FreshInv ==
    \A d \in Node :
        /\ ~Begun(d) => ds[d] = Resolved(d) /\ log[d] = plan[d].upstream
        /\ d = cur /\ phase # "stage" => Reachable(d)

\* the instructions behind a stage, those of the first of its bases first
Lined(l, d) == Ordered(l) /\ \A i \in 1 .. Len(l) : l[i].stage <= d
LogInv == \A d \in Node : Lined(log[d], d)

\* what the instructions l say of the config and of the layers
Replays(s, l) ==
    /\ \A f \in SetFields : s.fields[f] = SetValue(l, f)
    /\ s.cmd = CmdOf(l) /\ s.entrypoint = EntrypointOf(l)
    /\ s.imageEnv \in {EnvOf(l), WithPath(EnvOf(l))}
    /\ s.layers = LayersIn(HistoryOf(l))
ReplayInv == \A d \in Node : Replays(ds[d], log[d])

\* a stage that has begun has a PATH, knows whether it had a CMD, and shows RUN its variables
Seen(s, l, d, k) ==
    /\ \A i \in 1 .. Len(l) : ArgLast(l, d, k, i) => s.env[k] = l[i].val
    /\ (\A i \in 1 .. Len(l) : ~ArgLast(l, d, k, i)) => s.env[k] = s.imageEnv[k]
Started(s, l, d) ==
    /\ s.imageEnv = WithPath(EnvOf(l))
    /\ s.cmdSet <=> CmdIn(l, d)
    /\ DOMAIN s.imageEnv \subseteq DOMAIN s.env
    /\ \A k \in DOMAIN s.imageEnv : Seen(s, l, d, k)
StartedInv == \A d \in Node : Begun(d) => Started(ds[d], log[d], d)

\* the steps counted are the layers of the stage's own, and the pull of its image
Pulled(d) == IF plan[d].kind = "image" THEN 1 ELSE 0
Counts(d) ==
    /\ ds[d].cmdIndex = Pulled(d) + (IF Total(d) = 0 THEN 0 ELSE LayersIn(Own(d)))
    /\ \A i \in 1 .. Len(Own(d)) : LayerRule(Own(d)[i])
CountInv == \A d \in Node : Counts(d)

\* what is left of the instructions is the end of them
Done == Len(plan[cur].cmds) - Len(todo)
TodoInv ==
    phase = "commands" =>
        /\ Done \in 0 .. Len(plan[cur].cmds)
        /\ \A j \in 1 .. Len(todo) : todo[j] = plan[cur].cmds[Done + j]
        /\ S.onBuild = OnBuildOf(SubSeq(plan[cur].cmds, 1, Done))

\* a stage that is over leaves its own triggers
OverInv == \A d \in Node : Reachable(d) /\ d < cur => ds[d].onBuild = OnBuildOf(plan[d].cmds)

\* the triggers and the instructions run in their order
Left(d) == IF d < cur THEN 0 ELSE IF phase = "triggers" THEN Len(todo) + Len(plan[d].cmds) ELSE Len(todo)
Follows(d) ==
    /\ Len(Own(d)) + Left(d) = Len(Expected(d))
    /\ \A i \in 1 .. Len(Own(d)) : Own(d)[i].op = Expected(d)[i].op /\ Own(d)[i].val = Expected(d)[i].val
OrderInv ==
    \A d \in Node :
        /\ Begun(d) /\ ~(d = cur /\ phase = "failed") => Follows(d)
        /\ d = cur /\ phase = "triggers" => \A j \in 1 .. Len(todo) : todo[j] = Expected(d)[Len(Own(d)) + j]

\* the paths of what has been run are asked for, by the stage and then by the filter
PathsInv ==
    /\ phase \in {"triggers", "commands"} =>
         \A i \in 1 .. Len(Own(cur)) : PathsOf(Expected(cur)[i]) \subseteq S.ctxPaths
    /\ \A d \in Node : Reachable(d) /\ d < cur =>
         \A i \in 1 .. Len(Expected(d)) : PathsOf(Expected(d)[i]) \subseteq ctxPaths

\* what was read of an earlier stage is what it ended with
ReadInv ==
    \A r \in reads : r.stage \in 1 .. cur /\ (r.src \in 1 .. r.stage - 1 => r.layers = ds[r.src].layers)

(* The memory.  Without siblings, two stages that share a slice or a map   *)
(* are one behind the other in a row of bases, and what the later one has  *)
(* goes on from what the earlier one has.                                  *)
ArrayInv ==
    /\ Len(arrays) >= Len(plan)
    /\ \A d \in Node : ds[d].hist.arr \in 1 .. d \/ ds[d].hist.arr > Len(plan)
Content(h, mem) == [i \in 1 .. h.len |-> mem[h.arr][i]]
SliceInv ==
    /\ \A d \in Node : Content(ds[d].hist, arrays) = HistoryOf(log[d])
    /\ \A d, e \in Node : d < e /\ ds[d].hist.arr = ds[e].hist.arr =>
          ds[d].hist.len <= ds[e].hist.len /\ \E c \in d + 1 .. e : Child(d, c)

OwnerInv ==
    \A f \in MapFields : \A d \in Node :
        /\ ds[d].maps[f] # 0 => ds[ds[d].maps[f]].maps[f] = ds[d].maps[f]
        /\ maps[f][d] # {} => ds[d].maps[f] = d
Keys(d, f) == IF ds[d].maps[f] = 0 THEN {} ELSE maps[f][ds[d].maps[f]]
Given(d, f) == KeysOf(log[d], f) \cup (IF phase = "done" /\ d = target /\ f = "Labels" THEN OptLabels ELSE {})
MapInv ==
    \A f \in MapFields :
        /\ \A d \in Node : (phase = "done" => d = target) /\ (~\E c \in Node : Child(d, c) /\ Begun(c)) =>
              Keys(d, f) = Given(d, f)
        /\ \A d, e \in Node : d < e /\ ds[d].maps[f] = ds[e].maps[f] /\ ds[d].maps[f] # 0 =>
              \E c \in d + 1 .. e : Child(d, c) /\ Begun(c)

IInv ==
    /\ TypeInv /\ FreshInv /\ LogInv /\ ReplayInv /\ StartedInv /\ CountInv
    /\ TodoInv /\ OverInv /\ OrderInv /\ PathsInv /\ ReadInv
    /\ ArrayInv /\ (NoSiblings => SliceInv)
    /\ OwnerInv /\ (NoSiblings => MapInv)

-----------------------------------------------------------------------------
(* Appending to a slice: the memory of others is left alone, except behind *)
(* the slice that is appended to.                                          *)
Appended(h, e, t, mem) ==
    /\ mem \in Seq(Seq(Slots)) /\ Len(mem) >= Len(arrays)
    /\ t.arr \in 1 .. Len(mem) /\ t.len = h.len + 1 /\ t.len \in Nat /\ t.len <= Len(mem[t.arr])
    /\ t \in Slices(mem)
    /\ t.arr = h.arr \/ t.arr = Len(arrays) + 1
    /\ \A a \in 1 .. Len(arrays) :
         /\ Len(mem[a]) = Len(arrays[a])
         /\ \A i \in 1 .. Len(arrays[a]) : ~(a = h.arr /\ i = h.len + 1) => mem[a][i] = arrays[a][i]
    /\ \A i \in 1 .. h.len : mem[t.arr][i] = arrays[h.arr][i]
    /\ mem[t.arr][h.len + 1] = e

LEMMA AppendToFacts ==
    ASSUME arrays \in Seq(Seq(Slots)), NEW h \in Slices(arrays), h.len <= Capacity(h), NEW e \in Things
    PROVE  Appended(h, e, AppendTo(h, e).slice, AppendTo(h, e).mem)
<1> DEFINE n == Len(arrays)
           a == h.arr
           k == h.len
           old == arrays[a]
<1>1. n \in Nat /\ a \in 1 .. n /\ k \in Nat /\ h = [arr |-> a, len |-> k] BY DEF Slices
<1>2. old \in Seq(Slots) /\ Len(old) \in Nat /\ k <= Len(old) BY <1>1 DEF Capacity
<1>3. e \in Slots /\ Absent \in Slots BY DEF Slots
<1>4. \A b \in 1 .. n : arrays[b] \in Seq(Slots) /\ Len(arrays[b]) \in Nat
  <2> TAKE b \in 1 .. n
  <2>1. arrays[b] \in Seq(Slots) BY <1>1
  <2> QED BY <2>1
<1>5. \A i \in 1 .. Len(old) : old[i] \in Slots BY <1>2
<1>6. CASE k < Capacity(h)
  <2> DEFINE t == [h EXCEPT !.len = @ + 1]
             new == [old EXCEPT ![k + 1] = e]
             mem == [arrays EXCEPT ![a][k + 1] = e]
  <2>1. AppendTo(h, e).slice = t /\ AppendTo(h, e).mem = mem BY <1>6 DEF AppendTo
  <2>2. t.arr = a /\ t.len = k + 1 /\ t = [arr |-> a, len |-> k + 1] BY <1>1
  <2>3. k + 1 \in 1 .. Len(old) BY <1>1, <1>2, <1>6 DEF Capacity
  <2>4. new \in Seq(Slots) /\ Len(new) = Len(old) /\ new[k + 1] = e
        /\ \A i \in 1 .. Len(old) : i # k + 1 => new[i] = old[i]
    BY <1>2, <1>3, <2>3
  <2>5. mem = [arrays EXCEPT ![a] = new] OBVIOUS
  <2> HIDE DEF t, new, mem, old
  <2>6. mem \in Seq(Seq(Slots)) /\ Len(mem) = n /\ mem[a] = new /\ \A b \in 1 .. n : b # a => mem[b] = arrays[b]
    BY <1>1, <2>4, <2>5
  <2>7. \A b \in 1 .. n : Len(mem[b]) = Len(arrays[b]) BY <2>4, <2>6 DEF old
  <2>8. \A b \in 1 .. n : \A i \in 1 .. Len(arrays[b]) : ~(b = a /\ i = k + 1) => mem[b][i] = arrays[b][i]
    BY <2>4, <2>6 DEF old
  <2>9. \A i \in 1 .. k : mem[a][i] = arrays[a][i]
    <3> TAKE i \in 1 .. k
    <3>1. i \in 1 .. Len(old) /\ i # k + 1 BY <1>1, <1>2
    <3> QED BY <2>4, <2>6, <3>1 DEF old
  <2>10. k + 1 <= Len(mem[a]) /\ mem[a][k + 1] = e /\ k + 1 \in Nat BY <1>1, <2>3, <2>4, <2>6
  <2>11. t.arr \in 1 .. Len(mem) /\ t \in Slices(mem) BY <1>1, <2>2, <2>6 DEF Slices
  <2>12. Appended(h, e, t, mem) BY <1>1, <2>2, <2>6, <2>7, <2>8, <2>9, <2>10, <2>11 DEF Appended
  <2> QED BY <2>1, <2>12
<1>7. CASE ~(k < Capacity(h))
  <2> DEFINE t == [arr |-> n + 1, len |-> k + 1]
             new == Grown(h, e)
             mem == Append(arrays, new)
             size == IF k = 0 THEN 1 ELSE 2 * k
  <2>1. AppendTo(h, e).slice = t /\ AppendTo(h, e).mem = mem BY <1>7 DEF AppendTo
  <2>2. k = Len(old) BY <1>1, <1>2, <1>7 DEF Capacity
  <2>3. size \in Nat /\ k + 1 <= size /\ k + 1 \in 1 .. size BY <1>1
  <2>4. new = [i \in 1 .. size |-> IF i <= k THEN old[i] ELSE IF i = k + 1 THEN e ELSE Absent] BY DEF Grown
  <2> HIDE DEF new, size, old
  <2>5. \A i \in 1 .. size : (IF i <= k THEN old[i] ELSE IF i = k + 1 THEN e ELSE Absent) \in Slots
    BY <1>1, <1>3, <1>5, <2>2, <2>3
  <2>6. new \in Seq(Slots) /\ Len(new) = size BY <2>3, <2>4, <2>5
  <2>7. new[k + 1] = e /\ \A i \in 1 .. k : new[i] = old[i] BY <1>1, <2>3, <2>4
  <2>8. mem \in Seq(Seq(Slots)) /\ Len(mem) = n + 1 /\ mem[n + 1] = new /\ \A b \in 1 .. n : mem[b] = arrays[b]
    BY <1>1, <2>6
  <2>9. t.arr = n + 1 /\ t.len = k + 1 /\ k + 1 \in Nat BY <1>1
  <2> HIDE DEF mem
  <2>10. t \in Slices(mem) /\ n + 1 \in 1 .. Len(mem) BY <1>1, <2>8 DEF Slices
  <2> HIDE DEF t
  <2>11. \A b \in 1 .. n :
            /\ Len(mem[b]) = Len(arrays[b])
            /\ \A i \in 1 .. Len(arrays[b]) : ~(b = h.arr /\ i = h.len + 1) => mem[b][i] = arrays[b][i]
    BY <2>8
  <2>12. (\A i \in 1 .. h.len : mem[t.arr][i] = arrays[h.arr][i]) /\ mem[t.arr][h.len + 1] = e
    BY <2>7, <2>8, <2>9 DEF old
  <2>13. Len(mem) >= n /\ t.arr \in 1 .. Len(mem) /\ t.len <= Len(mem[t.arr]) BY <1>1, <2>3, <2>6, <2>8, <2>9
  <2>14. Appended(h, e, t, mem) BY <2>8, <2>9, <2>10, <2>11, <2>12, <2>13 DEF Appended
  <2> QED BY <2>1, <2>14
<1> QED BY <1>6, <1>7

-----------------------------------------------------------------------------
(* The type invariant is preserved.                                        *)
LEMMA PlanFacts ==
    ASSUME TypeInv
    PROVE  /\ Len(plan) \in Nat /\ Node = 1 .. Len(plan) /\ cur \in Nat
           /\ \A d \in Node :
                /\ d \in Nat
                /\ plan[d].upstream \in Seq(Upstream) /\ plan[d].upstream \in Seq(Entries)
                /\ plan[d].cmds \in Seq(Instructions) /\ Len(plan[d].cmds) \in Nat
                /\ plan[d].kind = "stage" => plan[d].base \in 1 .. d - 1 /\ plan[d].base \in Node /\ plan[d].upstream = <<>>
<1>1. plan \in Plans BY DEF TypeInv
<1>2. Len(plan) \in Nat /\ Node = 1 .. Len(plan) BY <1>1, DispatchAssumption DEF Node
<1>3. cur \in Nat BY <1>2 DEF TypeInv, ControlType
<1>4. Upstream \subseteq Entries BY DEF Upstream, Entries
<1>5. ASSUME NEW d \in Node
      PROVE  /\ d \in Nat
             /\ plan[d].upstream \in Seq(Upstream) /\ plan[d].upstream \in Seq(Entries)
             /\ plan[d].cmds \in Seq(Instructions) /\ Len(plan[d].cmds) \in Nat
             /\ plan[d].kind = "stage" => plan[d].base \in 1 .. d - 1 /\ plan[d].base \in Node /\ plan[d].upstream = <<>>
  <2>1. d \in Nat BY <1>2
  <2>2. IsStage(plan[d]) BY <1>1, DispatchAssumption DEF Node
  <2>3. plan[d].kind = "stage" => plan[d].base \in 1 .. d - 1 /\ plan[d].upstream = <<>>
    BY <1>1, DispatchAssumption DEF Node
  <2>4. \A b \in 1 .. d - 1 : b \in Node BY <1>2
  <2>5. plan[d].upstream \in Seq(Upstream) /\ plan[d].cmds \in Seq(Instructions) BY <2>2 DEF IsStage
  <2>6. Len(plan[d].cmds) \in Nat BY <2>5
  <2>7. plan[d].upstream \in Seq(Entries) BY <1>4, <2>5
  <2> QED BY <2>1, <2>3, <2>4, <2>5, <2>6, <2>7
<1> QED BY <1>2, <1>3, <1>5

\* A stage begins with what its base has; one that is based on an image, with what that has.
Source == IF plan[cur].kind = "stage" THEN plan[cur].base ELSE cur

Begins(s) ==
    LET b == ds[Source]
    IN  /\ Shape(s)
        /\ s.layers = b.layers /\ s.hist = b.hist /\ s.maps = b.maps /\ s.fields = b.fields
        /\ s.cmd = b.cmd /\ s.entrypoint = b.entrypoint /\ s.onBuild = b.onBuild
        /\ s.cmdSet = S.cmdSet /\ s.cmdIndex = S.cmdIndex /\ s.ctxPaths = S.ctxPaths
        /\ s.imageEnv = WithPath(b.imageEnv) /\ s.env = Over(WithPath(b.imageEnv), b.env)

LEMMA BeginFacts ==
    ASSUME TypeInv, BeginStage
    PROVE  /\ cur \in Node /\ Source \in Node /\ Source <= cur /\ (plan[cur].kind = "stage" <=> Source # cur)
           /\ \E s : Begins(s) /\ ds' = [ds EXCEPT ![cur] = s] /\ todo' = s.onBuild
           /\ log' = [log EXCEPT ![cur] = log[Source]]
           /\ phase = "stage" /\ phase' = "triggers" /\ Reachable(cur)
           /\ UNCHANGED <<cur, arrays, maps, ctxPaths, reads>>
<1>1. cur \in Node /\ cur \in Nat BY PlanFacts DEF BeginStage, TypeInv, ControlType
<1>2. Source \in Node /\ Source <= cur /\ (plan[cur].kind = "stage" <=> Source # cur) BY <1>1, PlanFacts DEF Source
<1>3. Shape(S) /\ Shape(ds[Source]) BY <1>1, <1>2 DEF TypeInv, StateType, S
<1> DEFINE based == plan[cur].kind = "stage"
           u == IF based THEN Inherited(S, ds[plan[cur].base]) ELSE S
           s == WithImageEnv(u)
<1>4. ds' = [ds EXCEPT ![cur] = s] /\ todo' = s.onBuild BY DEF BeginStage
<1>5. LET b == ds[Source]
      IN  /\ Shape(u)
          /\ u.layers = b.layers /\ u.hist = b.hist /\ u.maps = b.maps /\ u.fields = b.fields
          /\ u.cmd = b.cmd /\ u.entrypoint = b.entrypoint /\ u.onBuild = b.onBuild
          /\ u.cmdSet = S.cmdSet /\ u.cmdIndex = S.cmdIndex /\ u.ctxPaths = S.ctxPaths
          /\ u.imageEnv = b.imageEnv /\ u.env = b.env
  <2>1. CASE based
    <3> DEFINE b == ds[Source]
               v == Inherited(S, b)
    <3>1. u = v BY <2>1 DEF Source
    <3>2. /\ Shape(v)
          /\ v.layers = b.layers /\ v.hist = b.hist /\ v.maps = b.maps /\ v.fields = b.fields
          /\ v.cmd = b.cmd /\ v.entrypoint = b.entrypoint /\ v.onBuild = b.onBuild
          /\ v.cmdSet = S.cmdSet /\ v.cmdIndex = S.cmdIndex /\ v.ctxPaths = S.ctxPaths
          /\ v.imageEnv = b.imageEnv /\ v.env = b.env
      <4> HIDE DEF b
      <4>1. Shape(S) /\ Shape(b) BY <1>3 DEF b
      <4> QED BY <4>1 DEF Inherited, Shape, Fields
    <3> HIDE DEF u, v
    <3> QED BY <3>1, <3>2
  <2>2. CASE ~based
    <3>1. u = S /\ S = ds[Source] BY <2>2 DEF Source, S
    <3> QED BY <1>3, <3>1
  <2> QED BY <2>1, <2>2
<1> HIDE DEF u
<1>6. LET b == ds[Source]
      IN  /\ Shape(s)
          /\ s.layers = u.layers /\ s.hist = u.hist /\ s.maps = u.maps /\ s.fields = u.fields
          /\ s.cmd = u.cmd /\ s.entrypoint = u.entrypoint /\ s.onBuild = u.onBuild
          /\ s.cmdSet = u.cmdSet /\ s.cmdIndex = u.cmdIndex /\ s.ctxPaths = u.ctxPaths
          /\ s.imageEnv = WithPath(u.imageEnv) /\ s.env = Over(WithPath(u.imageEnv), u.env)
  BY <1>5 DEF WithImageEnv, Shape, Fields
<1> HIDE DEF s
<1>7. Begins(s) BY <1>5, <1>6 DEF Begins
<1>8. log' = [log EXCEPT ![cur] = log[Source]]
  <2>1. CASE based BY <2>1 DEF BeginStage, Source
  <2>2. CASE ~based
    <3>1. log' = log /\ Source = cur BY <2>2 DEF BeginStage, Source
    <3> QED BY <1>1, <3>1 DEF TypeInv
  <2> QED BY <2>1, <2>2
<1>9. phase = "stage" /\ phase' = "triggers" /\ Reachable(cur) /\ UNCHANGED <<cur, arrays, maps, ctxPaths, reads>>
  BY DEF BeginStage
<1> QED BY <1>1, <1>2, <1>4, <1>7, <1>8, <1>9

LEMMA EntryType ==
    ASSUME TypeInv, Running, NEW layer \in BOOLEAN
    PROVE  Entry(layer) \in Entries /\ Entry(layer) \in Things
<1>1. Instr \in Instructions /\ cur \in Nat BY TypeInvState
<1> QED BY <1>1 DEF Entry, Entries, Things

\* the slice a commit leaves, and the memory
LEMMA HistFacts ==
    ASSUME TypeInv, NEW s, NEW e \in Things, cur \in Node, Memory(s, e), e.op # "OnBuild"
    PROVE  Appended(S.hist, e, s.hist, arrays')
<1>1. arrays \in Seq(Seq(Slots)) /\ StateType(S, cur, arrays) BY DEF TypeInv, S
<1>2. S.hist \in Slices(arrays) /\ S.hist.len <= Capacity(S.hist) BY <1>1 DEF StateType, Capacity
<1> DEFINE h == S.hist
<1> HIDE DEF h
<1>3. h \in Slices(arrays) /\ h.len <= Capacity(h) BY <1>2 DEF h
<1>4. Appended(h, e, AppendTo(h, e).slice, AppendTo(h, e).mem) BY <1>1, <1>3, AppendToFacts
<1> QED BY <1>4 DEF h, Memory

LEMMA HandlerType ==
    ASSUME TypeInv, Handler, UNCHANGED <<plan, target, fileOp>>
    PROVE  TypeInv'
<1>p. PICK layer \in BOOLEAN : \E s : Running /\ Stepped(s, Entry(layer)) BY DEF Handler
<1>1. PICK s : Running /\ Stepped(s, Entry(layer)) BY <1>p
<1> DEFINE e == Entry(layer)
<1>2. e \in Entries /\ e \in Things BY <1>1, EntryType
<1>3. cur \in Node /\ cur \in Nat /\ Instr \in Instructions /\ e.op = Instr.op /\ e.val = Instr.val
  BY <1>1, TypeInvState, EntryFacts
<1>4. Core(s, e) /\ Memory(s, e) /\ Rest(s, e) BY <1>1 DEF Stepped
<1> HIDE DEF e
<1>5. ds' = [ds EXCEPT ![cur] = s] /\ log' = [log EXCEPT ![cur] = Append(@, e)] /\ todo' = Tail(todo)
      /\ UNCHANGED <<cur, phase, ctxPaths>>
  BY <1>4 DEF Rest
<1>6. Node' = Node BY DEF Node
<1>7. todo' \in Seq(Instructions) BY <1>1, <1>5 DEF TypeInv, Running
<1>8. StateType(S, cur, arrays) BY <1>3 DEF TypeInv, S
<1>9. /\ arrays' \in Seq(Seq(Slots)) /\ Len(arrays') \in Nat /\ Len(arrays') >= Len(arrays) /\ Len(arrays) \in Nat
      /\ \A a \in 1 .. Len(arrays) : Len(arrays'[a]) = Len(arrays[a])
      /\ s.hist \in Slices(arrays') /\ s.hist.len <= Len(arrays'[s.hist.arr])
  <2>0. arrays \in Seq(Seq(Slots)) /\ Len(arrays) \in Nat BY DEF TypeInv
  <2>1. CASE e.op = "OnBuild"
    <3>1. s.hist = S.hist /\ arrays' = arrays BY <1>4, <2>1 DEF Memory
    <3> QED BY <1>8, <2>0, <3>1 DEF StateType
  <2>2. CASE e.op # "OnBuild"
    <3>1. Appended(S.hist, e, s.hist, arrays') BY <1>2, <1>3, <1>4, <2>2, HistFacts
    <3>2. arrays' \in Seq(Seq(Slots)) /\ Len(arrays') >= Len(arrays) /\ s.hist \in Slices(arrays')
          /\ (\A a \in 1 .. Len(arrays) : Len(arrays'[a]) = Len(arrays[a]))
          /\ s.hist.len <= Len(arrays'[s.hist.arr])
      BY <3>1 DEF Appended
    <3>3. Len(arrays') \in Nat BY <3>2
    <3> QED BY <2>0, <3>2, <3>3
  <2> QED BY <2>1, <2>2
<1>10. StateType(s, cur, arrays')
  <2>1. Shape(s) BY <1>4 DEF Core
  <2>2. s.onBuild \in Seq(Instructions)
    <3>1. s.onBuild = IF e.op = "OnBuild" THEN Append(S.onBuild, e.val) ELSE S.onBuild BY <1>4 DEF Core
    <3>2. S.onBuild \in Seq(Instructions) BY <1>8 DEF StateType
    <3>3. e.op = "OnBuild" => e.val \in Instructions BY <1>3, DispatchAssumption
    <3> QED BY <3>1, <3>2, <3>3
  <2>3. s.layers \in Nat /\ s.cmdIndex \in Nat
    <3>1. S.layers \in Nat /\ S.cmdIndex \in Nat BY <1>8 DEF StateType
    <3> QED BY <1>4, <3>1 DEF Core
  <2>4. \A f \in MapFields : s.maps[f] \in 0 .. cur
    <3>1. \A f \in MapFields : S.maps[f] \in 0 .. cur BY <1>8 DEF StateType
    <3>2. \A f \in MapFields : s.maps[f] = IF e.op = f THEN Owner(f) ELSE S.maps[f] BY <1>4 DEF Core
    <3> QED BY <1>3, <3>1, <3>2 DEF Owner
  <2> QED BY <1>9, <2>1, <2>2, <2>3, <2>4 DEF StateType
<1>11. ASSUME NEW d \in Node, d # cur PROVE StateType(ds[d], d, arrays')
  <2>1. StateType(ds[d], d, arrays) BY DEF TypeInv
  <2> QED BY <1>9, <2>1 DEF StateType, Slices
<1>12. DOMAIN ds' = Node /\ \A d \in Node : StateType(ds'[d], d, arrays')
  <2>1. DOMAIN ds = Node BY DEF TypeInv
  <2> QED BY <1>3, <1>5, <1>10, <1>11, <2>1
<1>13. DOMAIN maps' = MapFields /\ \A f \in MapFields : DOMAIN maps'[f] = Node
  <2>1. DOMAIN maps = MapFields /\ \A f \in MapFields : DOMAIN maps[f] = Node BY DEF TypeInv
  <2> QED BY <1>4, <2>1 DEF Rest
<1>14. log' \in [Node -> Seq(Entries)]
  <2>1. log \in [Node -> Seq(Entries)] BY DEF TypeInv
  <2>2. Append(log[cur], e) \in Seq(Entries) BY <1>2, <1>3, <2>1
  <2> QED BY <1>5, <2>1, <2>2
<1>15. ControlType'
  <2>1. ControlType BY DEF TypeInv
  <2> QED BY <1>5, <1>6, <2>1 DEF ControlType
<1>16. plan' \in Plans /\ target' \in Node BY DEF TypeInv
<1> QED BY <1>6, <1>7, <1>9, <1>12, <1>13, <1>14, <1>15, <1>16 DEF TypeInv

LEMMA BeginType ==
    ASSUME TypeInv, BeginStage, UNCHANGED <<plan, target, fileOp>>
    PROVE  TypeInv'
<1>1. PICK s : Begins(s) /\ ds' = [ds EXCEPT ![cur] = s] /\ todo' = s.onBuild BY BeginFacts
<1>2. cur \in Node /\ Source \in Node /\ Source <= cur /\ cur \in Nat BY BeginFacts, PlanFacts
<1>3. Node' = Node BY DEF Node
<1>4. StateType(ds[Source], Source, arrays) /\ StateType(S, cur, arrays) BY <1>2 DEF TypeInv, S
<1>5. StateType(s, cur, arrays)
  <2>1. \A f \in MapFields : s.maps[f] \in 0 .. cur
    <3>1. \A f \in MapFields : s.maps[f] \in 0 .. Source BY <1>1, <1>4 DEF Begins, StateType
    <3>2. Source \in Nat BY <1>2, PlanFacts
    <3> QED BY <1>2, <3>1, <3>2
  <2> QED BY <1>1, <1>4, <2>1 DEF Begins, StateType
<1>6. arrays' = arrays /\ maps' = maps /\ cur' = cur /\ phase' = "triggers" BY BeginFacts
<1>7. DOMAIN ds' = Node /\ \A d \in Node : StateType(ds'[d], d, arrays)
  BY <1>1, <1>2, <1>5 DEF TypeInv
<1>8. todo' \in Seq(Instructions) BY <1>1, <1>5 DEF StateType
<1>9. log' \in [Node -> Seq(Entries)]
  <2>1. log' = [log EXCEPT ![cur] = log[Source]] BY BeginFacts
  <2> QED BY <1>2, <2>1 DEF TypeInv
<1>10. ControlType' BY <1>2, <1>3, <1>6, PlanFacts DEF ControlType
<1> QED BY <1>3, <1>6, <1>7, <1>8, <1>9, <1>10 DEF TypeInv

\* The labels of the build option change the target's map, and no state but in that.
LEMMA FinishFacts ==
    ASSUME TypeInv, Finish
    PROVE  LET o == IF ds[target].maps["Labels"] = 0 THEN target ELSE ds[target].maps["Labels"] IN
           /\ phase = "stage" /\ phase' = "done" /\ cur = Len(plan) + 1
           /\ UNCHANGED <<cur, todo, arrays, ctxPaths, log, reads>>
           /\ DOMAIN ds' = Node /\ \A d \in Node : d # target => ds'[d] = ds[d]
           /\ LET s == ds[target]
                  t == ds'[target]
              IN  /\ Shape(t)
                  /\ t.layers = s.layers /\ t.hist = s.hist /\ t.fields = s.fields /\ t.cmd = s.cmd
                  /\ t.entrypoint = s.entrypoint /\ t.onBuild = s.onBuild /\ t.cmdSet = s.cmdSet
                  /\ t.cmdIndex = s.cmdIndex /\ t.ctxPaths = s.ctxPaths /\ t.imageEnv = s.imageEnv /\ t.env = s.env
           /\ OptLabels = {} => ds' = ds /\ maps' = maps
           /\ OptLabels # {} =>
                /\ maps' = [maps EXCEPT !["Labels"][o] = @ \cup OptLabels]
                /\ \A f \in MapFields : ds'[target].maps[f] = IF f = "Labels" THEN o ELSE ds[target].maps[f]
<1> DEFINE o == IF ds[target].maps["Labels"] = 0 THEN target ELSE ds[target].maps["Labels"]
           t == [ds[target] EXCEPT !.maps["Labels"] = o]
<1>1. phase = "stage" /\ phase' = "done" /\ UNCHANGED <<cur, todo, arrays, ctxPaths, log, reads>> BY DEF Finish
<1>2. cur = Len(plan) + 1 BY PlanFacts DEF Finish, TypeInv, ControlType
<1>3. target \in Node /\ DOMAIN ds = Node BY DEF TypeInv
<1>4. Shape(ds[target]) BY <1>3 DEF TypeInv, StateType
<1>5. CASE OptLabels = {}
  <2>1. ds' = ds /\ maps' = maps BY <1>5 DEF Finish
  <2> QED BY <1>1, <1>2, <1>3, <1>4, <1>5, <2>1
<1>6. CASE OptLabels # {}
  <2>1. ds' = [ds EXCEPT ![target].maps["Labels"] = o] /\ maps' = [maps EXCEPT !["Labels"][o] = @ \cup OptLabels]
    BY <1>6 DEF Finish
  <2>2. /\ Shape(t)
        /\ t.layers = ds[target].layers /\ t.hist = ds[target].hist /\ t.fields = ds[target].fields
        /\ t.cmd = ds[target].cmd /\ t.entrypoint = ds[target].entrypoint /\ t.onBuild = ds[target].onBuild
        /\ t.cmdSet = ds[target].cmdSet /\ t.cmdIndex = ds[target].cmdIndex /\ t.ctxPaths = ds[target].ctxPaths
        /\ t.imageEnv = ds[target].imageEnv /\ t.env = ds[target].env
        /\ \A f \in MapFields : t.maps[f] = IF f = "Labels" THEN o ELSE ds[target].maps[f]
    <3> HIDE DEF o
    <3> QED BY <1>4 DEF Shape, Fields, MapFields
  <2>3. ds' = [ds EXCEPT ![target] = t] BY <2>1
  <2> HIDE DEF t, o
  <2>4. ds'[target] = t /\ DOMAIN ds' = Node /\ \A d \in Node : d # target => ds'[d] = ds[d] BY <1>3, <2>3
  <2> QED BY <1>1, <1>2, <1>6, <2>1, <2>2, <2>4 DEF o
<1> QED BY <1>5, <1>6

LEMMA FinishType ==
    ASSUME TypeInv, Finish, UNCHANGED <<plan, target, fileOp>>
    PROVE  TypeInv'
<1> DEFINE s == ds[target]
           t == ds'[target]
           o == IF s.maps["Labels"] = 0 THEN target ELSE s.maps["Labels"]
<1>1. phase' = "done" /\ cur = Len(plan) + 1 /\ UNCHANGED <<cur, todo, arrays, ctxPaths, log, reads>> BY FinishFacts
<1>2. DOMAIN ds' = Node /\ \A d \in Node : d # target => ds'[d] = ds[d] BY FinishFacts
<1>3. Shape(t) /\ t.layers = s.layers /\ t.hist = s.hist /\ t.onBuild = s.onBuild /\ t.cmdIndex = s.cmdIndex
  BY FinishFacts
<1>4. OptLabels = {} => ds' = ds /\ maps' = maps BY FinishFacts
<1>5. OptLabels # {} =>
         /\ maps' = [maps EXCEPT !["Labels"][o] = @ \cup OptLabels]
         /\ \A f \in MapFields : t.maps[f] = IF f = "Labels" THEN o ELSE s.maps[f]
  BY FinishFacts
<1>6. target \in Node /\ target \in Nat /\ StateType(s, target, arrays) BY PlanFacts DEF TypeInv
<1>7. o \in 0 .. target BY <1>6 DEF StateType, MapFields
<1> HIDE DEF o, s, t
<1>8. \A f \in MapFields : t.maps[f] \in 0 .. target
  <2>1. CASE OptLabels = {}
    <3>1. t = s BY <1>4, <2>1 DEF s, t
    <3> QED BY <1>6, <3>1 DEF StateType
  <2>2. CASE OptLabels # {} BY <1>5, <1>6, <1>7, <2>2 DEF StateType
  <2> QED BY <2>1, <2>2
<1>9. StateType(t, target, arrays) BY <1>3, <1>6, <1>8 DEF StateType
<1>10. \A d \in Node : StateType(ds'[d], d, arrays) BY <1>2, <1>9 DEF TypeInv, t
<1>11. DOMAIN maps' = MapFields /\ \A f \in MapFields : DOMAIN maps'[f] = Node BY <1>4, <1>5 DEF TypeInv
<1>12. Node' = Node BY DEF Node
<1>13. ControlType' BY <1>1, <1>12 DEF ControlType, TypeInv
<1> QED BY <1>1, <1>2, <1>10, <1>11, <1>12, <1>13 DEF TypeInv

\* the steps between the instructions, and the one that fails
Moves == SkipStage \/ BeginCommands \/ EndStage \/ DispatchError

LEMMA MoveFacts ==
    ASSUME TypeInv, Moves
    PROVE  /\ cur \in Node /\ UNCHANGED <<arrays, maps, log, reads>>
           /\ \/ /\ SkipStage /\ phase = "stage" /\ phase' = "stage" /\ cur' = cur + 1 /\ ~Reachable(cur)
                 /\ UNCHANGED <<todo, ds, ctxPaths>>
              \/ /\ BeginCommands /\ phase = "triggers" /\ phase' = "commands" /\ todo = <<>>
                 /\ todo' = plan[cur].cmds /\ ds' = [ds EXCEPT ![cur].onBuild = <<>>]
                 /\ UNCHANGED <<cur, ctxPaths>>
              \/ /\ EndStage /\ phase = "commands" /\ phase' = "stage" /\ cur' = cur + 1 /\ todo = <<>>
                 /\ ctxPaths' = ctxPaths \cup S.ctxPaths /\ UNCHANGED <<todo, ds>>
              \/ /\ DispatchError /\ phase \in {"triggers", "commands"} /\ phase' = "failed"
                 /\ UNCHANGED <<cur, todo, ds, ctxPaths>>
<1>1. cur \in Node BY PlanFacts DEF Moves, SkipStage, BeginCommands, EndStage, DispatchError, TypeInv, ControlType
<1> QED BY <1>1 DEF Moves, SkipStage, BeginCommands, EndStage, DispatchError

LEMMA MoveType ==
    ASSUME TypeInv, Moves, UNCHANGED <<plan, target, fileOp>>
    PROVE  TypeInv'
<1>1. cur \in Node /\ cur \in Nat /\ Len(plan) \in Nat /\ Node = 1 .. Len(plan) BY MoveFacts, PlanFacts
<1>2. UNCHANGED <<arrays, maps, log, reads>> BY MoveFacts
<1>3. Node' = Node BY DEF Node
<1>4. ControlType' BY <1>1, <1>3, MoveFacts DEF ControlType, TypeInv
<1>5. todo' \in Seq(Instructions) BY <1>1, MoveFacts, PlanFacts DEF TypeInv
<1>6. DOMAIN ds' = Node /\ \A d \in Node : StateType(ds'[d], d, arrays)
  <2>1. CASE UNCHANGED ds BY <2>1 DEF TypeInv
  <2>2. CASE ds' = [ds EXCEPT ![cur].onBuild = <<>>]
    <3> DEFINE t == [S EXCEPT !.onBuild = <<>>]
    <3>1. ds' = [ds EXCEPT ![cur] = t] BY <2>2 DEF S
    <3>2. StateType(S, cur, arrays) BY <1>1 DEF TypeInv, S
    <3>3. <<>> \in Seq(Instructions) OBVIOUS
    <3>4. StateType(t, cur, arrays) BY <3>2, <3>3 DEF StateType, Shape, Fields
    <3> HIDE DEF t
    <3> QED BY <1>1, <3>1, <3>4 DEF TypeInv
  <2> QED BY <2>1, <2>2, MoveFacts
<1> QED BY <1>2, <1>3, <1>4, <1>5, <1>6 DEF TypeInv

\* Every step is one of these four.
LEMMA NextCases ==
    ASSUME TypeInv, Next
    PROVE  (BeginStage \/ Handler \/ Moves \/ Finish) /\ UNCHANGED <<plan, target, fileOp>>
BY HandlerStep DEF Next, Moves

LEMMA OnBuildType == ASSUME NEW l \in Seq(Things) PROVE OnBuildOf(l) \in Seq(Instructions)
<1> DEFINE T == WithOp("OnBuild")
           I == Among(l, T)
           g == Picked(l, I)
<1>1. Which(l, LAMBDA c : c.op = "OnBuild") = I BY WhichOp
<1>2. I \in SUBSET (1 .. Len(l)) BY AmongFacts
<1>3. \A i \in I : l[i] \in Things /\ l[i].op = "OnBuild" BY DEF Among, WithOp
<1>4. \A c \in Things : c.op = "OnBuild" => c.val \in Instructions
  BY DispatchAssumption DEF Things, Entries, Ran
<1> HIDE DEF I
<1>5. g \in Seq(Things) /\ Len(g) = Cardinality(I) /\ \A k \in 1 .. Cardinality(I) : Kth(I, k) \in I /\ g[k] = l[Kth(I, k)]
  BY <1>2, PickedType
<1>6. OnBuildOf(l) = [i \in 1 .. Len(g) |-> g[i].val] BY <1>1 DEF OnBuildOf
<1> HIDE DEF g
<1>7. Len(g) \in Nat BY <1>5
<1>8. \A i \in 1 .. Len(g) : g[i].val \in Instructions BY <1>3, <1>4, <1>5
<1> QED BY <1>6, <1>7, <1>8

-----------------------------------------------------------------------------
(* The registration of the stages.                                         *)
LEMMA SlotLists == ASSUME NEW n \in Nat PROVE [i \in 1 .. n |-> Absent] \in Seq(Slots)
BY DEF Slots

LEMMA InitFacts ==
    ASSUME Init
    PROVE  /\ plan \in Plans /\ target \in Node /\ Node = 1 .. Len(plan) /\ Len(plan) \in Nat
           /\ \A d \in Node : plan[d].upstream \in Seq(Entries) /\ IsStage(plan[d])
<1>1. plan \in Plans /\ target \in Node BY DEF Init, Node
<1>2. Node = 1 .. Len(plan) /\ Len(plan) \in Nat BY <1>1, DispatchAssumption DEF Node
<1>3. Upstream \subseteq Entries BY DEF Upstream, Entries
<1>4. ASSUME NEW d \in Node PROVE plan[d].upstream \in Seq(Entries) /\ IsStage(plan[d])
  <2>1. IsStage(plan[d]) BY <1>1, DispatchAssumption DEF Node
  <2>2. plan[d].upstream \in Seq(Upstream) BY <2>1 DEF IsStage
  <2> QED BY <1>3, <2>1, <2>2
<1> QED BY <1>1, <1>2, <1>4

\* the memory as it is made, and the slices over it
LEMMA InitMemory ==
    ASSUME Init
    PROVE  /\ arrays \in Seq(Seq(Slots)) /\ Len(arrays) = Len(plan)
           /\ \A d \in Node :
                LET h == HistoryOf(plan[d].upstream)
                IN  /\ h \in Seq(Things) /\ Len(h) \in Nat /\ Len(h) <= Len(arrays[d])
                    /\ \A i \in 1 .. Len(h) : arrays[d][i] = h[i]
<1>1. Node = 1 .. Len(plan) /\ Len(plan) \in Nat BY InitFacts
<1> DEFINE Made(d) == HistoryOf(plan[d].upstream) \o [i \in 1 .. plan[d].spare |-> Absent]
<1>2. arrays = [d \in Node |-> Made(d)] BY DEF Init
<1>3. ASSUME NEW d \in Node
      PROVE  LET h == HistoryOf(plan[d].upstream)
             IN  /\ h \in Seq(Things) /\ Len(h) \in Nat /\ Made(d) \in Seq(Slots) /\ Len(h) <= Len(Made(d))
                 /\ \A i \in 1 .. Len(h) : Made(d)[i] = h[i]
  <2> DEFINE h == HistoryOf(plan[d].upstream)
             r == [i \in 1 .. plan[d].spare |-> Absent]
  <2>1. plan[d].upstream \in Seq(Things) BY InitFacts DEF Things
  <2>2. h \in Seq(Things)
    <3> DEFINE u == plan[d].upstream
    <3> HIDE DEF u
    <3>1. u \in Seq(Things) BY <2>1 DEF u
    <3>2. HistoryOf(u) = Picked(u, Which(u, LAMBDA c : c.op # "OnBuild")) BY DEF HistoryOf
    <3>3. Which(u, LAMBDA c : c.op # "OnBuild") \in SUBSET (1 .. Len(u)) BY DEF Which
    <3>4. HistoryOf(u) \in Seq(Things) BY <3>1, <3>2, <3>3, PickedType
    <3> QED BY <3>4 DEF u
  <2>3. plan[d].spare \in Nat BY InitFacts DEF IsStage
  <2>4. r \in Seq(Slots) BY <2>3, SlotLists
  <2>5. Made(d) = h \o r OBVIOUS
  <2> HIDE DEF h, r, Made
  <2>6. h \in Seq(Slots) /\ Len(h) \in Nat BY <2>2 DEF Slots
  <2>7. h \o r \in Seq(Slots) /\ Len(h) <= Len(h \o r) /\ \A i \in 1 .. Len(h) : (h \o r)[i] = h[i] BY <2>4, <2>6
  <2>8. h \in Seq(Things) /\ Len(h) \in Nat /\ Made(d) \in Seq(Slots) /\ Len(h) <= Len(Made(d))
        /\ \A i \in 1 .. Len(h) : Made(d)[i] = h[i]
    BY <2>2, <2>5, <2>6, <2>7
  <2> QED BY <2>8 DEF h
<1> HIDE DEF Made
<1>4. arrays \in Seq(Seq(Slots)) /\ Len(arrays) = Len(plan) BY <1>1, <1>2, <1>3
<1> QED BY <1>2, <1>3, <1>4

LEMMA TypeInit == Init => TypeInv
<1> SUFFICES ASSUME Init PROVE TypeInv OBVIOUS
<1>1. /\ plan \in Plans /\ target \in Node /\ Node = 1 .. Len(plan) /\ Len(plan) \in Nat BY InitFacts
<1>2. ControlType BY <1>1 DEF Init, ControlType
<1>3. ds = [d \in Node |-> Resolved(d)] /\ todo = <<>> /\ log = [d \in Node |-> plan[d].upstream] BY DEF Init
<1>4. arrays \in Seq(Seq(Slots)) /\ Len(arrays) = Len(plan) BY InitMemory
<1>5. ASSUME NEW d \in Node PROVE StateType(Resolved(d), d, arrays)
  <2> DEFINE l == plan[d].upstream
             h == HistoryOf(l)
             s == Resolved(d)
  <2>1. d \in Nat BY <1>1
  <2>2. l \in Seq(Things) BY InitFacts DEF Things
  <2>3. h \in Seq(Things) /\ Len(h) \in Nat /\ Len(h) <= Len(arrays[d]) BY InitMemory
  <2>4. LayersIn(h) \in Nat
    <3> HIDE DEF h
    <3>2. Which(h, LAMBDA e : e.layer) \subseteq 1 .. Len(h) BY DEF Which
    <3>3. IsFiniteSet(1 .. Len(h)) BY <2>3, FS_Interval
    <3> QED BY <3>2, <3>3, FS_Subset, FS_CardinalityType DEF LayersIn
  <2>5. OnBuildOf(l) \in Seq(Instructions) BY <2>2, OnBuildType
  <2>6. /\ Shape(s) /\ s.layers = LayersIn(h) /\ s.hist = [arr |-> d, len |-> Len(h)]
        /\ s.onBuild = OnBuildOf(l) /\ s.cmdIndex \in {0, 1} /\ \A f \in MapFields : s.maps[f] \in {0, d}
    <3> HIDE DEF h, l
    <3> QED BY DEF Resolved, Shape, Fields, h, l
  <2> HIDE DEF l, h, s
  <2>7. s.hist \in Slices(arrays) /\ s.hist.len <= Len(arrays[s.hist.arr]) BY <1>1, <1>4, <2>3, <2>6 DEF Slices
  <2>8. StateType(s, d, arrays) BY <2>1, <2>4, <2>5, <2>6, <2>7 DEF StateType
  <2> QED BY <2>8 DEF s
<1>6. DOMAIN maps = MapFields /\ \A f \in MapFields : DOMAIN maps[f] = Node BY DEF Init
<1>7. log \in [Node -> Seq(Entries)] BY <1>3, InitFacts
<1> QED BY <1>1, <1>2, <1>3, <1>4, <1>5, <1>6, <1>7 DEF TypeInv

-----------------------------------------------------------------------------
(* What a step does to the stages that have begun.                         *)
LEMMA ConstFacts ==
    ASSUME UNCHANGED <<plan, target, fileOp>>
    PROVE  /\ Node' = Node /\ CountedOps' = CountedOps
           /\ \A d : /\ Reachable(d)' <=> Reachable(d)
                     /\ Total(d)' = Total(d) /\ Resolved(d)' = Resolved(d) /\ Pulled(d)' = Pulled(d)
           /\ \A d, e : Child(d, e)' <=> Child(d, e)
           /\ \A e : LayerRule(e)' <=> LayerRule(e)
           /\ NoSiblings' <=> NoSiblings
<1>1. Node' = Node /\ CountedOps' = CountedOps BY DEF Node, CountedOps
<1>2. Edges' = Edges BY <1>1 DEF Edges
<1>3. ASSUME NEW d PROVE Reachable(d)' <=> Reachable(d) BY <1>2 DEF Reachable
<1>4. ASSUME NEW d PROVE Total(d)' = Total(d) BY <1>1 DEF Total, Which
<1>5. ASSUME NEW d PROVE Resolved(d)' = Resolved(d) /\ Pulled(d)' = Pulled(d) BY DEF Resolved, Pulled
<1>6. ASSUME NEW d, NEW e PROVE Child(d, e)' <=> Child(d, e) BY DEF Child
<1>7. ASSUME NEW e PROVE LayerRule(e)' <=> LayerRule(e) BY <1>1 DEF LayerRule
<1>8. NoSiblings' <=> NoSiblings BY <1>1, <1>6 DEF NoSiblings
<1> QED BY <1>1, <1>3, <1>4, <1>5, <1>6, <1>7, <1>8

LEMMA TargetReachable == ASSUME TypeInv PROVE Reachable(target)
BY DEF Reachable, Reaches

LEMMA BegunFacts ==
    ASSUME TypeInv, UNCHANGED <<plan, target, fileOp>>, NEW d \in Node
    PROVE  /\ BeginStage => Begun(d)' <=> Begun(d) \/ d = cur
           /\ Handler \/ Moves \/ Finish => Begun(d)' <=> Begun(d)
<1>1. cur \in Nat /\ d \in Nat /\ d <= Len(plan) /\ Len(plan) \in Nat BY PlanFacts
<1>2. Reachable(d)' <=> Reachable(d) BY ConstFacts
<1>3. BeginStage => Begun(d)' <=> Begun(d) \/ d = cur
  <2> SUFFICES ASSUME BeginStage PROVE Begun(d)' <=> Begun(d) \/ d = cur OBVIOUS
  <2>1. cur' = cur /\ phase = "stage" /\ phase' = "triggers" /\ Reachable(cur) BY BeginFacts
  <2> QED BY <1>1, <1>2, <2>1 DEF Begun
<1>4. Handler => Begun(d)' <=> Begun(d)
  <2> SUFFICES ASSUME Handler PROVE Begun(d)' <=> Begun(d) OBVIOUS
  <2>1. cur' = cur /\ phase' = phase BY DEF Handler, Stepped, Rest
  <2> QED BY <1>2, <2>1 DEF Begun
<1>5. Moves => Begun(d)' <=> Begun(d)
  <2> SUFFICES ASSUME Moves PROVE Begun(d)' <=> Begun(d) OBVIOUS
  <2>1. \/ phase = "stage" /\ phase' = "stage" /\ cur' = cur + 1 /\ ~Reachable(cur)
        \/ phase # "stage" /\ phase' # "stage" /\ cur' = cur
        \/ phase # "stage" /\ phase' = "stage" /\ cur' = cur + 1
    BY MoveFacts
  <2> QED BY <1>1, <1>2, <2>1 DEF Begun
<1>6. Finish => Begun(d)' <=> Begun(d)
  <2> SUFFICES ASSUME Finish PROVE Begun(d)' <=> Begun(d) OBVIOUS
  <2>1. cur' = cur /\ cur = Len(plan) + 1 BY FinishFacts
  <2> QED BY <1>1, <1>2, <2>1 DEF Begun
<1> QED BY <1>3, <1>4, <1>5, <1>6

\* what a step leaves of a stage it is not about
LEMMA OtherFacts ==
    ASSUME TypeInv, BeginStage \/ Handler \/ Moves
    PROVE  cur \in Node /\ \A d \in Node : d # cur => ds'[d] = ds[d] /\ log'[d] = log[d]
<1>1. CASE BeginStage BY <1>1, BeginFacts DEF TypeInv
<1>2. CASE Handler
  <2>p. PICK layer \in BOOLEAN : \E s : Running /\ Rest(s, Entry(layer)) BY <1>2 DEF Handler, Stepped
  <2>1. PICK s : Running /\ Rest(s, Entry(layer)) BY <2>p
  <2>2. cur \in Node BY <2>1, TypeInvState
  <2> QED BY <2>1, <2>2 DEF Rest, TypeInv
<1>3. CASE Moves BY <1>3, MoveFacts DEF TypeInv
<1> QED BY <1>1, <1>2, <1>3

\* and of the one it is about, when it handles an instruction
LEMMA HandlerFacts ==
    ASSUME TypeInv, Handler
    PROVE  /\ Running /\ cur \in Node
           /\ \E layer \in BOOLEAN : LET e == Entry(layer) IN
                 /\ e \in Entries /\ e \in Things
                 /\ e.op = Instr.op /\ e.key = Instr.key /\ e.val = Instr.val /\ e.stage = cur
                 /\ Core(ds'[cur], e) /\ LayerRule(e) /\ Memory(ds'[cur], e) /\ Rest(ds'[cur], e)
                 /\ log'[cur] = Append(log[cur], e)
<1>p. PICK layer \in BOOLEAN : \E s : Running /\ Stepped(s, Entry(layer)) BY DEF Handler
<1>1. PICK s : Running /\ Stepped(s, Entry(layer)) BY <1>p
<1>2. cur \in Node BY <1>1, TypeInvState
<1> DEFINE e == Entry(layer)
<1>3. e \in Entries /\ e \in Things BY <1>1, EntryType
<1>4. e.op = Instr.op /\ e.key = Instr.key /\ e.val = Instr.val /\ e.stage = cur BY EntryFacts
<1>5. Core(s, e) /\ LayerRule(e) /\ Memory(s, e) /\ Rest(s, e) BY <1>1 DEF Stepped
<1> HIDE DEF e
<1>6. ds'[cur] = s /\ log'[cur] = Append(log[cur], e) BY <1>2, <1>5 DEF Rest, TypeInv
<1>7. Core(ds'[cur], e) /\ Memory(ds'[cur], e) /\ Rest(ds'[cur], e) BY <1>5, <1>6
<1> QED BY <1>1, <1>2, <1>3, <1>4, <1>5, <1>6, <1>7 DEF e

\* one action at a time: what a stage is left with by the steps between instructions
LEMMA KeptFacts ==
    ASSUME TypeInv, Moves \/ Finish, NEW d \in Node
    PROVE  LET s == ds[d]
               t == ds'[d]
           IN  /\ log'[d] = log[d]
               /\ t.layers = s.layers /\ t.hist = s.hist /\ t.fields = s.fields /\ t.cmd = s.cmd
               /\ t.entrypoint = s.entrypoint /\ t.cmdSet = s.cmdSet /\ t.cmdIndex = s.cmdIndex
               /\ t.ctxPaths = s.ctxPaths /\ t.imageEnv = s.imageEnv /\ t.env = s.env
               /\ ~(phase = "triggers" /\ d = cur) => t.onBuild = s.onBuild
               /\ Moves => t.maps = s.maps
<1>1. CASE Finish
  <2>1. log' = log /\ phase = "stage" BY <1>1, FinishFacts
  <2>2. ~Moves BY <1>1, PlanFacts DEF Moves, SkipStage, BeginCommands, EndStage, DispatchError, Finish, TypeInv, ControlType
  <2>3. CASE d = target BY <1>1, <2>1, <2>2, <2>3, FinishFacts
  <2>4. CASE d # target
    <3>1. ds'[d] = ds[d] BY <1>1, <2>4, FinishFacts
    <3> QED BY <2>1, <3>1
  <2> QED BY <2>3, <2>4
<1>2. CASE Moves
  <2>1. log' = log BY <1>2, MoveFacts
  <2>2. CASE UNCHANGED ds BY <2>1, <2>2
  <2>3. CASE phase = "triggers" /\ ds' = [ds EXCEPT ![cur].onBuild = <<>>]
    <3> DEFINE t == [ds[cur] EXCEPT !.onBuild = <<>>]
    <3>1. cur \in Node /\ DOMAIN ds = Node /\ Shape(ds[cur]) BY <1>2, MoveFacts DEF TypeInv, StateType
    <3>2. ds'[d] = IF d = cur THEN t ELSE ds[d] BY <2>3, <3>1
    <3>3. LET s == ds[cur] IN
          /\ t.layers = s.layers /\ t.hist = s.hist /\ t.fields = s.fields /\ t.cmd = s.cmd
          /\ t.entrypoint = s.entrypoint /\ t.cmdSet = s.cmdSet /\ t.cmdIndex = s.cmdIndex
          /\ t.ctxPaths = s.ctxPaths /\ t.imageEnv = s.imageEnv /\ t.env = s.env
          /\ t.maps = s.maps
      BY <3>1 DEF Shape, Fields
    <3> HIDE DEF t
    <3> QED BY <2>1, <2>3, <3>2, <3>3
  <2> QED BY <1>2, <2>2, <2>3, MoveFacts
<1> QED BY <1>1, <1>2

-----------------------------------------------------------------------------
(* A stage that has not begun is as it was registered.                     *)
LEMMA FreshStep ==
    ASSUME TypeInv, FreshInv, Next
    PROVE  FreshInv'
<1>1. UNCHANGED <<plan, target, fileOp>> /\ (BeginStage \/ Handler \/ Moves \/ Finish) BY NextCases
<1>2. Node' = Node /\ \A d : (Reachable(d)' <=> Reachable(d)) /\ Resolved(d)' = Resolved(d) BY <1>1, ConstFacts
<1>3. ASSUME NEW d \in Node, d = cur', phase' # "stage" PROVE Reachable(d)'
  <2>1. CASE BeginStage BY <1>2, <1>3, <2>1, BeginFacts
  <2>2. CASE Handler
    <3>1. cur' = cur /\ phase' = phase BY <2>2 DEF Handler, Stepped, Rest
    <3> QED BY <1>2, <1>3, <3>1 DEF FreshInv
  <2>3. CASE Moves
    <3>1. phase' = "stage" \/ (phase # "stage" /\ cur' = cur) BY <2>3, MoveFacts
    <3> QED BY <1>2, <1>3, <3>1 DEF FreshInv
  <2>4. CASE Finish
    <3>1. cur' = Len(plan) + 1 /\ Len(plan) \in Nat /\ Node = 1 .. Len(plan) BY <2>4, FinishFacts, PlanFacts
    <3> QED BY <1>3, <3>1
  <2> QED BY <1>1, <2>1, <2>2, <2>3, <2>4
<1>4. ASSUME NEW d \in Node, ~Begun(d)' PROVE ds'[d] = Resolved(d) /\ log'[d] = plan[d].upstream
  <2>1. ~Begun(d) BY <1>1, <1>4, BegunFacts
  <2>2. CASE BeginStage
    <3>1. d # cur BY <1>1, <1>4, <2>2, BegunFacts
    <3> QED BY <2>1, <2>2, <3>1, OtherFacts DEF FreshInv
  <2>3. CASE Handler \/ Moves
    <3>1. CASE d # cur BY <2>1, <2>3, <3>1, OtherFacts DEF FreshInv
    <3>2. CASE d = cur
      <4>1. phase = "stage" BY <2>1, <3>2 DEF Begun, FreshInv
      <4>2. ~Handler BY <4>1 DEF Handler, Running
      <4>3. UNCHANGED ds /\ UNCHANGED log BY <2>3, <4>1, <4>2, MoveFacts
      <4> QED BY <2>1, <4>3 DEF FreshInv
    <3> QED BY <3>1, <3>2
  <2>4. CASE Finish
    <3>1. d < cur BY <2>4, FinishFacts, PlanFacts
    <3>2. d # target BY <2>1, <3>1, TargetReachable DEF Begun
    <3>3. ds'[d] = ds[d] /\ log' = log BY <2>4, <3>2, FinishFacts
    <3> QED BY <2>1, <3>3 DEF FreshInv
  <2> QED BY <1>1, <2>2, <2>3, <2>4
<1> QED BY <1>1, <1>2, <1>3, <1>4 DEF FreshInv

-----------------------------------------------------------------------------
(* The instructions behind a stage are those of the first base first.      *)
LEMMA LinedAppend ==
    ASSUME NEW d \in Nat, NEW l \in Seq(Entries), Lined(l, d), NEW e \in Entries, e.stage = d
    PROVE  Lined(Append(l, e), d)
<1> DEFINE n == Len(l)
           m == Append(l, e)
<1>1. l \in Seq(Things) /\ e \in Things BY DEF Things
<1>2. n \in Nat /\ Len(m) = n + 1 /\ (\A i \in 1 .. n : m[i] = l[i]) /\ m[n + 1] = e BY <1>1, AppendFacts
<1>3. \A i \in 1 .. n : l[i].stage \in Nat
  <2>1. \A i \in 1 .. n : l[i] \in Entries OBVIOUS
  <2> QED BY <2>1 DEF Entries, Ran
<1> HIDE DEF m, n
<1>4. \A i \in 1 .. n + 1 : m[i].stage <= d BY <1>2 DEF Lined, n
<1>5. ASSUME NEW i \in 1 .. n + 1, NEW j \in 1 .. n + 1, i <= j PROVE m[i].stage <= m[j].stage
  <2>1. CASE j = n + 1 BY <1>2, <1>4, <2>1
  <2>2. CASE j # n + 1
    <3>1. i \in 1 .. n /\ j \in 1 .. n BY <1>2, <1>5, <2>2
    <3> QED BY <1>2, <1>5, <3>1 DEF Lined, Ordered, n
  <2> QED BY <2>1, <2>2
<1> QED BY <1>2, <1>4, <1>5 DEF Lined, Ordered, m

LEMMA LogStep ==
    ASSUME TypeInv, LogInv, Next
    PROVE  LogInv'
<1>1. UNCHANGED <<plan, target, fileOp>> /\ (BeginStage \/ Handler \/ Moves \/ Finish) BY NextCases
<1>2. Node' = Node /\ \A d \in Node : d \in Nat /\ log[d] \in Seq(Entries) BY <1>1, ConstFacts, PlanFacts DEF TypeInv
<1>3. ASSUME NEW d \in Node PROVE Lined(log'[d], d)
  <2>1. CASE BeginStage /\ d = cur
    <3>1. log'[d] = log[Source] /\ Source \in Node /\ Source <= cur BY <2>1, BeginFacts DEF TypeInv
    <3>2. Source \in Nat /\ Lined(log[Source], Source) BY <1>2, <3>1 DEF LogInv
    <3>3. \A i \in 1 .. Len(log[Source]) : log[Source][i].stage \in Nat
      <4>1. \A i \in 1 .. Len(log[Source]) : log[Source][i] \in Entries BY <1>2, <3>1
      <4> QED BY <4>1 DEF Entries, Ran
    <3> QED BY <1>2, <2>1, <3>1, <3>2, <3>3 DEF Lined
  <2>2. CASE Handler /\ d = cur
    <3>1. PICK e \in Entries : e.stage = cur /\ log'[cur] = Append(log[cur], e) BY <2>2, HandlerFacts
    <3> QED BY <1>2, <2>2, <3>1, LinedAppend DEF LogInv
  <2>3. CASE d # cur /\ (BeginStage \/ Handler \/ Moves) BY <2>3, OtherFacts DEF LogInv
  <2>4. CASE Moves \/ Finish BY <2>4, KeptFacts DEF LogInv
  <2> QED BY <1>1, <2>1, <2>2, <2>3, <2>4
<1> QED BY <1>2, <1>3 DEF LogInv

-----------------------------------------------------------------------------
(* Environments.                                                           *)
LEMMA PathTwice == ASSUME NEW E PROVE WithPath(WithPath(E)) = WithPath(E)
BY DEF WithPath, AddEnv

LEMMA PathAdd ==
    ASSUME NEW E, NEW k, NEW v
    PROVE  AddEnv(WithPath(E), k, v) = WithPath(AddEnv(E, k, v))
<1>1. CASE "PATH" \in DOMAIN E
  <2>1. "PATH" \in DOMAIN AddEnv(E, k, v) BY <1>1 DEF AddEnv
  <2> QED BY <1>1, <2>1 DEF WithPath
<1>2. CASE "PATH" \notin DOMAIN E /\ k = "PATH"
  <2>1. "PATH" \in DOMAIN AddEnv(E, k, v) BY <1>2 DEF AddEnv
  <2>2. AddEnv(AddEnv(E, "PATH", "default"), "PATH", v) = AddEnv(E, "PATH", v) BY DEF AddEnv
  <2> QED BY <1>2, <2>1, <2>2 DEF WithPath
<1>3. CASE "PATH" \notin DOMAIN E /\ k # "PATH"
  <2>1. "PATH" \notin DOMAIN AddEnv(E, k, v) BY <1>3 DEF AddEnv
  <2>2. AddEnv(AddEnv(E, "PATH", "default"), k, v) = AddEnv(AddEnv(E, k, v), "PATH", "default")
    BY <1>3 DEF AddEnv
  <2> QED BY <1>3, <2>1, <2>2 DEF WithPath
<1> QED BY <1>1, <1>2, <1>3

-----------------------------------------------------------------------------
(* The config is what the instructions say.                                *)
\* an instruction more: the last to assign a variable, or none of its matter
LEMMA ArgAppend ==
    ASSUME NEW l \in Seq(Things), NEW e \in Things, NEW d, NEW k, NEW i \in 1 .. Len(l) + 1
    PROVE  ArgLast(Append(l, e), d, k, i) <=>
               \/ i = Len(l) + 1 /\ e.op = "Arg" /\ e.stage = d /\ Assigns(e, k)
               \/ i \in 1 .. Len(l) /\ ArgLast(l, d, k, i) /\ ~Assigns(e, k)
<1> DEFINE n == Len(l)
           m == Append(l, e)
<1>1. n \in Nat /\ Len(m) = n + 1 /\ (\A j \in 1 .. n : m[j] = l[j]) /\ m[n + 1] = e BY AppendFacts
<1> HIDE DEF n, m
<1>2. i \in 1 .. n + 1 BY DEF n
<1>3. CASE i = n + 1
  <2>1. i + 1 .. Len(m) = {} BY <1>1, <1>3
  <2>2. i \notin 1 .. n BY <1>1, <1>3
  <2> QED BY <1>1, <1>3, <2>1, <2>2 DEF ArgLast, m, n
<1>4. CASE i \in 1 .. n
  <2>1. i # n + 1 /\ m[i] = l[i] BY <1>1, <1>4
  <2>2. \A j : j \in i + 1 .. n + 1 <=> j \in i + 1 .. n \/ j = n + 1 BY <1>1, <1>4
  <2>3. \A j \in i + 1 .. n : m[j] = l[j] BY <1>1, <1>4
  <2>4. (\A j \in i + 1 .. Len(m) : ~Assigns(m[j], k)) <=> (\A j \in i + 1 .. n : ~Assigns(l[j], k)) /\ ~Assigns(e, k)
    BY <1>1, <2>2, <2>3
  <2> QED BY <1>4, <2>1, <2>4 DEF ArgLast, m, n
<1> QED BY <1>1, <1>2, <1>3, <1>4

LEMMA ReplayAppend ==
    ASSUME TypeInv, Running, NEW l \in Seq(Entries), Lined(l, cur), NEW e \in Entries, e.stage = cur,
           NEW s, Core(s, e), LayerRule(e), Replays(S, l), Started(S, l, cur)
    PROVE  Replays(s, Append(l, e)) /\ Started(s, Append(l, e), cur)
<1> DEFINE n == Len(l)
           m == Append(l, e)
<1>1. l \in Seq(Things) /\ e \in Things BY DEF Things
<1>2. n \in Nat /\ Len(m) = n + 1 /\ (\A i \in 1 .. n : m[i] = l[i]) /\ m[n + 1] = e /\ m \in Seq(Things)
  BY <1>1, AppendFacts
<1>3. \A f \in SetFields : s.fields[f] = SetValue(m, f)
  <2> TAKE f \in SetFields
  <2>1. S.fields[f] = SetValue(l, f) BY DEF Replays
  <2>2. SetValue(m, f) = IF e.op # f THEN SetValue(l, f)
                         ELSE IF f = "WorkingDir" THEN Into(e, SetValue(l, f)) ELSE e.val
    BY <1>1, FieldAppend
  <2>3. s.fields[f] = IF e.op # f THEN S.fields[f] ELSE IF f = "WorkingDir" THEN Into(e, S.fields[f]) ELSE e.val
    BY DEF Core
  <2> HIDE DEF m
  <2> QED BY <2>1, <2>2, <2>3
<1>4. S.fields["Shell"] = SetValue(l, "Shell") BY DEF Replays, SetFields
<1>5. s.cmd = CmdOf(m)
  <2>1. CmdOf(m) = IF e.op = "Cmd" THEN ShellArgs(SetValue(l, "Shell"), e)
                   ELSE IF e.op = "Entrypoint" /\ ~CmdIn(l, cur) THEN Absent ELSE CmdOf(l)
    BY CmdAppend DEF Lined
  <2>2. s.cmd = IF e.op = "Cmd" THEN ShellArgs(S.fields["Shell"], e)
                ELSE IF e.op = "Entrypoint" /\ ~S.cmdSet THEN Absent ELSE S.cmd
    BY DEF Core
  <2>3. S.cmd = CmdOf(l) /\ (S.cmdSet <=> CmdIn(l, cur)) BY DEF Replays, Started
  <2> HIDE DEF m
  <2> QED BY <1>4, <2>1, <2>2, <2>3
<1>6. s.entrypoint = EntrypointOf(m)
  <2>1. EntrypointOf(m) = IF e.op = "Entrypoint" THEN ShellArgs(SetValue(l, "Shell"), e) ELSE EntrypointOf(l)
    BY <1>1, EntrypointAppend
  <2>2. s.entrypoint = IF e.op = "Entrypoint" THEN ShellArgs(S.fields["Shell"], e) ELSE S.entrypoint BY DEF Core
  <2>3. S.entrypoint = EntrypointOf(l) BY DEF Replays
  <2> HIDE DEF m
  <2> QED BY <1>4, <2>1, <2>2, <2>3
<1>7. s.imageEnv = WithPath(EnvOf(m))
  <2>1. EnvOf(m) = IF e.op = "Env" THEN AddEnv(EnvOf(l), e.key, e.val) ELSE EnvOf(l) BY <1>1, EnvAppend
  <2>2. s.imageEnv = IF e.op = "Env" THEN AddEnv(S.imageEnv, e.key, e.val) ELSE S.imageEnv BY DEF Core
  <2>3. S.imageEnv = WithPath(EnvOf(l)) BY DEF Started
  <2> HIDE DEF m
  <2> QED BY <2>1, <2>2, <2>3, PathAdd
<1>8. s.layers = LayersIn(HistoryOf(m))
  <2> DEFINE h == HistoryOf(l)
  <2>1. h \in Seq(Things) /\ HistoryOf(m) = IF e.op # "OnBuild" THEN Append(h, e) ELSE h BY <1>1, HistoryAppend
  <2>2. S.layers = LayersIn(h) BY DEF Replays
  <2> HIDE DEF h, m
  <2>3. LayersIn(h) \in Nat /\ LayersIn(Append(h, e)) = LayersIn(h) + (IF e.layer THEN 1 ELSE 0)
    BY <1>1, <2>1, LayersAppend
  <2>4. s.layers = S.layers + (IF e.layer THEN 1 ELSE 0) BY DEF Core
  <2>5. e.op = "OnBuild" => ~e.layer BY DEF LayerRule, CountedOps
  <2> QED BY <2>1, <2>2, <2>3, <2>4, <2>5
<1>9. s.cmdSet <=> CmdIn(m, cur)
  <2>1. s.cmdSet <=> (S.cmdSet \/ e.op = "Cmd") BY DEF Core
  <2>2. S.cmdSet <=> CmdIn(l, cur) BY DEF Started
  <2>3. CmdIn(m, cur) <=> CmdIn(l, cur) \/ e.op = "Cmd"
    <3> HIDE DEF m
    <3>1. \A i \in 1 .. n + 1 : i \in 1 .. n \/ i = n + 1 BY <1>2
    <3>2. CmdIn(m, cur) <=> \E i \in 1 .. n + 1 : m[i].op = "Cmd" /\ m[i].stage = cur BY <1>2 DEF CmdIn
    <3>3. CmdIn(l, cur) <=> \E i \in 1 .. n : l[i].op = "Cmd" /\ l[i].stage = cur BY DEF CmdIn
    <3>4. 1 .. n \subseteq 1 .. n + 1 /\ n + 1 \in 1 .. n + 1 BY <1>2
    <3> QED BY <1>2, <3>1, <3>2, <3>3, <3>4
  <2> HIDE DEF m
  <2> QED BY <2>1, <2>2, <2>3
<1>10. s.env = IF e.op = "Env" \/ (e.op = "Arg" /\ e.val # Absent) THEN AddEnv(S.env, e.key, e.val) ELSE S.env
  BY DEF Core
<1>11. s.imageEnv = IF e.op = "Env" THEN AddEnv(S.imageEnv, e.key, e.val) ELSE S.imageEnv BY DEF Core
<1>12. DOMAIN s.imageEnv \subseteq DOMAIN s.env
  <2>1. DOMAIN S.imageEnv \subseteq DOMAIN S.env BY DEF Started
  <2> QED BY <1>10, <1>11, <2>1 DEF AddEnv
<1>13. ASSUME NEW k \in DOMAIN s.imageEnv PROVE Seen(s, m, cur, k)
  <2>1. \A i \in 1 .. n + 1 : ArgLast(m, cur, k, i) <=>
             \/ i = n + 1 /\ e.op = "Arg" /\ Assigns(e, k)
             \/ i \in 1 .. n /\ ArgLast(l, cur, k, i) /\ ~Assigns(e, k)
    BY <1>1, ArgAppend
  <2> HIDE DEF m, n
  <2>2. CASE e.op = "Env" /\ k = e.key
    <3>1. s.env[k] = e.val /\ s.imageEnv[k] = e.val BY <1>10, <1>11, <2>2 DEF AddEnv
    <3>2. \A i \in 1 .. n + 1 : ~ArgLast(m, cur, k, i) BY <2>1, <2>2 DEF Assigns
    <3> QED BY <1>2, <3>1, <3>2 DEF Seen
  <2>3. CASE e.op = "Arg" /\ e.val # Absent /\ k = e.key
    <3>1. s.env[k] = e.val BY <1>10, <2>3 DEF AddEnv
    <3>2. n + 1 \in 1 .. n + 1 BY <1>2
    <3>3. \A i \in 1 .. n + 1 : ArgLast(m, cur, k, i) <=> i = n + 1 BY <2>1, <2>3 DEF Assigns
    <3> QED BY <1>2, <3>1, <3>2, <3>3 DEF Seen
  <2>4. CASE ~(e.op = "Env" /\ k = e.key) /\ ~(e.op = "Arg" /\ e.val # Absent /\ k = e.key)
    <3>1. k \in DOMAIN S.imageEnv /\ s.imageEnv[k] = S.imageEnv[k] BY <1>11, <2>4 DEF AddEnv
    <3>2. k \in DOMAIN S.env BY <3>1 DEF Started
    <3>3. s.env[k] = S.env[k] BY <1>10, <2>4, <3>2 DEF AddEnv
    <3>4. Seen(S, l, cur, k) BY <3>1 DEF Started
    <3>5. 1 .. n \subseteq 1 .. n + 1 BY <1>2
    <3>6. \A i \in 1 .. n + 1 : ArgLast(m, cur, k, i) <=> i \in 1 .. n /\ ArgLast(l, cur, k, i)
      BY <2>1, <2>4 DEF Assigns
    <3>7. \A i \in 1 .. n : ArgLast(l, cur, k, i) => S.env[k] = l[i].val BY <3>4 DEF Seen, n
    <3>8. (\A i \in 1 .. n : ~ArgLast(l, cur, k, i)) => S.env[k] = S.imageEnv[k] BY <3>4 DEF Seen, n
    <3>9. \A i \in 1 .. n + 1 : ArgLast(m, cur, k, i) => s.env[k] = m[i].val BY <1>2, <3>3, <3>6, <3>7
    <3>10. (\A i \in 1 .. n + 1 : ~ArgLast(m, cur, k, i)) => s.env[k] = s.imageEnv[k]
      BY <3>1, <3>3, <3>5, <3>6, <3>8
    <3> QED BY <1>2, <3>9, <3>10 DEF Seen
  <2> QED BY <2>2, <2>3, <2>4
<1> HIDE DEF m
<1> QED BY <1>3, <1>5, <1>6, <1>7, <1>8, <1>9, <1>12, <1>13 DEF Replays, Started, m

\* what a stage takes over is of other stages
LEMMA NoneOwn ==
    ASSUME TypeInv, FreshInv, LogInv, BeginStage
    PROVE  log[Source] \in Seq(Entries) /\ \A i \in 1 .. Len(log[Source]) : log[Source][i].stage # cur
<1>1. cur \in Node /\ Source \in Node /\ Source <= cur BY BeginFacts
<1>2. cur \in Nat /\ cur > 0 /\ Source \in Nat BY <1>1, PlanFacts
<1> DEFINE l == log[Source]
<1>3. l \in Seq(Entries) BY <1>1 DEF TypeInv
<1>4. ASSUME NEW i \in 1 .. Len(l) PROVE l[i].stage # cur
  <2>1. l[i] \in Entries BY <1>3
  <2>2. l[i].stage \in Nat BY <2>1 DEF Entries, Ran
  <2>3. CASE Source # cur
    <3>1. l[i].stage <= Source BY <1>1 DEF LogInv, Lined
    <3> QED BY <1>1, <1>2, <2>2, <2>3, <3>1
  <2>4. CASE Source = cur
    <3>1. ~Begun(cur) BY BeginFacts, PlanFacts DEF Begun
    <3>2. l = plan[cur].upstream BY <1>1, <2>4, <3>1 DEF FreshInv
    <3>3. l[i] \in Upstream BY <1>1, <3>2, PlanFacts
    <3>4. l[i].stage = 0 BY <3>3 DEF Upstream, Ran
    <3> QED BY <1>2, <3>4
  <2> QED BY <2>3, <2>4
<1> QED BY <1>3, <1>4

LEMMA BeginReplay ==
    ASSUME TypeInv, FreshInv, LogInv, ReplayInv, BeginStage
    PROVE  Replays(ds'[cur], log'[cur]) /\ Started(ds'[cur], log'[cur], cur)
<1>1. cur \in Node /\ Source \in Node /\ Source <= cur /\ (plan[cur].kind = "stage" <=> Source # cur) BY BeginFacts
<1>2. PICK s : Begins(s) /\ ds' = [ds EXCEPT ![cur] = s] BY BeginFacts
<1>3. ds'[cur] = s /\ log'[cur] = log[Source] BY <1>1, <1>2, BeginFacts DEF TypeInv
<1> DEFINE l == log[Source]
           b == ds[Source]
           E == EnvOf(l)
<1>4. Replays(b, l) BY <1>1 DEF ReplayInv
<1>5. s.imageEnv = WithPath(b.imageEnv) /\ s.env = Over(WithPath(b.imageEnv), b.env)
      /\ s.layers = b.layers /\ s.fields = b.fields /\ s.cmd = b.cmd /\ s.entrypoint = b.entrypoint
      /\ s.cmdSet = S.cmdSet
  BY <1>2 DEF Begins
<1>6. WithPath(b.imageEnv) = WithPath(E)
  <2>1. b.imageEnv \in {E, WithPath(E)} BY <1>4 DEF Replays
  <2> HIDE DEF E, b
  <2> QED BY <2>1, PathTwice
<1>7. Replays(s, l) BY <1>4, <1>5, <1>6 DEF Replays
<1>8. S.cmdSet = FALSE
  <2>1. ~Begun(cur) BY BeginFacts, PlanFacts DEF Begun
  <2>2. S = Resolved(cur) BY <1>1, <2>1 DEF FreshInv, S
  <2> QED BY <2>2 DEF Resolved
<1>9. ~CmdIn(l, cur)
  <2>1. \A i \in 1 .. Len(l) : l[i].stage # cur BY NoneOwn
  <2> HIDE DEF l
  <2> QED BY <2>1 DEF CmdIn
<1>10. DOMAIN s.imageEnv \subseteq DOMAIN s.env /\ \A k \in DOMAIN s.imageEnv : s.env[k] = s.imageEnv[k]
  BY <1>5 DEF Over
<1>11. Started(s, l, cur)
  <2>1. \A i \in 1 .. Len(l) : l[i].stage # cur BY NoneOwn
  <2>2. \A k : \A i \in 1 .. Len(l) : ~ArgLast(l, cur, k, i) BY <2>1 DEF ArgLast
  <2>3. \A k \in DOMAIN s.imageEnv : Seen(s, l, cur, k) BY <1>10, <2>2 DEF Seen
  <2> QED BY <1>5, <1>6, <1>8, <1>9, <1>10, <2>3 DEF Started
<1> QED BY <1>3, <1>7, <1>11

LEMMA ReplayStep ==
    ASSUME TypeInv, FreshInv, LogInv, ReplayInv, StartedInv, Next
    PROVE  ReplayInv' /\ StartedInv'
<1>1. UNCHANGED <<plan, target, fileOp>> /\ (BeginStage \/ Handler \/ Moves \/ Finish) BY NextCases
<1>2. Node' = Node BY <1>1, ConstFacts
<1>3. ASSUME NEW d \in Node
      PROVE  Replays(ds'[d], log'[d]) /\ (Begun(d)' => Started(ds'[d], log'[d], d))
  <2>1. CASE BeginStage /\ d = cur BY <2>1, BeginReplay
  <2>2. CASE Handler /\ d = cur
    <3>1. PICK e \in Entries : e.stage = cur /\ Core(ds'[cur], e) /\ LayerRule(e) /\ log'[cur] = Append(log[cur], e)
      BY <2>2, HandlerFacts
    <3>2. Running BY <2>2, HandlerFacts
    <3>3. Begun(cur) BY <2>2, <3>2 DEF FreshInv, Running, Begun
    <3>4. log[cur] \in Seq(Entries) /\ Lined(log[cur], cur) /\ Replays(S, log[cur]) /\ Started(S, log[cur], cur)
      BY <2>2, <3>3 DEF TypeInv, LogInv, ReplayInv, StartedInv, S
    <3> QED BY <2>2, <3>1, <3>2, <3>4, ReplayAppend
  <2>3. CASE d # cur /\ (BeginStage \/ Handler \/ Moves)
    <3>1. ds'[d] = ds[d] /\ log'[d] = log[d] BY <2>3, OtherFacts
    <3>2. Begun(d)' => Begun(d) BY <1>1, <2>3, BegunFacts
    <3> QED BY <3>1, <3>2 DEF ReplayInv, StartedInv
  <2>4. CASE Moves \/ Finish
    <3>1. Begun(d)' => Begun(d) BY <1>1, <2>4, BegunFacts
    <3>2. Replays(ds[d], log[d]) /\ (Begun(d) => Started(ds[d], log[d], d)) BY DEF ReplayInv, StartedInv
    <3>3. LET s == ds[d]
              t == ds'[d]
          IN  /\ log'[d] = log[d]
              /\ t.layers = s.layers /\ t.fields = s.fields /\ t.cmd = s.cmd
              /\ t.entrypoint = s.entrypoint /\ t.cmdSet = s.cmdSet
              /\ t.imageEnv = s.imageEnv /\ t.env = s.env
      BY <2>4, KeptFacts
    <3> QED BY <3>1, <3>2, <3>3 DEF Replays, Started, Seen
  <2> QED BY <1>1, <2>1, <2>2, <2>3, <2>4
<1> QED BY <1>2, <1>3 DEF ReplayInv, StartedInv

-----------------------------------------------------------------------------
(* The stage's own instructions, and the steps counted.                    *)
OfStage(d) == {c \in Things : c.stage = d}
OwnOf(l, d) == Picked(l, Among(l, OfStage(d)))

LEMMA OwnIs ==
    ASSUME NEW l \in Seq(Entries), NEW d
    PROVE  Picked(l, {i \in 1 .. Len(l) : l[i].stage = d}) = OwnOf(l, d)
<1>1. \A i \in 1 .. Len(l) : l[i] \in Entries OBVIOUS
<1>2. {i \in 1 .. Len(l) : l[i].stage = d} = Among(l, OfStage(d)) BY <1>1 DEF Among, OfStage, Things
<1> QED BY <1>2 DEF OwnOf

LEMMA OwnAppend ==
    ASSUME NEW l \in Seq(Entries), NEW d, NEW e \in Entries
    PROVE  /\ OwnOf(l, d) \in Seq(Things)
           /\ OwnOf(Append(l, e), d) = IF e.stage = d THEN Append(OwnOf(l, d), e) ELSE OwnOf(l, d)
<1>1. l \in Seq(Things) /\ e \in Things BY DEF Things
<1> DEFINE T == OfStage(d)
<1>2. e \in T <=> e.stage = d BY <1>1 DEF OfStage
<1> HIDE DEF T
<1>3. /\ Picked(l, Among(l, T)) \in Seq(Things)
      /\ Picked(Append(l, e), Among(Append(l, e), T)) =
             IF e \in T THEN Append(Picked(l, Among(l, T)), e) ELSE Picked(l, Among(l, T))
  BY <1>1, PickedTail
<1>4. OwnOf(l, d) = Picked(l, Among(l, T)) /\ OwnOf(Append(l, e), d) = Picked(Append(l, e), Among(Append(l, e), T))
  BY DEF OwnOf, T
<1> QED BY <1>2, <1>3, <1>4

LEMMA NothingPicked ==
    ASSUME NEW l, NEW T, \A i \in 1 .. Len(l) : l[i] \notin T
    PROVE  Picked(l, Among(l, T)) = <<>>
<1>1. Among(l, T) = {} BY DEF Among
<1>2. Cardinality({}) = 0 BY FS_EmptySet
<1>3. 1 .. 0 = {} OBVIOUS
<1> QED BY <1>1, <1>2, <1>3 DEF Picked

LEMMA NoLayers == LayersIn(<<>>) = 0
<1>1. Which(<<>>, LAMBDA c : c.layer) = {} BY DEF Which
<1> QED BY <1>1, FS_EmptySet DEF LayersIn

LEMMA NoTriggers == OnBuildOf(<<>>) = <<>>
<1>1. <<>> \in Seq(Things) /\ Len(<<>>) = 0 OBVIOUS
<1>2. Which(<<>>, LAMBDA c : c.op = "OnBuild") = Among(<<>>, WithOp("OnBuild")) BY <1>1, WhichOp
<1> DEFINE g == Picked(<<>>, Among(<<>>, WithOp("OnBuild")))
<1>3. g = <<>> BY NothingPicked
<1>4. OnBuildOf(<<>>) = [i \in 1 .. Len(g) |-> g[i].val] BY <1>2 DEF OnBuildOf
<1> HIDE DEF g
<1>5. 1 .. Len(g) = {} BY <1>3
<1> QED BY <1>4, <1>5

LEMMA OwnType ==
    ASSUME TypeInv, NEW d \in Node
    PROVE  Own(d) = OwnOf(log[d], d) /\ Own(d) \in Seq(Things) /\ Len(Own(d)) \in Nat
<1>1. log[d] \in Seq(Entries) BY DEF TypeInv
<1>2. Own(d) = OwnOf(log[d], d) BY <1>1, OwnIs DEF Own, Which
<1> DEFINE l == log[d]
<1>3. l \in Seq(Things) BY <1>1 DEF Things
<1> HIDE DEF l
<1>4. Among(l, OfStage(d)) \in SUBSET (1 .. Len(l)) BY <1>3, AmongFacts
<1>5. OwnOf(l, d) \in Seq(Things) BY <1>3, <1>4, PickedType DEF OwnOf
<1> QED BY <1>2, <1>5 DEF l

\* the own instructions of a stage after a step
LEMMA OwnFacts ==
    ASSUME TypeInv, FreshInv, LogInv, Next
    PROVE  /\ \A d \in Node : Own(d) \in Seq(Things) /\ Len(Own(d)) \in Nat
           /\ BeginStage => Own(cur)' = <<>>
           /\ \A e \in Entries : e.stage = cur /\ cur \in Node /\ cur' = cur /\ log'[cur] = Append(log[cur], e) =>
                  Own(cur)' = Append(Own(cur), e)
           /\ \A d \in Node : log'[d] = log[d] => Own(d)' = Own(d)
<1>1. \A d \in Node : log[d] \in Seq(Entries) BY DEF TypeInv
<1>2. ASSUME NEW d \in Node PROVE Own(d) = OwnOf(log[d], d) BY OwnType
<1>3. ASSUME NEW d \in Node PROVE Own(d) \in Seq(Things) /\ Len(Own(d)) \in Nat BY OwnType
<1>4. ASSUME BeginStage PROVE Own(cur)' = <<>>
  <2>1. cur \in Node /\ cur' = cur /\ log' = [log EXCEPT ![cur] = log[Source]] BY <1>4, BeginFacts
  <2>2. log'[cur] = log[Source] BY <2>1 DEF TypeInv
  <2> DEFINE l == log[Source]
  <2>3. l \in Seq(Entries) /\ \A i \in 1 .. Len(l) : l[i].stage # cur BY <1>4, NoneOwn
  <2> HIDE DEF l
  <2>4. \A i \in 1 .. Len(l) : l[i] \notin OfStage(cur) BY <2>3 DEF OfStage
  <2>5. OwnOf(l, cur) = <<>> BY <2>4, NothingPicked DEF OwnOf
  <2>6. Picked(l, {i \in 1 .. Len(l) : l[i].stage = cur}) = <<>> BY <2>3, <2>5, OwnIs
  <2> QED BY <2>1, <2>2, <2>6 DEF Own, Which, l
<1>5. ASSUME NEW e \in Entries, e.stage = cur, cur \in Node, cur' = cur, log'[cur] = Append(log[cur], e)
      PROVE  Own(cur)' = Append(Own(cur), e)
  <2> DEFINE l == log[cur]
             m == Append(l, e)
  <2>1. l \in Seq(Entries) BY <1>1, <1>5
  <2>2. m \in Seq(Entries) BY <2>1
  <2>3. OwnOf(m, cur) = Append(OwnOf(l, cur), e) BY <1>5, <2>1, OwnAppend
  <2> HIDE DEF l, m
  <2>4. Picked(m, {i \in 1 .. Len(m) : m[i].stage = cur}) = OwnOf(m, cur) BY <2>2, OwnIs
  <2>5. Picked(m, {i \in 1 .. Len(m) : m[i].stage = cur}) = Append(Own(cur), e) BY <1>2, <1>5, <2>3, <2>4 DEF l
  <2>6. log'[cur'] = m /\ cur' = cur BY <1>5 DEF l, m
  <2>7. Own(cur)' = Picked(m, {i \in 1 .. Len(m) : m[i].stage = cur}) BY <2>6 DEF Own, Which
  <2> QED BY <2>5, <2>7
<1>6. ASSUME NEW d \in Node, log'[d] = log[d] PROVE Own(d)' = Own(d) BY <1>6 DEF Own, Which
<1> QED BY <1>3, <1>4, <1>5, <1>6

\* The steps counted are the layers made.
LEMMA CountStep ==
    ASSUME TypeInv, FreshInv, LogInv, CountInv, Next
    PROVE  CountInv'
<1>1. UNCHANGED <<plan, target, fileOp>> /\ (BeginStage \/ Handler \/ Moves \/ Finish) BY NextCases
<1>2. Node' = Node /\ \A d : Total(d)' = Total(d) /\ Pulled(d)' = Pulled(d) BY <1>1, ConstFacts
<1>3. \A e : LayerRule(e)' <=> LayerRule(e) BY <1>1, ConstFacts
<1> DEFINE Index(d) == Pulled(d) + (IF Total(d) = 0 THEN 0 ELSE LayersIn(Own(d)))
<1>4. ASSUME NEW d \in Node
      PROVE  /\ ds'[d].cmdIndex = Pulled(d) + (IF Total(d) = 0 THEN 0 ELSE LayersIn(Own(d)'))
             /\ \A i \in 1 .. Len(Own(d)') : LayerRule((Own(d)')[i])
  <2>1. ds[d].cmdIndex = Pulled(d) + (IF Total(d) = 0 THEN 0 ELSE LayersIn(Own(d)))
        /\ \A i \in 1 .. Len(Own(d)) : LayerRule(Own(d)[i])
    BY DEF CountInv, Counts
  <2>2. Own(d) \in Seq(Things) /\ Len(Own(d)) \in Nat BY OwnFacts
  <2>3. CASE BeginStage /\ d = cur
    <3>0. cur' = cur /\ Own(cur)' = <<>> BY <2>3, BeginFacts, OwnFacts
    <3>1. Own(d)' = <<>> BY <2>3, <3>0
    <3>2. ds'[d].cmdIndex = Pulled(d)
      <4>1. PICK s : Begins(s) /\ ds' = [ds EXCEPT ![cur] = s] BY <2>3, BeginFacts
      <4>2. ds'[d] = s /\ s.cmdIndex = ds[d].cmdIndex BY <2>3, <4>1 DEF TypeInv, Begins, S
      <4>3. ~Begun(cur) BY <2>3, BeginFacts, PlanFacts DEF Begun
      <4>4. ds[d] = Resolved(d) BY <2>3, <4>3 DEF FreshInv
      <4> QED BY <4>2, <4>4 DEF Resolved, Pulled
    <3>3. Pulled(d) \in Nat BY DEF Pulled
    <3> QED BY <3>1, <3>2, <3>3, NoLayers
  <2>4. CASE Handler /\ d = cur
    <3>1. PICK e \in Entries : /\ e.stage = cur /\ Core(ds'[cur], e) /\ LayerRule(e) /\ Rest(ds'[cur], e)
                               /\ log'[cur] = Append(log[cur], e) /\ e \in Things
      BY <2>4, HandlerFacts
    <3>2. cur' = cur BY <3>1 DEF Rest
    <3>3. Own(d)' = Append(Own(d), e) BY <2>4, <3>1, <3>2, OwnFacts
    <3> DEFINE o == Own(d)
    <3>4. o \in Seq(Things) /\ \A i \in 1 .. Len(o) : LayerRule(o[i]) BY <2>1, <2>2
    <3> HIDE DEF o
    <3>5. LayersIn(o) \in Nat /\ LayersIn(Append(o, e)) = LayersIn(o) + (IF e.layer THEN 1 ELSE 0)
      BY <3>1, <3>4, LayersAppend
    <3>6. ds'[d].cmdIndex = ds[d].cmdIndex + (IF e.layer /\ Total(d) # 0 THEN 1 ELSE 0)
      BY <2>4, <3>1 DEF Core, S
    <3>7. Pulled(d) \in Nat BY DEF Pulled
    <3>8. ds[d].cmdIndex = Pulled(d) + (IF Total(d) = 0 THEN 0 ELSE LayersIn(o)) BY <2>1 DEF o
    <3>9. ds'[d].cmdIndex = Pulled(d) + (IF Total(d) = 0 THEN 0 ELSE LayersIn(Append(o, e)))
      BY <3>5, <3>6, <3>7, <3>8
    <3>10. \A i \in 1 .. Len(Append(o, e)) : LayerRule(Append(o, e)[i])
      <4>1. Len(o) \in Nat /\ Len(Append(o, e)) = Len(o) + 1 /\ (\A i \in 1 .. Len(o) : Append(o, e)[i] = o[i])
            /\ Append(o, e)[Len(o) + 1] = e
        BY <3>1, <3>4, AppendFacts
      <4>2. \A i \in 1 .. Len(o) + 1 : i \in 1 .. Len(o) \/ i = Len(o) + 1 BY <4>1
      <4> QED BY <3>1, <3>4, <4>1, <4>2
    <3> QED BY <3>3, <3>9, <3>10 DEF o
  <2>5. CASE d # cur /\ (BeginStage \/ Handler \/ Moves)
    <3>1. ds'[d] = ds[d] /\ log'[d] = log[d] BY <2>5, OtherFacts
    <3>2. Own(d)' = Own(d) BY <3>1, OwnFacts
    <3> QED BY <2>1, <3>1, <3>2
  <2>6. CASE Moves \/ Finish
    <3>1. ds'[d].cmdIndex = ds[d].cmdIndex /\ log'[d] = log[d] BY <2>6, KeptFacts
    <3>2. Own(d)' = Own(d) BY <3>1, OwnFacts
    <3> QED BY <2>1, <3>1, <3>2
  <2> QED BY <1>1, <2>3, <2>4, <2>5, <2>6
<1> QED BY <1>2, <1>3, <1>4 DEF CountInv, Counts

-----------------------------------------------------------------------------
(* What is left to dispatch.                                               *)
LEMMA TailFacts ==
    ASSUME NEW t \in Seq(Instructions), t # <<>>
    PROVE  /\ Len(t) \in Nat /\ Len(t) > 0 /\ Len(Tail(t)) = Len(t) - 1 /\ Head(t) = t[1]
           /\ \A j \in 1 .. Len(t) - 1 : Tail(t)[j] = t[j + 1]
OBVIOUS

LEMMA TodoStep ==
    ASSUME TypeInv, TodoInv, Next
    PROVE  TodoInv'
<1>1. UNCHANGED <<plan, target, fileOp>> /\ (BeginStage \/ Handler \/ Moves \/ Finish) BY NextCases
<1> SUFFICES ASSUME phase' = "commands"
             PROVE  LET c == plan[cur'].cmds
                        n == Len(c) - Len(todo')
                    IN  /\ n \in 0 .. Len(c)
                        /\ \A j \in 1 .. Len(todo') : todo'[j] = c[n + j]
                        /\ ds'[cur'].onBuild = OnBuildOf(SubSeq(c, 1, n))
  BY <1>1 DEF TodoInv, Done, S
<1> DEFINE c == plan[cur].cmds
<1>2. CASE BeginStage BY <1>2, BeginFacts
<1>3. CASE Finish BY <1>3, FinishFacts
<1>4. CASE Moves
  <2>1. /\ todo' = c /\ ds' = [ds EXCEPT ![cur].onBuild = <<>>] /\ cur' = cur /\ cur \in Node
    BY <1>4, MoveFacts
  <2>2. c \in Seq(Instructions) /\ Len(c) \in Nat BY <2>1, PlanFacts
  <2>3. ds'[cur].onBuild = <<>>
    <3>1. DOMAIN ds = Node /\ Shape(ds[cur]) BY <2>1 DEF TypeInv, StateType
    <3> QED BY <2>1, <3>1 DEF Shape, Fields
  <2> HIDE DEF c
  <2>4. SubSeq(c, 1, 0) = <<>> BY <2>2
  <2>5. Len(c) - Len(todo') = 0 BY <2>1, <2>2
  <2>6. ds'[cur].onBuild = OnBuildOf(SubSeq(c, 1, 0)) BY <2>3, <2>4, NoTriggers
  <2>7. \A j \in 1 .. Len(c) : todo'[j] = c[0 + j] BY <2>1, <2>2
  <2> QED BY <2>1, <2>2, <2>5, <2>6, <2>7 DEF c
<1>5. CASE Handler
  <2>1. Running /\ cur \in Node BY <1>5, HandlerFacts
  <2>2. PICK e \in Things : /\ e.op = Instr.op /\ e.val = Instr.val /\ Core(ds'[cur], e) /\ Rest(ds'[cur], e)
    BY <1>5, HandlerFacts
  <2>3. phase = "commands" /\ cur' = cur /\ todo' = Tail(todo) BY <2>2 DEF Rest
  <2>4. todo \in Seq(Instructions) /\ todo # <<>> BY <2>1 DEF TypeInv, Running
  <2>5. Len(todo) \in Nat /\ Len(todo) > 0 /\ Len(todo') = Len(todo) - 1 /\ Instr = todo[1]
        /\ \A j \in 1 .. Len(todo) - 1 : todo'[j] = todo[j + 1]
    BY <2>3, <2>4, TailFacts DEF Instr
  <2>6. c \in Seq(Instructions) /\ Len(c) \in Nat BY <2>1, PlanFacts
  <2> DEFINE n == Len(c) - Len(todo)
  <2>7. /\ n \in 0 .. Len(c)
        /\ \A j \in 1 .. Len(todo) : todo[j] = c[n + j]
        /\ S.onBuild = OnBuildOf(SubSeq(c, 1, n))
    BY <2>3 DEF TodoInv, Done
  <2> HIDE DEF c
  <2>8. n \in Nat /\ n + 1 <= Len(c) /\ Len(c) - Len(todo') = n + 1 BY <2>5, <2>6, <2>7
  <2> HIDE DEF n
  <2>9. \A j \in 1 .. Len(todo') : todo'[j] = c[(n + 1) + j]
    <3> TAKE j \in 1 .. Len(todo')
    <3>1. j \in Nat /\ j + 1 \in 1 .. Len(todo) /\ j \in 1 .. Len(todo) - 1 BY <2>5
    <3>2. todo'[j] = c[n + (j + 1)] BY <2>5, <2>7, <3>1
    <3>3. n + (j + 1) = (n + 1) + j BY <2>8, <3>1
    <3> QED BY <3>2, <3>3
  <2>10. Instr = c[n + 1]
    <3>1. 1 \in 1 .. Len(todo) BY <2>5
    <3> QED BY <2>5, <2>7, <3>1
  <2>12. ds'[cur].onBuild = OnBuildOf(SubSeq(c, 1, n + 1))
    <3> DEFINE h == SubSeq(c, 1, n)
               x == c[n + 1]
    <3>1. h \in Seq(Instructions) /\ x \in Instructions BY <2>6, <2>8
    <3>2. SubSeq(c, 1, n + 1) = Append(h, x) BY <2>6, <2>8
    <3>3. S.onBuild = OnBuildOf(h) BY <2>7
    <3> HIDE DEF h, x
    <3>4. h \in Seq(Things) /\ x \in Things BY <3>1 DEF Things
    <3>5. OnBuildOf(Append(h, x)) = IF x.op = "OnBuild" THEN Append(OnBuildOf(h), x.val) ELSE OnBuildOf(h)
      BY <3>4, OnBuildAppend
    <3>6. ds'[cur].onBuild = IF e.op = "OnBuild" THEN Append(S.onBuild, e.val) ELSE S.onBuild BY <2>2 DEF Core
    <3>7. e.op = x.op /\ e.val = x.val BY <2>2, <2>10 DEF x
    <3> QED BY <3>2, <3>3, <3>5, <3>6, <3>7
  <2>13. n + 1 \in 0 .. Len(c) BY <2>6, <2>8
  <2> QED BY <2>3, <2>8, <2>9, <2>12, <2>13 DEF c
<1> QED BY <1>1, <1>2, <1>3, <1>4, <1>5

LEMMA OverStep ==
    ASSUME TypeInv, TodoInv, OverInv, Next
    PROVE  OverInv'
<1>1. UNCHANGED <<plan, target, fileOp>> /\ (BeginStage \/ Handler \/ Moves \/ Finish) BY NextCases
<1>2. Node' = Node /\ \A d : Reachable(d)' <=> Reachable(d) BY <1>1, ConstFacts
<1>3. ASSUME NEW d \in Node, Reachable(d), d < cur'
      PROVE  ds'[d].onBuild = OnBuildOf(plan[d].cmds)
  <2>1. d \in Nat /\ cur \in Nat BY PlanFacts
  <2>2. CASE d < cur
    <3>1. ds[d].onBuild = OnBuildOf(plan[d].cmds) BY <1>3, <2>2 DEF OverInv
    <3>2. ds'[d].onBuild = ds[d].onBuild
      <4>1. d # cur BY <2>1, <2>2
      <4>2. CASE BeginStage \/ Handler \/ Moves BY <4>1, <4>2, OtherFacts
      <4>3. CASE Finish BY <4>1, <4>3, KeptFacts
      <4> QED BY <1>1, <4>2, <4>3
    <3> QED BY <3>1, <3>2
  <2>3. CASE ~(d < cur)
    <3>1. cur' # cur BY <1>3, <2>3
    <3>2. Moves
      <4>1. ~BeginStage /\ ~Finish BY <3>1, BeginFacts, FinishFacts
      <4>2. ~Handler BY <3>1 DEF Handler, Stepped, Rest
      <4> QED BY <1>1, <4>1, <4>2
    <3>3. cur' = cur + 1 BY <3>1, <3>2, MoveFacts
    <3>4. d = cur BY <1>3, <2>1, <2>3, <3>3
    <3>5. EndStage /\ phase = "commands" /\ todo = <<>> /\ ds' = ds
      BY <1>3, <3>1, <3>2, <3>4, MoveFacts
    <3> DEFINE c == plan[d].cmds
    <3>6. c \in Seq(Instructions) /\ Len(c) \in Nat BY PlanFacts
    <3>7. Done = Len(c) BY <3>4, <3>5, <3>6 DEF Done
    <3>8. S.onBuild = OnBuildOf(SubSeq(c, 1, Len(c))) BY <3>4, <3>5, <3>7 DEF TodoInv
    <3> HIDE DEF c
    <3>9. SubSeq(c, 1, Len(c)) = c BY <3>6
    <3> QED BY <3>4, <3>5, <3>8, <3>9 DEF c, S
  <2> QED BY <2>2, <2>3
<1> QED BY <1>1, <1>2, <1>3 DEF OverInv

\* What was read is what the stage ended with.
LEMMA ReadStep ==
    ASSUME TypeInv, ReadInv, Next
    PROVE  ReadInv'
<1>1. UNCHANGED <<plan, target, fileOp>> /\ (BeginStage \/ Handler \/ Moves \/ Finish) BY NextCases
<1>2. Node' = Node /\ Node = 1 .. Len(plan) /\ Len(plan) \in Nat /\ cur \in Nat BY <1>1, ConstFacts, PlanFacts
<1>3. cur \in 1 .. Len(plan) + 1 BY DEF TypeInv, ControlType
<1>4. \A d \in Node : d < cur => ds'[d].layers = ds[d].layers
  <2>1. CASE BeginStage \/ Handler BY <1>2, <2>1, OtherFacts
  <2>2. CASE Moves \/ Finish BY <2>2, KeptFacts
  <2> QED BY <1>1, <2>1, <2>2
<1>5. ASSUME NEW r \in reads PROVE r.stage \in 1 .. cur /\ (r.src \in 1 .. r.stage - 1 => r.layers = ds'[r.src].layers)
  <2>1. r.stage \in 1 .. cur /\ (r.src \in 1 .. r.stage - 1 => r.layers = ds[r.src].layers) BY DEF ReadInv
  <2>2. r.src \in 1 .. r.stage - 1 => r.src \in Node /\ r.src < cur BY <1>2, <1>3, <2>1
  <2> QED BY <1>4, <2>1, <2>2
<1>6. CASE Handler
  <2>1. cur' = cur /\ cur \in Node BY <1>6, HandlerFacts DEF Rest
  <2>2. \A r \in reads' : r \in reads \/ \E src : r = Read(src) BY <1>6, HandlerFacts DEF Rest
  <2>3. ASSUME NEW src PROVE Read(src).stage = cur /\ (Read(src).src \in 1 .. cur - 1 => Read(src).layers = ds'[src].layers)
    <3>1. Read(src).stage = cur /\ Read(src).src = src BY DEF Read
    <3>2. ASSUME src \in 1 .. cur - 1 PROVE Read(src).layers = ds'[src].layers
      <4>1. src # Fresh /\ src \in Node /\ src < cur BY <1>2, <1>3, <3>2 DEF Fresh
      <4> QED BY <1>4, <4>1 DEF Read
    <3> QED BY <3>1, <3>2
  <2>4. \A src : Read(src).src = src BY DEF Read
  <2>5. cur \in 1 .. cur BY <1>2, <1>3
  <2> QED BY <1>5, <2>1, <2>2, <2>3, <2>4, <2>5 DEF ReadInv
<1>7. CASE BeginStage \/ Moves \/ Finish
  <2>1. reads' = reads /\ cur' \in {cur, cur + 1}
    <3>1. CASE BeginStage BY <3>1, BeginFacts
    <3>2. CASE Moves BY <3>2, MoveFacts
    <3>3. CASE Finish BY <3>3, FinishFacts
    <3> QED BY <1>7, <3>1, <3>2, <3>3
  <2>2. 1 .. cur \subseteq 1 .. cur' BY <1>2, <2>1
  <2> QED BY <1>5, <2>1, <2>2 DEF ReadInv
<1> QED BY <1>1, <1>6, <1>7

-----------------------------------------------------------------------------
(* The triggers, and then the instructions, run in their order.            *)
LEMMA ExpectedFacts ==
    ASSUME TypeInv, NEW d \in Node
    PROVE  /\ Triggers(d) \in Seq(Instructions) /\ Len(Triggers(d)) \in Nat
           /\ plan[d].cmds \in Seq(Instructions) /\ Len(plan[d].cmds) \in Nat
           /\ Expected(d) \in Seq(Instructions) /\ Len(Expected(d)) = Len(Triggers(d)) + Len(plan[d].cmds)
           /\ \A j \in 1 .. Len(Triggers(d)) : Expected(d)[j] = Triggers(d)[j]
           /\ \A j \in 1 .. Len(plan[d].cmds) : Expected(d)[Len(Triggers(d)) + j] = plan[d].cmds[j]
<1> DEFINE t == Triggers(d)
           c == plan[d].cmds
<1>1. t \in Seq(Instructions)
  <2>1. CASE plan[d].kind = "stage"
    <3>1. plan[d].base \in Node BY <2>1, PlanFacts
    <3>2. ds[plan[d].base].onBuild \in Seq(Instructions) BY <3>1 DEF TypeInv, StateType
    <3> QED BY <2>1, <3>2 DEF Triggers
  <2>2. CASE plan[d].kind # "stage"
    <3> DEFINE u == plan[d].upstream
    <3>1. u \in Seq(Entries) BY PlanFacts
    <3> HIDE DEF u
    <3>2. u \in Seq(Things) BY <3>1 DEF Things
    <3>3. OnBuildOf(u) \in Seq(Instructions) BY <3>2, OnBuildType
    <3> QED BY <2>2, <3>3 DEF Triggers, u
  <2> QED BY <2>1, <2>2
<1>2. c \in Seq(Instructions) BY PlanFacts
<1>3. Expected(d) = t \o c BY DEF Expected
<1> HIDE DEF t, c
<1>4. Len(t) \in Nat /\ Len(c) \in Nat BY <1>1, <1>2
<1>5. t \o c \in Seq(Instructions) /\ Len(t \o c) = Len(t) + Len(c)
      /\ (\A j \in 1 .. Len(t) : (t \o c)[j] = t[j]) /\ (\A j \in 1 .. Len(c) : (t \o c)[Len(t) + j] = c[j])
  BY <1>1, <1>2, <1>4
<1> QED BY <1>1, <1>2, <1>3, <1>4, <1>5 DEF t, c

\* the triggers of a stage that has begun are settled
LEMMA ExpectedKept ==
    ASSUME TypeInv, Next, NEW d \in Node, d <= cur
    PROVE  Expected(d)' = Expected(d)
<1>1. UNCHANGED <<plan, target, fileOp>> /\ (BeginStage \/ Handler \/ Moves \/ Finish) BY NextCases
<1>2. CASE plan[d].kind = "stage"
  <2> DEFINE b == plan[d].base
  <2>1. b \in Node /\ b # cur BY <1>2, PlanFacts
  <2>2. ds'[b].onBuild = ds[b].onBuild
    <3>1. CASE BeginStage \/ Handler BY <2>1, <3>1, OtherFacts
    <3>2. CASE Moves \/ Finish BY <2>1, <3>2, KeptFacts
    <3> QED BY <1>1, <3>1, <3>2
  <2> QED BY <1>1, <1>2, <2>2 DEF Expected, Triggers
<1>3. CASE plan[d].kind # "stage" BY <1>1, <1>3 DEF Expected, Triggers
<1> QED BY <1>2, <1>3

LEMMA BeginOrder ==
    ASSUME TypeInv, FreshInv, LogInv, BeginStage, Next
    PROVE  todo' \in Seq(Instructions) /\ Triggers(cur) = todo' /\ Own(cur)' = <<>>
<1>1. cur \in Node /\ Source \in Node BY BeginFacts
<1>2. PICK s : Begins(s) /\ todo' = s.onBuild BY BeginFacts
<1>3. todo' = ds[Source].onBuild BY <1>2 DEF Begins
<1>4. CASE plan[cur].kind = "stage"
  <2>1. Source = plan[cur].base BY <1>4 DEF Source
  <2> QED BY <1>1, <1>3, <1>4, <2>1, OwnFacts, ExpectedFacts DEF Triggers
<1>5. CASE plan[cur].kind # "stage"
  <2>1. Source = cur BY <1>5 DEF Source
  <2>2. ~Begun(cur) BY BeginFacts, PlanFacts DEF Begun
  <2>3. ds[cur] = Resolved(cur) BY <1>1, <2>2 DEF FreshInv
  <2>4. ds[cur].onBuild = OnBuildOf(plan[cur].upstream) BY <2>3 DEF Resolved
  <2> QED BY <1>1, <1>3, <1>5, <2>1, <2>4, OwnFacts, ExpectedFacts DEF Triggers
<1> QED BY <1>4, <1>5

\* the next instruction to dispatch is the one expected
LEMMA NextExpected ==
    ASSUME TypeInv, TodoInv, FreshInv, OrderInv, Running,
           Own(cur) \in Seq(Things), Len(Own(cur)) \in Nat
    PROVE  /\ Follows(cur) /\ Instr = todo[1] /\ Instr = Expected(cur)[Len(Own(cur)) + 1]
           /\ Len(todo) \in Nat /\ Len(todo) > 0 /\ Len(Tail(todo)) = Len(todo) - 1
           /\ \A j \in 1 .. Len(todo) - 1 : Tail(todo)[j] = todo[j + 1]
<1>1. cur \in Node /\ cur \in Nat BY TypeInvState
<1>2. todo \in Seq(Instructions) /\ todo # <<>> BY DEF TypeInv, Running
<1>3. Len(todo) \in Nat /\ Len(todo) > 0 /\ Len(Tail(todo)) = Len(todo) - 1 /\ Instr = todo[1]
      /\ \A j \in 1 .. Len(todo) - 1 : Tail(todo)[j] = todo[j + 1]
  BY <1>2, TailFacts DEF Instr
<1>4. phase \in {"triggers", "commands"} BY DEF Running
<1>5. Begun(cur) BY <1>1, <1>4 DEF FreshInv, Begun
<1>6. Follows(cur) BY <1>1, <1>4, <1>5 DEF OrderInv
<1> DEFINE o == Own(cur)
           x == Expected(cur)
           t == Triggers(cur)
           c == plan[cur].cmds
<1>7. 1 \in 1 .. Len(todo) BY <1>3
<1>8. CASE phase = "triggers" BY <1>1, <1>3, <1>6, <1>7, <1>8 DEF OrderInv
<1>9. CASE phase = "commands"
  <2>1. ~(cur < cur) BY <1>1
  <2>2. Len(o) + Len(todo) = Len(x) BY <1>6, <1>9, <2>1 DEF Follows, Left
  <2>3. Len(t) \in Nat /\ Len(c) \in Nat /\ Len(x) = Len(t) + Len(c) /\ \A j \in 1 .. Len(c) : x[Len(t) + j] = c[j]
    BY <1>1, ExpectedFacts
  <2>4. Done = Len(c) - Len(todo) /\ Done \in 0 .. Len(c) /\ todo[1] = c[Done + 1]
    BY <1>3, <1>7, <1>9 DEF TodoInv, Done
  <2>5. Len(o) \in Nat OBVIOUS
  <2> DEFINE n == Len(todo)
             k == Len(o)
             D == Done
  <2> HIDE DEF o, x, t, c, n, k, D
  <2>6. Done + 1 \in 1 .. Len(c) /\ Len(o) + 1 = Len(t) + (Done + 1)
    <3>1. n \in Nat /\ n > 0 /\ k \in Nat /\ D \in 0 .. Len(c) /\ D = Len(c) - n /\ k + n = Len(x)
      BY <1>3, <2>2, <2>4, <2>5 DEF n, k, D
    <3>2. D + 1 \in 1 .. Len(c) /\ k + 1 = Len(t) + (D + 1) BY <2>3, <3>1
    <3> QED BY <3>2 DEF k, D
  <2>7. x[Len(o) + 1] = todo[1] BY <2>3, <2>4, <2>6
  <2> QED BY <1>3, <1>6, <2>7 DEF o, x
<1> QED BY <1>4, <1>8, <1>9

LEMMA OrderStep ==
    ASSUME TypeInv, FreshInv, LogInv, TodoInv, OrderInv, Next
    PROVE  OrderInv'
<1>1. UNCHANGED <<plan, target, fileOp>> /\ (BeginStage \/ Handler \/ Moves \/ Finish) BY NextCases
<1>2. Node' = Node /\ Node = 1 .. Len(plan) /\ Len(plan) \in Nat /\ cur \in Nat /\ \A d \in Node : d \in Nat
  BY <1>1, ConstFacts, PlanFacts
<1>3. \A d \in Node : Own(d) \in Seq(Things) /\ Len(Own(d)) \in Nat BY OwnFacts
<1>4. ASSUME Handler, NEW d \in Node, d = cur
      PROVE  /\ Follows(d)' /\ phase' = phase /\ cur' = cur
             /\ phase' = "triggers" => \A j \in 1 .. Len(todo') : todo'[j] = (Expected(d)')[Len(Own(d)') + j]
  <2>1. Running /\ cur \in Node BY <1>4, HandlerFacts
  <2>2. PICK e \in Entries : /\ e.stage = cur /\ Rest(ds'[cur], e) /\ log'[cur] = Append(log[cur], e) /\ e \in Things
                             /\ e.op = Instr.op /\ e.val = Instr.val
    BY <1>4, HandlerFacts
  <2>3. cur' = cur /\ phase' = phase /\ todo' = Tail(todo) BY <2>2 DEF Rest
  <2>4. Own(d)' = Append(Own(d), e)
    <3>1. Own(cur)' = Append(Own(cur), e) BY <2>1, <2>2, <2>3, OwnFacts
    <3> QED BY <1>4, <2>3, <3>1
  <2>5. /\ Follows(cur) /\ Instr = Expected(cur)[Len(Own(cur)) + 1]
        /\ Len(todo) \in Nat /\ Len(todo) > 0 /\ Len(todo') = Len(todo) - 1
        /\ \A j \in 1 .. Len(todo) - 1 : todo'[j] = todo[j + 1]
    BY <1>3, <2>1, <2>3, NextExpected
  <2>6. Expected(d)' = Expected(d) BY <1>2, <1>4, ExpectedKept
  <2> DEFINE o == Own(d)
             x == Expected(d)
             c == plan[d].cmds
             p == Append(o, e)
  <2>7. Len(o) \in Nat /\ Len(p) = Len(o) + 1 /\ (\A i \in 1 .. Len(o) : p[i] = o[i]) /\ p[Len(o) + 1] = e
    BY <1>3, <2>2, AppendFacts
  <2>8. Len(c) \in Nat BY PlanFacts
  <2>9. Len(o) + (IF phase = "triggers" THEN Len(todo) + Len(c) ELSE Len(todo)) = Len(x)
        /\ \A i \in 1 .. Len(o) : o[i].op = x[i].op /\ o[i].val = x[i].val
    BY <1>2, <1>4, <2>5 DEF Follows, Left
  <2>10. x[Len(o) + 1] = Instr BY <1>4, <2>5
  <2>11. phase = "triggers" => \A j \in 1 .. Len(todo) : todo[j] = x[Len(o) + j] BY <1>4 DEF OrderInv
  <2> HIDE DEF o, x, c, p
  <2>12. Len(p) + (IF phase = "triggers" THEN Len(todo') + Len(c) ELSE Len(todo')) = Len(x)
    <3> DEFINE k == Len(o)
               n == Len(todo)
               m == Len(todo')
    <3>1. k \in Nat /\ n \in Nat /\ m = n - 1 /\ Len(p) = k + 1 BY <2>5, <2>7
    <3>2. k + (IF phase = "triggers" THEN n + Len(c) ELSE n) = Len(x) BY <2>9
    <3> HIDE DEF k, n, m
    <3>3. CASE phase = "triggers"
      <4>1. k + (n + Len(c)) = Len(x) BY <3>2, <3>3
      <4>2. k + (n + Len(c)) = (k + 1) + (m + Len(c)) BY <2>8, <3>1
      <4> QED BY <3>1, <3>3, <4>1, <4>2 DEF m
    <3>4. CASE phase # "triggers"
      <4>1. k + n = Len(x) BY <3>2, <3>4
      <4>2. k + n = (k + 1) + m BY <3>1
      <4> QED BY <3>1, <3>4, <4>1, <4>2 DEF m
    <3> QED BY <3>3, <3>4
  <2>13. \A i \in 1 .. Len(p) : p[i].op = x[i].op /\ p[i].val = x[i].val
    <3>1. \A i \in 1 .. Len(p) : i \in 1 .. Len(o) \/ i = Len(o) + 1 BY <2>7
    <3> QED BY <2>2, <2>7, <2>9, <2>10, <3>1
  <2>14. ASSUME phase = "triggers", NEW j \in 1 .. Len(todo') PROVE todo'[j] = x[Len(p) + j]
    <3>1. j \in Nat /\ j + 1 \in 1 .. Len(todo) /\ j \in 1 .. Len(todo) - 1 BY <2>5
    <3>2. todo[j + 1] = x[Len(o) + (j + 1)] BY <2>11, <2>14, <3>1
    <3>3. Len(o) + (j + 1) = Len(p) + j BY <2>7, <3>1
    <3> QED BY <2>5, <3>1, <3>2, <3>3
  <2>15. Follows(d)'
    <3>1. Own(d)' = p /\ Expected(d)' = x BY <2>4, <2>6 DEF o, p, x
    <3>2. Left(d)' = IF phase = "triggers" THEN Len(todo') + Len(c) ELSE Len(todo')
      <4>1. Left(d)' = IF d < cur' THEN 0
                       ELSE IF phase' = "triggers" THEN Len(todo') + Len(plan'[d].cmds) ELSE Len(todo')
        BY DEF Left
      <4>2. plan' = plan /\ cur' = cur /\ phase' = phase /\ ~(d < cur) BY <1>1, <1>2, <1>4, <2>3
      <4> QED BY <4>1, <4>2 DEF c
    <3> QED BY <2>12, <2>13, <3>1, <3>2 DEF Follows
  <2> QED BY <2>3, <2>4, <2>6, <2>14, <2>15 DEF o, p, x
<1>5. ASSUME BeginStage, NEW d \in Node, d = cur
      PROVE  /\ Follows(d)' /\ cur' = cur
             /\ \A j \in 1 .. Len(todo') : todo'[j] = (Expected(d)')[Len(Own(d)') + j]
  <2>1. todo' \in Seq(Instructions) /\ Triggers(cur) = todo' /\ Own(cur)' = <<>> BY <1>5, BeginOrder
  <2>2. cur' = cur /\ phase' = "triggers" BY <1>5, BeginFacts
  <2>3. Expected(d)' = Expected(d) BY <1>2, <1>5, ExpectedKept
  <2>4. Len(todo') \in Nat /\ Len(plan[d].cmds) \in Nat /\ Len(Expected(d)) = Len(todo') + Len(plan[d].cmds)
        /\ \A j \in 1 .. Len(todo') : Expected(d)[j] = todo'[j]
    BY <1>5, <2>1, ExpectedFacts
  <2>5. Left(d)' = Len(todo') + Len(plan[d].cmds) BY <1>1, <1>2, <1>5, <2>2 DEF Left
  <2>6. Own(d)' = <<>> BY <1>5, <2>1, <2>2
  <2>7. Len(Own(d)') = 0 BY <2>6
  <2>8. \A j \in 1 .. Len(todo') : j = 0 + j BY <2>4
  <2> QED BY <2>2, <2>3, <2>4, <2>5, <2>7, <2>8 DEF Follows
<1>6. ASSUME Moves \/ Finish, NEW d \in Node, Begun(d)', ~(d = cur' /\ phase' = "failed")
      PROVE  Follows(d)'
  <2>1. Begun(d) /\ d <= cur BY <1>1, <1>2, <1>6, BegunFacts DEF Begun
  <2>2. log'[d] = log[d] BY <1>6, KeptFacts
  <2>3. Own(d)' = Own(d) /\ Expected(d)' = Expected(d) BY <2>1, <2>2, OwnFacts, ExpectedKept
  <2>4. Follows(d) /\ Left(d)' = Left(d)
    <3>1. CASE Finish
      <4>1. d < cur /\ cur' = cur BY <1>2, <3>1, FinishFacts
      <4> QED BY <1>2, <2>1, <4>1 DEF OrderInv, Left
    <3>2. CASE d < cur
      <4>1. d < cur' BY <1>2, <1>6, <3>2, MoveFacts, FinishFacts
      <4> QED BY <1>2, <2>1, <3>2, <4>1 DEF OrderInv, Left
    <3>3. CASE Moves /\ d = cur
      <4>1. ~(phase' = "failed") BY <1>6, <3>3, MoveFacts
      <4>2. ~SkipStage BY <2>1, <3>3 DEF SkipStage, Begun
      <4>3. phase \in {"triggers", "commands"} BY <3>3, <4>1, <4>2, MoveFacts
      <4>4. Follows(d) BY <2>1, <3>3, <4>3 DEF OrderInv
      <4>5. Len(plan[d].cmds) \in Nat /\ Len(<<>>) = 0 BY PlanFacts
      <4>6. Left(d)' = Left(d)
        <5>1. CASE phase = "triggers"
          <6>1. todo = <<>> /\ todo' = plan[cur].cmds /\ cur' = cur /\ phase' = "commands"
            BY <3>3, <4>1, <4>2, <5>1, MoveFacts
          <6> QED BY <1>2, <3>3, <4>5, <5>1, <6>1 DEF Left
        <5>2. CASE phase = "commands"
          <6>1. todo = <<>> /\ cur' = cur + 1 BY <3>3, <4>1, <4>2, <5>2, MoveFacts
          <6> QED BY <1>2, <3>3, <4>5, <5>2, <6>1 DEF Left
        <5> QED BY <4>3, <5>1, <5>2
      <4> QED BY <4>4, <4>6
    <3> QED BY <1>2, <1>6, <2>1, <3>1, <3>2, <3>3
  <2> QED BY <2>3, <2>4 DEF Follows
<1>7. ASSUME BeginStage \/ Handler, NEW d \in Node, Begun(d)', d # cur PROVE Follows(d)'
  <2>1. Begun(d) BY <1>1, <1>7, BegunFacts
  <2>2. d < cur BY <1>7, <2>1 DEF Begun
  <2>3. cur' = cur
    <3>1. CASE BeginStage BY <3>1, BeginFacts
    <3>2. CASE Handler BY <3>2 DEF Handler, Stepped, Rest
    <3> QED BY <1>7, <3>1, <3>2
  <2>4. log'[d] = log[d] BY <1>7, OtherFacts
  <2>5. Own(d)' = Own(d) /\ Expected(d)' = Expected(d) BY <1>2, <2>2, <2>4, OwnFacts, ExpectedKept
  <2> QED BY <2>1, <2>2, <2>3, <2>5, <1>7 DEF OrderInv, Follows, Left
<1>8. ASSUME NEW d \in Node, Begun(d)', ~(d = cur' /\ phase' = "failed") PROVE Follows(d)'
  <2>1. CASE (BeginStage \/ Handler) /\ d = cur BY <1>4, <1>5, <2>1
  <2> QED BY <1>1, <1>6, <1>7, <1>8, <2>1
<1>9. ASSUME NEW d \in Node, d = cur', phase' = "triggers"
      PROVE  \A j \in 1 .. Len(todo') : todo'[j] = (Expected(d)')[Len(Own(d)') + j]
  <2>1. ~Finish /\ ~Moves BY <1>9, FinishFacts, MoveFacts
  <2>2. cur' = cur
    <3>1. CASE BeginStage BY <3>1, BeginFacts
    <3>2. CASE Handler BY <3>2 DEF Handler, Stepped, Rest
    <3> QED BY <1>1, <2>1, <3>1, <3>2
  <2> QED BY <1>1, <1>4, <1>5, <1>9, <2>1, <2>2
<1> QED BY <1>2, <1>8, <1>9 DEF OrderInv

\* What has been run is asked for, instruction after instruction.
LEMMA PathsStep ==
    ASSUME TypeInv, FreshInv, LogInv, TodoInv, OrderInv, PathsInv, Next
    PROVE  PathsInv'
<1>1. UNCHANGED <<plan, target, fileOp>> /\ (BeginStage \/ Handler \/ Moves \/ Finish) BY NextCases
<1>2. Node' = Node /\ \A d : Reachable(d)' <=> Reachable(d) BY <1>1, ConstFacts
<1>3. cur \in Nat /\ \A d \in Node : d \in Nat BY PlanFacts
<1>4. \A d \in Node : Own(d) \in Seq(Things) /\ Len(Own(d)) \in Nat BY OwnFacts
<1>5. ctxPaths \subseteq ctxPaths'
  <2>1. CASE BeginStage BY <2>1, BeginFacts
  <2>2. CASE Handler BY <2>2 DEF Handler, Stepped, Rest
  <2>3. CASE Moves BY <2>3, MoveFacts
  <2>4. CASE Finish BY <2>4, FinishFacts
  <2> QED BY <1>1, <2>1, <2>2, <2>3, <2>4
<1>6. ASSUME NEW d \in Node, Reachable(d), d < cur', NEW i \in 1 .. Len(Expected(d)')
      PROVE  PathsOf((Expected(d)')[i]) \subseteq ctxPaths'
  <2>1. CASE d < cur
    <3>1. Expected(d)' = Expected(d) BY <1>3, <2>1, ExpectedKept
    <3> QED BY <1>5, <1>6, <2>1, <3>1 DEF PathsInv
  <2>2. CASE ~(d < cur)
    <3>1. cur' # cur BY <1>6, <2>2
    <3>2. Moves
      <4>1. ~BeginStage /\ ~Finish BY <3>1, BeginFacts, FinishFacts
      <4>2. ~Handler BY <3>1 DEF Handler, Stepped, Rest
      <4> QED BY <1>1, <4>1, <4>2
    <3>3. cur' = cur + 1 BY <3>1, <3>2, MoveFacts
    <3>4. d = cur BY <1>3, <1>6, <2>2, <3>3
    <3>5. phase = "commands" /\ todo = <<>> /\ ctxPaths' = ctxPaths \cup S.ctxPaths
      BY <1>6, <3>1, <3>2, <3>4, MoveFacts
    <3>6. Expected(d)' = Expected(d) BY <1>3, <3>4, ExpectedKept
    <3>7. Len(Own(d)) = Len(Expected(d))
      <4>1. Begun(d) BY <1>6, <3>4, <3>5 DEF Begun
      <4>2. Follows(d) BY <3>5, <4>1 DEF OrderInv
      <4>3. Left(d) = Len(todo) BY <2>2, <3>5 DEF Left
      <4>4. Left(d) = 0 BY <3>5, <4>3
      <4> QED BY <1>4, <4>2, <4>4 DEF Follows
    <3>8. PathsOf(Expected(d)[i]) \subseteq S.ctxPaths BY <1>6, <3>4, <3>5, <3>6, <3>7 DEF PathsInv
    <3> QED BY <3>5, <3>6, <3>8
  <2> QED BY <2>1, <2>2
<1>7. ASSUME phase' \in {"triggers", "commands"}, NEW i \in 1 .. Len(Own(cur)')
      PROVE  PathsOf((Expected(cur)')[i]) \subseteq S'.ctxPaths
  <2>1. CASE BeginStage
    <3>1. Own(cur)' = <<>> BY <2>1, OwnFacts
    <3>2. Len(Own(cur)') = 0 BY <3>1
    <3> QED BY <1>7, <3>2
  <2>2. CASE Handler
    <3>1. Running /\ cur \in Node BY <2>2, HandlerFacts
    <3>2. PICK e \in Entries : /\ e.stage = cur /\ Core(ds'[cur], e) /\ Rest(ds'[cur], e)
                               /\ log'[cur] = Append(log[cur], e) /\ e \in Things
      BY <2>2, HandlerFacts
    <3>3. cur' = cur /\ phase' = phase BY <3>2 DEF Rest
    <3>4. Own(cur)' = Append(Own(cur), e) BY <3>1, <3>2, <3>3, OwnFacts
    <3>5. Instr = Expected(cur)[Len(Own(cur)) + 1] BY <1>4, <3>1, NextExpected
    <3>6. Expected(cur)' = Expected(cur) BY <1>3, <3>1, <3>3, ExpectedKept
    <3> DEFINE n == Len(Own(cur))
    <3>7. n \in Nat /\ Len(Append(Own(cur), e)) = n + 1 BY <1>4, <3>1, <3>2, AppendFacts
    <3>8. i \in 1 .. n \/ i = n + 1 BY <1>7, <3>4, <3>7
    <3>9. S.ctxPaths \cup PathsOf(Instr) \subseteq S'.ctxPaths BY <3>2, <3>3 DEF Core, S
    <3>10. \A j \in 1 .. n : PathsOf(Expected(cur)[j]) \subseteq S.ctxPaths BY <1>7, <3>3 DEF PathsInv
    <3> QED BY <3>5, <3>6, <3>8, <3>9, <3>10
  <2>3. CASE Moves
    <3>1. phase = "triggers" /\ cur' = cur /\ cur \in Node /\ log' = log BY <1>7, <2>3, MoveFacts
    <3>2. S'.ctxPaths = S.ctxPaths BY <2>3, <3>1, KeptFacts DEF S
    <3>3. Own(cur)' = Own(cur) BY <3>1 DEF Own, Which
    <3>4. Expected(cur)' = Expected(cur) BY <1>3, <3>1, ExpectedKept
    <3> QED BY <1>7, <3>1, <3>2, <3>3, <3>4 DEF PathsInv
  <2>4. CASE Finish BY <1>7, <2>4, FinishFacts
  <2> QED BY <1>1, <2>1, <2>2, <2>3, <2>4
<1> QED BY <1>2, <1>6, <1>7 DEF PathsInv

-----------------------------------------------------------------------------
(* The memory behind the histories.                                        *)
LEMMA FreshFacts ==
    ASSUME TypeInv, FreshInv, NEW d \in Node, ~Begun(d)
    PROVE  /\ ds[d].hist.arr = d
           /\ \A f \in MapFields : ds[d].maps[f] \in {0, d} /\ (plan[d].kind = "stage" => ds[d].maps[f] = 0)
<1>1. ds[d] = Resolved(d) BY DEF FreshInv
<1>2. ds[d].hist.arr = d BY <1>1 DEF Resolved
<1>3. \A f \in MapFields : ds[d].maps[f] = IF KeysOf(plan[d].upstream, f) = {} THEN 0 ELSE d BY <1>1 DEF Resolved
<1>4. ASSUME plan[d].kind = "stage", NEW f PROVE KeysOf(plan[d].upstream, f) = {}
  <2>1. plan[d].upstream = <<>> BY <1>4, PlanFacts
  <2>2. Which(<<>>, LAMBDA c : c.op = f) = {} BY DEF Which
  <2> QED BY <2>1, <2>2 DEF KeysOf
<1> QED BY <1>2, <1>3, <1>4

LEMMA LaterFresh ==
    ASSUME TypeInv, NEW d \in Node, d > cur
    PROVE  ~Begun(d)
BY PlanFacts DEF Begun

LEMMA ArrayStep ==
    ASSUME TypeInv, ArrayInv, Next
    PROVE  ArrayInv'
<1>1. UNCHANGED <<plan, target, fileOp>> /\ (BeginStage \/ Handler \/ Moves \/ Finish) BY NextCases
<1>2. Node' = Node /\ Len(plan) \in Nat /\ \A d \in Node : d \in Nat BY <1>1, ConstFacts, PlanFacts
<1>3. CASE BeginStage
  <2>1. PICK s : Begins(s) /\ ds' = [ds EXCEPT ![cur] = s] BY <1>3, BeginFacts
  <2>2. cur \in Node /\ Source \in Node /\ Source <= cur /\ arrays' = arrays BY <1>3, BeginFacts
  <2>3. s.hist.arr \in 1 .. Source \/ s.hist.arr > Len(plan) BY <2>1, <2>2 DEF Begins, ArrayInv
  <2>4. s.hist.arr \in 1 .. cur \/ s.hist.arr > Len(plan) BY <1>2, <2>2, <2>3
  <2> QED BY <1>1, <1>2, <2>1, <2>2, <2>4 DEF ArrayInv, TypeInv
<1>4. CASE Handler
  <2>1. PICK e \in Things : Memory(ds'[cur], e) /\ cur \in Node BY <1>4, HandlerFacts
  <2>2. \A d \in Node : d # cur => ds'[d] = ds[d] BY <1>4, OtherFacts
  <2>3. CASE e.op = "OnBuild" BY <1>1, <1>2, <2>1, <2>2, <2>3 DEF Memory, ArrayInv, S
  <2>4. CASE e.op # "OnBuild"
    <3>1. Appended(S.hist, e, ds'[cur].hist, arrays') BY <2>1, <2>4, HistFacts
    <3>2. Len(arrays') >= Len(arrays) /\ (ds'[cur].hist.arr = S.hist.arr \/ ds'[cur].hist.arr = Len(arrays) + 1)
          /\ arrays' \in Seq(Seq(Slots))
      BY <3>1 DEF Appended
    <3>3. Len(arrays) \in Nat /\ Len(arrays') \in Nat BY <3>2 DEF TypeInv
    <3>4. S.hist.arr \in 1 .. cur \/ S.hist.arr > Len(plan) BY <2>1 DEF ArrayInv, S
    <3>5. ds'[cur].hist.arr \in 1 .. cur \/ ds'[cur].hist.arr > Len(plan)
      BY <1>2, <3>2, <3>3, <3>4 DEF ArrayInv
    <3>6. Len(arrays') >= Len(plan) BY <1>2, <3>2, <3>3 DEF ArrayInv
    <3> QED BY <1>1, <1>2, <2>2, <3>5, <3>6 DEF ArrayInv
  <2> QED BY <2>3, <2>4
<1>5. CASE Moves \/ Finish
  <2>1. arrays' = arrays BY <1>5, MoveFacts, FinishFacts
  <2>2. \A d \in Node : ds'[d].hist = ds[d].hist BY <1>5, KeptFacts
  <2> QED BY <1>1, <1>2, <2>1, <2>2 DEF ArrayInv
<1> QED BY <1>1, <1>3, <1>4, <1>5

LEMMA BeginSlices ==
    ASSUME TypeInv, FreshInv, ArrayInv, SliceInv, NoSiblings, BeginStage, UNCHANGED <<plan, target, fileOp>>
    PROVE  SliceInv'
<1>1. cur \in Node /\ Source \in Node /\ Source <= cur /\ (plan[cur].kind = "stage" <=> Source # cur)
      /\ arrays' = arrays /\ log' = [log EXCEPT ![cur] = log[Source]]
  BY BeginFacts
<1>2. PICK s : Begins(s) /\ ds' = [ds EXCEPT ![cur] = s] BY BeginFacts
<1>3. ds'[cur].hist = ds[Source].hist /\ log'[cur] = log[Source] BY <1>1, <1>2 DEF Begins, TypeInv
<1>4. \A d \in Node : d # cur => ds'[d] = ds[d] /\ log'[d] = log[d] BY OtherFacts
<1>5. Node' = Node /\ Node = 1 .. Len(plan) /\ Len(plan) \in Nat /\ \A d \in Node : d \in Nat BY ConstFacts, PlanFacts
<1>6. \A d \in Node : Content(ds'[d].hist, arrays') = HistoryOf(log'[d])
  <2> TAKE d \in Node
  <2>1. \A x \in Node : Content(ds[x].hist, arrays) = HistoryOf(log[x]) BY DEF SliceInv
  <2>2. PICK x \in Node : ds'[d].hist = ds[x].hist /\ log'[d] = log[x] BY <1>1, <1>3, <1>4
  <2> QED BY <1>1, <2>1, <2>2
<1>7. ASSUME NEW d \in Node, NEW e \in Node, d < e, ds'[d].hist.arr = ds'[e].hist.arr
      PROVE  ds'[d].hist.len <= ds'[e].hist.len /\ \E c \in d + 1 .. e : Child(d, c)
  <2>1. \A x, y \in Node : x < y /\ ds[x].hist.arr = ds[y].hist.arr =>
             ds[x].hist.len <= ds[y].hist.len /\ \E c \in x + 1 .. y : Child(x, c)
    BY DEF SliceInv
  <2>2. CASE d # cur /\ e # cur BY <1>4, <1>7, <2>1, <2>2
  <2>3. CASE e = cur
    <3>1. d # cur /\ ds'[d] = ds[d] /\ ds[d].hist.arr = ds[Source].hist.arr BY <1>3, <1>4, <1>5, <1>7, <2>3
    <3>2. ds'[e].hist.len = ds[Source].hist.len BY <1>3, <2>3
    <3>3. CASE d = Source
      <4>1. Child(d, cur) BY <3>1, <3>3, <1>1 DEF Child, Source
      <4>2. cur \in d + 1 .. e BY <1>5, <1>7, <2>3
      <4>3. ds[d].hist.len \in Nat BY DEF TypeInv, StateType, Slices
      <4> QED BY <3>1, <3>2, <3>3, <4>1, <4>2, <4>3
    <3>4. CASE d < Source
      <4>1. ds[d].hist.len <= ds[Source].hist.len /\ \E c \in d + 1 .. Source : Child(d, c) BY <1>1, <2>1, <3>1, <3>4
      <4>2. d + 1 .. Source \subseteq d + 1 .. e BY <1>1, <1>5, <2>3
      <4> QED BY <3>1, <3>2, <4>1, <4>2
    <3>5. CASE d > Source
      <4>1. PICK c \in Source + 1 .. d : Child(Source, c) BY <1>1, <1>5, <2>1, <3>1, <3>5
      <4>2. Child(Source, cur) BY <1>1, <1>5, <1>7, <2>3, <3>5 DEF Child, Source
      <4>3. c \in Node /\ c # cur BY <1>1, <1>5, <1>7, <2>3, <4>1
      <4> QED BY <1>1, <4>1, <4>2, <4>3 DEF NoSiblings
    <3> QED BY <1>1, <1>5, <3>3, <3>4, <3>5
  <2>4. CASE d = cur
    <3>1. e > cur /\ e # cur BY <1>5, <1>7, <2>4
    <3>2. ds'[e] = ds[e] /\ ds[e].hist.arr = e BY <1>4, <3>1, LaterFresh, FreshFacts
    <3>3. ds'[d].hist.arr \in 1 .. Source \/ ds'[d].hist.arr > Len(plan) BY <1>1, <1>3, <2>4 DEF ArrayInv
    <3> QED BY <1>1, <1>5, <1>7, <2>4, <3>2, <3>3
  <2> QED BY <2>2, <2>3, <2>4
<1>8. \A d, e : Child(d, e)' <=> Child(d, e) BY ConstFacts
<1> QED BY <1>5, <1>6, <1>7, <1>8 DEF SliceInv

\* what a commit appends is seen by the stage it is for alone
LEMMA HandlerSlices ==
    ASSUME TypeInv, FreshInv, ArrayInv, SliceInv, Handler, UNCHANGED <<plan, target, fileOp>>
    PROVE  SliceInv'
<1>1. PICK e \in Entries : Memory(ds'[cur], e) /\ e \in Things /\ cur \in Node /\ log'[cur] = Append(log[cur], e)
  BY HandlerFacts
<1>2. cur \in Node /\ \A d \in Node : d # cur => ds'[d] = ds[d] /\ log'[d] = log[d] BY <1>1, OtherFacts
<1>3. Node' = Node /\ Node = 1 .. Len(plan) /\ Len(plan) \in Nat /\ (\A d \in Node : d \in Nat)
      /\ \A d, x : Child(d, x)' <=> Child(d, x)
  BY ConstFacts, PlanFacts
<1>4. \A d \in Node : Content(ds[d].hist, arrays) = HistoryOf(log[d]) BY DEF SliceInv
<1>5. \A d, x \in Node : d < x /\ ds[d].hist.arr = ds[x].hist.arr =>
           ds[d].hist.len <= ds[x].hist.len /\ \E c \in d + 1 .. x : Child(d, c)
  BY DEF SliceInv
<1>6. log[cur] \in Seq(Things) BY <1>2 DEF TypeInv, Things
<1>7. HistoryOf(log[cur]) \in Seq(Things)
      /\ HistoryOf(log'[cur]) = IF e.op # "OnBuild" THEN Append(HistoryOf(log[cur]), e) ELSE HistoryOf(log[cur])
  BY <1>1, <1>6, HistoryAppend
<1>8. CASE e.op = "OnBuild"
  <2>1. ds'[cur].hist = ds[cur].hist /\ arrays' = arrays /\ HistoryOf(log'[cur]) = HistoryOf(log[cur])
    BY <1>1, <1>7, <1>8 DEF Memory, S
  <2>2. \A d \in Node : ds'[d].hist = ds[d].hist /\ HistoryOf(log'[d]) = HistoryOf(log[d]) BY <1>2, <2>1
  <2> QED BY <1>3, <1>4, <1>5, <2>1, <2>2 DEF SliceInv
<1>9. CASE e.op # "OnBuild"
  <2> DEFINE h == ds[cur].hist
             t == ds'[cur].hist
             n == Len(arrays)
  <2>1. Appended(h, e, t, arrays') BY <1>1, <1>9, HistFacts DEF S
  <2>2. /\ t.len = h.len + 1 /\ (t.arr = h.arr \/ t.arr = n + 1)
        /\ \A a \in 1 .. n : \A i \in 1 .. Len(arrays[a]) : ~(a = h.arr /\ i = h.len + 1) => arrays'[a][i] = arrays[a][i]
        /\ \A i \in 1 .. h.len : arrays'[t.arr][i] = arrays[h.arr][i]
        /\ arrays'[t.arr][h.len + 1] = e
    BY <2>1 DEF Appended
  <2>3. n \in Nat /\ n >= Len(plan) /\ \A a \in 1 .. n : Len(arrays[a]) \in Nat
    <3>1. arrays \in Seq(Seq(Slots)) BY DEF TypeInv
    <3>2. \A a \in 1 .. n : arrays[a] \in Seq(Slots) BY <3>1
    <3> QED BY <3>1, <3>2 DEF ArrayInv
  <2>4. \A d \in Node : ds[d].hist.arr \in 1 .. n /\ ds[d].hist.len \in Nat
                        /\ ds[d].hist.len <= Len(arrays[ds[d].hist.arr])
    BY DEF TypeInv, StateType, Slices
  <2>5. h.arr \in 1 .. cur \/ h.arr > Len(plan) BY <1>2 DEF ArrayInv
  <2>6. \A d \in Node : d > cur => ds[d].hist.arr = d BY LaterFresh, FreshFacts
  <2>7. h.len \in Nat /\ h.arr \in 1 .. n BY <1>2, <2>4
  <2> HIDE DEF h, t, n
  <2>8. Content(t, arrays') = HistoryOf(log'[cur])
    <3> DEFINE p == Content(h, arrays)
    <3>1. p = HistoryOf(log[cur]) BY <1>2, <1>4 DEF h
    <3>2. p \in Seq(Things) BY <1>7, <3>1
    <3>3. Len(p) = h.len /\ \A i \in 1 .. h.len : p[i] = arrays[h.arr][i] BY <2>7 DEF Content
    <3> HIDE DEF p
    <3>4. Append(p, e) = [i \in 1 .. h.len + 1 |-> IF i = h.len + 1 THEN e ELSE p[i]]
      <4> DEFINE l == Append(p, e)
                 m == h.len + 1
      <4>1. l \in Seq(Things) /\ Len(l) = m /\ (\A i \in 1 .. h.len : l[i] = p[i]) /\ l[m] = e
        BY <1>1, <3>2, <3>3, AppendFacts
      <4>2. \A i \in 1 .. m : i \in 1 .. h.len \/ i = m BY <2>7
      <4> HIDE DEF l
      <4>3. l = [i \in 1 .. m |-> l[i]]
        <5> HIDE DEF m
        <5> QED BY <4>1
      <4>4. \A i \in 1 .. m : l[i] = IF i = m THEN e ELSE p[i] BY <2>7, <4>1, <4>2
      <4>5. l = [i \in 1 .. m |-> IF i = m THEN e ELSE p[i]] BY <4>3, <4>4
      <4> QED BY <4>5 DEF l
    <3>5. Content(t, arrays') = [i \in 1 .. h.len + 1 |-> arrays'[t.arr][i]] BY <2>2 DEF Content
    <3>6. \A i \in 1 .. h.len + 1 : i \in 1 .. h.len \/ i = h.len + 1 BY <2>7
    <3>7. \A i \in 1 .. h.len + 1 : arrays'[t.arr][i] = IF i = h.len + 1 THEN e ELSE p[i]
      BY <2>2, <2>7, <3>3, <3>6
    <3>8. Content(t, arrays') = Append(p, e) BY <3>4, <3>5, <3>7
    <3> QED BY <1>7, <1>9, <3>1, <3>8
  <2>9. ASSUME NEW d \in Node, d # cur PROVE Content(ds'[d].hist, arrays') = HistoryOf(log'[d])
    <3> DEFINE a == ds[d].hist.arr
               k == ds[d].hist.len
    <3>1. ds'[d] = ds[d] /\ log'[d] = log[d] BY <1>2, <2>9
    <3>2. a \in 1 .. n /\ k \in Nat /\ k <= Len(arrays[a]) /\ Len(arrays[a]) \in Nat BY <2>3, <2>4
    <3>3. ASSUME NEW i \in 1 .. k PROVE arrays'[a][i] = arrays[a][i]
      <4>1. i \in 1 .. Len(arrays[a]) BY <3>2
      <4>2. ~(a = h.arr /\ i = h.len + 1)
        <5> SUFFICES ASSUME a = h.arr, i = h.len + 1 PROVE FALSE OBVIOUS
        <5>1. CASE d < cur
          <6>1. k <= h.len BY <1>2, <1>5, <5>1 DEF h
          <6> QED BY <2>7, <3>2, <6>1
        <5>2. CASE d > cur
          <6>1. a = d BY <2>6, <5>2
          <6> QED BY <1>2, <1>3, <2>5, <5>2, <6>1
        <5> QED BY <1>2, <1>3, <2>9, <5>1, <5>2
      <4> QED BY <2>2, <3>2, <4>1, <4>2
    <3>4. Content(ds[d].hist, arrays') = Content(ds[d].hist, arrays) BY <3>3 DEF Content
    <3> QED BY <1>4, <3>1, <3>4
  <2>10. ASSUME NEW d \in Node, NEW x \in Node, d < x, ds'[d].hist.arr = ds'[x].hist.arr
         PROVE  ds'[d].hist.len <= ds'[x].hist.len /\ \E c \in d + 1 .. x : Child(d, c)
    <3>1. CASE d # cur /\ x # cur BY <1>2, <1>5, <2>10, <3>1
    <3>2. CASE x = cur
      <4>1. ds'[d] = ds[d] /\ d # cur BY <1>2, <1>3, <2>10, <3>2
      <4>2. ds[d].hist.arr = t.arr /\ ds'[x].hist.len = h.len + 1 BY <2>2, <2>10, <3>2, <4>1 DEF t
      <4>3. ds[d].hist.arr = h.arr BY <2>2, <2>3, <2>4, <4>2
      <4>4. ds[d].hist.len <= h.len /\ \E c \in d + 1 .. x : Child(d, c) BY <1>5, <2>10, <3>2, <4>3 DEF h
      <4>5. ds[d].hist.len \in Nat BY <2>4
      <4> QED BY <2>7, <4>1, <4>2, <4>4, <4>5
    <3>3. CASE d = cur
      <4>1. x > cur /\ x # cur BY <1>3, <2>10, <3>3
      <4>2. ds'[x] = ds[x] /\ ds[x].hist.arr = x BY <1>2, <2>6, <4>1
      <4>3. t.arr = x BY <2>10, <3>3, <4>2 DEF t
      <4> QED BY <1>2, <1>3, <2>2, <2>3, <2>5, <4>1, <4>3
    <3> QED BY <3>1, <3>2, <3>3
  <2> QED BY <1>3, <2>8, <2>9, <2>10 DEF SliceInv, t
<1> QED BY <1>8, <1>9

LEMMA SliceStep ==
    ASSUME TypeInv, FreshInv, ArrayInv, NoSiblings => SliceInv, Next
    PROVE  (NoSiblings => SliceInv)'
<1>1. UNCHANGED <<plan, target, fileOp>> /\ (BeginStage \/ Handler \/ Moves \/ Finish) BY NextCases
<1>2. (NoSiblings' <=> NoSiblings) /\ Node' = Node /\ \A d, x : Child(d, x)' <=> Child(d, x) BY <1>1, ConstFacts
<1>3. ASSUME NoSiblings, Moves \/ Finish PROVE SliceInv'
  <2>1. arrays' = arrays BY <1>3, MoveFacts, FinishFacts
  <2>2. \A d \in Node : ds'[d].hist = ds[d].hist /\ log'[d] = log[d] BY <1>3, KeptFacts
  <2>3. SliceInv BY <1>3
  <2> QED BY <1>2, <2>1, <2>2, <2>3 DEF SliceInv
<1>4. ASSUME NoSiblings PROVE SliceInv' BY <1>1, <1>3, <1>4, BeginSlices, HandlerSlices
<1> QED BY <1>2, <1>4

-----------------------------------------------------------------------------
(* The maps.  A step adds keys to the map of one stage, which is the map   *)
(* of the first of its bases that made one, or a new one of its own.       *)
Kept == maps' = maps /\ \A d \in Node, f \in MapFields : ds'[d].maps[f] = ds[d].maps[f]
MapOwner(x, g) == IF ds[x].maps[g] = 0 THEN x ELSE ds[x].maps[g]
Joins(x, g, K) ==
    \A d \in Node, f \in MapFields :
        /\ ds'[d].maps[f] = IF d = x /\ f = g THEN MapOwner(x, g) ELSE ds[d].maps[f]
        /\ maps'[f][d] = IF f = g /\ d = MapOwner(x, g) THEN maps[f][d] \cup K ELSE maps[f][d]

LEMMA OwnerTypes ==
    ASSUME TypeInv
    PROVE  /\ \A d \in Node : d \in Nat /\ d > 0
           /\ \A d \in Node, f \in MapFields :
                /\ ds[d].maps[f] \in 0 .. d /\ (ds[d].maps[f] # 0 => ds[d].maps[f] \in Node)
                /\ MapOwner(d, f) \in Node /\ MapOwner(d, f) <= d
<1>1. Node = 1 .. Len(plan) /\ Len(plan) \in Nat BY PlanFacts
<1>2. \A d \in Node, f \in MapFields : ds[d].maps[f] \in 0 .. d BY DEF TypeInv, StateType
<1> QED BY <1>1, <1>2 DEF MapOwner

LEMMA MapCases ==
    ASSUME TypeInv
    PROVE  /\ Moves => Kept
           /\ Finish => IF OptLabels = {} THEN Kept ELSE Joins(target, "Labels", OptLabels)
           /\ Handler => \E e \in Things :
                /\ cur \in Node /\ log'[cur] = Append(log[cur], e)
                /\ IF e.op \in MapFields THEN Joins(cur, e.op, {e.key}) ELSE Kept
<1>1. DOMAIN maps = MapFields /\ (\A f \in MapFields : DOMAIN maps[f] = Node) /\ target \in Node BY DEF TypeInv
<1>2. Moves => Kept
  <2> SUFFICES ASSUME Moves PROVE Kept OBVIOUS
  <2>1. maps' = maps BY MoveFacts
  <2>2. \A d \in Node : ds'[d].maps = ds[d].maps BY KeptFacts
  <2> QED BY <2>1, <2>2 DEF Kept
<1>3. Finish => IF OptLabels = {} THEN Kept ELSE Joins(target, "Labels", OptLabels)
  <2> SUFFICES ASSUME Finish PROVE IF OptLabels = {} THEN Kept ELSE Joins(target, "Labels", OptLabels) OBVIOUS
  <2>1. ASSUME OptLabels = {} PROVE Kept BY <2>1, FinishFacts DEF Kept
  <2>2. ASSUME OptLabels # {} PROVE Joins(target, "Labels", OptLabels)
    <3> DEFINE o == MapOwner(target, "Labels")
    <3>1. maps' = [maps EXCEPT !["Labels"][o] = @ \cup OptLabels]
          /\ \A f \in MapFields : ds'[target].maps[f] = IF f = "Labels" THEN o ELSE ds[target].maps[f]
      BY <2>2, FinishFacts DEF MapOwner
    <3>2. \A d \in Node : d # target => ds'[d] = ds[d] BY FinishFacts
    <3>3. "Labels" \in MapFields BY DEF MapFields
    <3> HIDE DEF o
    <3>4. \A d \in Node, f \in MapFields :
             maps'[f][d] = IF f = "Labels" /\ d = o THEN maps[f][d] \cup OptLabels ELSE maps[f][d]
      BY <1>1, <3>1, <3>3
    <3>5. \A d \in Node, f \in MapFields :
             ds'[d].maps[f] = IF d = target /\ f = "Labels" THEN o ELSE ds[d].maps[f]
      BY <3>1, <3>2
    <3> QED BY <3>4, <3>5 DEF Joins, o
  <2> QED BY <2>1, <2>2
<1>4. ASSUME Handler
      PROVE  \E e \in Things :
                /\ cur \in Node /\ log'[cur] = Append(log[cur], e)
                /\ IF e.op \in MapFields THEN Joins(cur, e.op, {e.key}) ELSE Kept
  <2>1. PICK e \in Things : /\ cur \in Node /\ log'[cur] = Append(log[cur], e)
                            /\ Core(ds'[cur], e) /\ Rest(ds'[cur], e)
    BY <1>4, HandlerFacts
  <2>2. \A d \in Node : d # cur => ds'[d] = ds[d] BY <1>4, OtherFacts
  <2>3. \A f \in MapFields : ds'[cur].maps[f] = IF e.op = f THEN MapOwner(cur, f) ELSE ds[cur].maps[f]
    BY <2>1 DEF Core, Owner, MapOwner, S
  <2>4. ASSUME e.op \notin MapFields PROVE Kept
    <3>1. maps' = maps BY <2>1, <2>4 DEF Rest
    <3>2. \A f \in MapFields : e.op # f BY <2>4
    <3> QED BY <2>2, <2>3, <3>1, <3>2 DEF Kept
  <2>5. ASSUME e.op \in MapFields PROVE Joins(cur, e.op, {e.key})
    <3> DEFINE o == MapOwner(cur, e.op)
               g == e.op
    <3>1. maps' = [maps EXCEPT ![g][o] = @ \cup {e.key}] BY <2>1, <2>5 DEF Rest, Owner, MapOwner, S
    <3>2. g \in MapFields /\ \A f \in MapFields : ds'[cur].maps[f] = IF f = g THEN o ELSE ds[cur].maps[f]
      BY <2>3, <2>5
    <3> HIDE DEF o, g
    <3>3. \A d \in Node, f \in MapFields :
             maps'[f][d] = IF f = g /\ d = o THEN maps[f][d] \cup {e.key} ELSE maps[f][d]
      BY <1>1, <3>1, <3>2
    <3>4. \A d \in Node, f \in MapFields :
             ds'[d].maps[f] = IF d = cur /\ f = g THEN o ELSE ds[d].maps[f]
      BY <2>2, <3>2
    <3> QED BY <3>3, <3>4 DEF Joins, o, g
  <2> QED BY <2>1, <2>4, <2>5
<1> QED BY <1>2, <1>3, <1>4

LEMMA JoinsOwner ==
    ASSUME TypeInv, OwnerInv, NEW x \in Node, NEW g \in MapFields, NEW K, Joins(x, g, K), Node' = Node
    PROVE  OwnerInv'
<1> DEFINE o == MapOwner(x, g)
<1>1. \A d \in Node, f \in MapFields :
         /\ ds'[d].maps[f] = IF d = x /\ f = g THEN o ELSE ds[d].maps[f]
         /\ maps'[f][d] = IF f = g /\ d = o THEN maps[f][d] \cup K ELSE maps[f][d]
  BY DEF Joins
<1>2. \A d \in Node, f \in MapFields :
         /\ ds[d].maps[f] # 0 => ds[ds[d].maps[f]].maps[f] = ds[d].maps[f] /\ ds[d].maps[f] \in Node
         /\ maps[f][d] # {} => ds[d].maps[f] = d
         /\ d # 0
  BY OwnerTypes DEF OwnerInv
<1>3. o \in Node /\ o # 0 /\ o = IF ds[x].maps[g] = 0 THEN x ELSE ds[x].maps[g] BY <1>2, OwnerTypes DEF MapOwner
<1> HIDE DEF o
<1>4. ds'[o].maps[g] = o
  <2>1. CASE o = x BY <1>1, <2>1
  <2>2. CASE o # x
    <3>1. ds[x].maps[g] = o /\ ds[o].maps[g] = o BY <1>2, <1>3, <2>2
    <3> QED BY <1>1, <1>3, <2>2, <3>1
  <2> QED BY <2>1, <2>2
<1>5. ASSUME NEW d \in Node, NEW f \in MapFields, ds'[d].maps[f] # 0
      PROVE  ds'[ds'[d].maps[f]].maps[f] = ds'[d].maps[f]
  <2>1. CASE d = x /\ f = g BY <1>1, <1>4, <2>1
  <2>2. CASE ~(d = x /\ f = g)
    <3> DEFINE m == ds[d].maps[f]
    <3>0. ds'[d].maps[f] = m BY <1>1, <2>2
    <3>1. ds'[d].maps[f] = m /\ m # 0 /\ m \in Node /\ ds[m].maps[f] = m BY <1>2, <1>5, <3>0
    <3> HIDE DEF m
    <3>2. CASE m = x /\ f = g
      <4>1. o = x BY <1>2, <1>3, <3>1, <3>2
      <4> QED BY <1>4, <3>1, <3>2, <4>1
    <3>3. CASE ~(m = x /\ f = g) BY <1>1, <3>1, <3>3
    <3> QED BY <3>2, <3>3
  <2> QED BY <2>1, <2>2
<1>6. ASSUME NEW d \in Node, NEW f \in MapFields, maps'[f][d] # {}
      PROVE  ds'[d].maps[f] = d
  <2>1. CASE f = g /\ d = o BY <1>4, <2>1
  <2>2. CASE ~(f = g /\ d = o)
    <3>1. ds[d].maps[f] = d BY <1>1, <1>2, <1>6, <2>2
    <3>2. ~(d = x /\ f = g) BY <1>2, <1>3, <2>2, <3>1
    <3> QED BY <1>1, <3>1, <3>2
  <2> QED BY <2>1, <2>2
<1> QED BY <1>5, <1>6 DEF OwnerInv

LEMMA OwnerStep ==
    ASSUME TypeInv, FreshInv, OwnerInv, Next
    PROVE  OwnerInv'
<1>1. UNCHANGED <<plan, target, fileOp>> /\ (BeginStage \/ Handler \/ Moves \/ Finish) BY NextCases
<1>2. Node' = Node /\ target \in Node BY <1>1, ConstFacts DEF TypeInv
<1>3. ASSUME Kept PROVE OwnerInv'
  <2>1. \A d \in Node, f \in MapFields :
           /\ ds[d].maps[f] # 0 => ds[ds[d].maps[f]].maps[f] = ds[d].maps[f] /\ ds[d].maps[f] \in Node
           /\ maps[f][d] # {} => ds[d].maps[f] = d
    BY OwnerTypes DEF OwnerInv
  <2> QED BY <1>2, <1>3, <2>1 DEF OwnerInv, Kept
<1>4. CASE BeginStage
  <2>1. cur \in Node /\ Source \in Node /\ (plan[cur].kind = "stage" <=> Source # cur) /\ maps' = maps /\ phase = "stage"
    BY <1>4, BeginFacts
  <2>2. PICK s : Begins(s) /\ ds' = [ds EXCEPT ![cur] = s] BY <1>4, BeginFacts
  <2>3. \A f \in MapFields : ds'[cur].maps[f] = ds[Source].maps[f] BY <2>1, <2>2 DEF Begins, TypeInv
  <2>4. \A d \in Node : d # cur => ds'[d] = ds[d] BY <1>4, OtherFacts
  <2>5. ~Begun(cur) BY <2>1, PlanFacts DEF Begun
  <2>6. CASE Source = cur
    <3>1. Kept BY <2>1, <2>3, <2>4, <2>6 DEF Kept
    <3> QED BY <1>3, <3>1
  <2>7. CASE Source # cur
    <3>1. \A f \in MapFields : ds[cur].maps[f] = 0 BY <2>1, <2>5, <2>7, FreshFacts
    <3>2. \A d \in Node, f \in MapFields :
             /\ ds[d].maps[f] # 0 => ds[ds[d].maps[f]].maps[f] = ds[d].maps[f] /\ ds[d].maps[f] \in Node
             /\ maps[f][d] # {} => ds[d].maps[f] = d
             /\ d # 0
      BY OwnerTypes DEF OwnerInv
    <3>3. ASSUME NEW d \in Node, NEW f \in MapFields, ds'[d].maps[f] # 0
          PROVE  ds'[ds'[d].maps[f]].maps[f] = ds'[d].maps[f]
      <4>1. PICK b \in Node : ds'[d].maps[f] = ds[b].maps[f] BY <2>1, <2>3, <2>4
      <4> DEFINE m == ds[b].maps[f]
      <4>2. m # 0 /\ m \in Node /\ ds[m].maps[f] = m BY <3>2, <3>3, <4>1
      <4> HIDE DEF m
      <4>3. m # cur BY <3>1, <4>2
      <4>4. ds'[m].maps[f] = m BY <2>4, <4>2, <4>3
      <4> QED BY <4>1, <4>4 DEF m
    <3>4. ASSUME NEW d \in Node, NEW f \in MapFields, maps'[f][d] # {} PROVE ds'[d].maps[f] = d
      <4>1. ds[d].maps[f] = d /\ d # 0 BY <2>1, <3>2, <3>4
      <4>2. d # cur BY <3>1, <4>1
      <4> QED BY <2>4, <4>1, <4>2
    <3> QED BY <1>2, <3>3, <3>4 DEF OwnerInv
  <2> QED BY <2>6, <2>7
<1>5. CASE Handler
  <2>1. PICK e \in Things : cur \in Node /\ IF e.op \in MapFields THEN Joins(cur, e.op, {e.key}) ELSE Kept
    BY <1>5, MapCases
  <2> QED BY <1>2, <1>3, <2>1, JoinsOwner
<1>6. CASE Moves BY <1>3, <1>6, MapCases
<1>7. CASE Finish
  <2>1. "Labels" \in MapFields BY DEF MapFields
  <2>2. IF OptLabels = {} THEN Kept ELSE Joins(target, "Labels", OptLabels) BY <1>7, MapCases
  <2> QED BY <1>2, <1>3, <2>1, <2>2, JoinsOwner
<1> QED BY <1>1, <1>4, <1>5, <1>6, <1>7

(* Without siblings, the stages that share a map are one behind the other  *)
(* in a row of bases, and the last of them has the keys it should have.    *)
Sharing ==
    \A f \in MapFields : \A d, e \in Node : d < e /\ ds[d].maps[f] = ds[e].maps[f] /\ ds[d].maps[f] # 0 =>
        \E c \in d + 1 .. e : Child(d, c) /\ Begun(c)
Parent(d) == \E c \in Node : Child(d, c) /\ Begun(c)
Scoped ==
    \A f \in MapFields : \A d \in Node : (phase = "done" => d = target) /\ ~Parent(d) => Keys(d, f) = Given(d, f)

LEMMA MapParts == MapInv <=> Scoped /\ Sharing
BY DEF MapInv, Scoped, Sharing, Parent

LEMMA JoinsShare ==
    ASSUME TypeInv, OwnerInv, Sharing, NEW x \in Node, NEW g \in MapFields, NEW K, Joins(x, g, K),
           UNCHANGED <<plan, target, fileOp>>, \A d \in Node : Begun(d)' <=> Begun(d)
    PROVE  Sharing'
<1>1. Node' = Node /\ \A d, e : Child(d, e)' <=> Child(d, e) BY ConstFacts
<1>2. Node = 1 .. Len(plan) /\ Len(plan) \in Nat BY PlanFacts
<1>3. ASSUME NEW f \in MapFields, NEW d \in Node, NEW e \in Node, d < e,
             ds'[d].maps[f] = ds'[e].maps[f], ds'[d].maps[f] # 0
      PROVE  ds[d].maps[f] = ds[e].maps[f] /\ ds[d].maps[f] # 0
  <2>1. \A b \in Node : ds'[b].maps[f] = IF b = x /\ f = g THEN MapOwner(x, g) ELSE ds[b].maps[f] BY DEF Joins
  <2>2. CASE f # g \/ ds[x].maps[g] # 0
    <3>1. \A b \in Node : ds'[b].maps[f] = ds[b].maps[f] BY <2>1, <2>2 DEF MapOwner
    <3> QED BY <1>3, <3>1
  <2>3. CASE f = g /\ ds[x].maps[g] = 0
    <3>1. \A b \in Node : ds'[b].maps[f] = IF b = x THEN x ELSE ds[b].maps[f] BY <2>1, <2>3 DEF MapOwner
    <3>2. x # 0 /\ \A b \in Node : ds[b].maps[f] # x
      <4>1. ASSUME NEW b \in Node, ds[b].maps[f] = x PROVE FALSE
        <5>1. x # 0 BY OwnerTypes
        <5>2. ds[x].maps[f] = x BY <4>1, <5>1 DEF OwnerInv
        <5> QED BY <2>3, <5>1, <5>2
      <4> QED BY <4>1, OwnerTypes
    <3>3. d # x /\ e # x BY <1>2, <1>3, <3>1, <3>2
    <3> QED BY <1>3, <3>1, <3>3
  <2> QED BY <2>2, <2>3
<1>4. ASSUME NEW f \in MapFields, NEW d \in Node, NEW e \in Node, d < e,
             ds'[d].maps[f] = ds'[e].maps[f], ds'[d].maps[f] # 0
      PROVE  \E c \in d + 1 .. e : Child(d, c)' /\ Begun(c)'
  <2>1. ds[d].maps[f] = ds[e].maps[f] /\ ds[d].maps[f] # 0 BY <1>3, <1>4
  <2>2. PICK c \in d + 1 .. e : Child(d, c) /\ Begun(c) BY <1>4, <2>1 DEF Sharing
  <2>3. c \in Node BY <1>2
  <2> QED BY <1>1, <2>2, <2>3
<1> QED BY <1>1, <1>4 DEF Sharing

\* the map that is added to is that of x, as far as stages no other is based on go
LEMMA JoinsKeys ==
    ASSUME TypeInv, OwnerInv, Sharing, NEW x \in Node, NEW g \in MapFields, NEW K, Joins(x, g, K),
           NEW d \in Node, ~Parent(d), d > x => \A f \in MapFields : ds[d].maps[f] \in {0, d}, NEW f \in MapFields
    PROVE  Keys(d, f)' = IF d = x /\ f = g THEN Keys(d, f) \cup K ELSE Keys(d, f)
<1> DEFINE o == MapOwner(x, g)
           m == ds[d].maps[f]
<1>1. \A b \in Node : /\ ds'[b].maps[f] = IF b = x /\ f = g THEN o ELSE ds[b].maps[f]
                      /\ maps'[f][b] = IF f = g /\ b = o THEN maps[f][b] \cup K ELSE maps[f][b]
  BY DEF Joins
<1>2. o \in Node /\ o # 0 /\ o <= x /\ o = (IF ds[x].maps[g] = 0 THEN x ELSE ds[x].maps[g])
      /\ m \in 0 .. d /\ (m # 0 => m \in Node) /\ d \in Nat /\ x \in Nat
  BY OwnerTypes DEF MapOwner
<1> HIDE DEF o
<1>3. CASE d = x /\ f = g
  <2>1. ds'[d].maps[f] = o /\ maps'[f][o] = maps[f][o] \cup K BY <1>1, <1>2, <1>3
  <2>2. Keys(d, f)' = maps[f][o] \cup K BY <1>2, <2>1 DEF Keys
  <2>3. CASE m = 0
    <3>1. o = x BY <1>2, <1>3, <2>3
    <3>2. maps[f][x] = {} BY <1>2, <1>3, <2>3 DEF OwnerInv
    <3>3. Keys(d, f) = {} BY <2>3 DEF Keys
    <3> QED BY <1>3, <2>2, <3>1, <3>2, <3>3
  <2>4. CASE m # 0
    <3>1. o = m BY <1>2, <1>3, <2>4
    <3>2. Keys(d, f) = maps[f][m] BY <2>4 DEF Keys
    <3> QED BY <1>3, <2>2, <3>1, <3>2
  <2> QED BY <2>3, <2>4
<1>4. CASE ~(d = x /\ f = g)
  <2>1. ds'[d].maps[f] = m BY <1>1, <1>4
  <2>2. CASE m = 0 BY <1>4, <2>1, <2>2 DEF Keys
  <2>3. CASE m # 0
    <3>1. m \in Node BY <1>2, <2>3
    <3>2. ~(f = g /\ m = o)
      <4> SUFFICES ASSUME f = g, m = o PROVE FALSE OBVIOUS
      <4>1. d # x BY <1>4
      <4>2. CASE ds[x].maps[g] = 0
        <5>1. m = x BY <1>2, <4>2
        <5>2. ds[x].maps[f] = x BY <2>3, <5>1 DEF OwnerInv
        <5> QED BY <2>3, <4>2, <5>1, <5>2
      <4>3. CASE ds[x].maps[g] # 0
        <5>1. ds[x].maps[f] = m BY <1>2, <4>3
        <5>2. CASE d < x
          <6>1. PICK c \in d + 1 .. x : Child(d, c) /\ Begun(c) BY <2>3, <5>1, <5>2 DEF Sharing
          <6>2. c \in Node BY <1>2, PlanFacts
          <6> QED BY <6>1, <6>2 DEF Parent
        <5>3. CASE d > x
          <6>1. m = d BY <2>3, <5>3
          <6> QED BY <1>2, <5>3, <6>1
        <5> QED BY <1>2, <4>1, <5>2, <5>3
      <4> QED BY <4>2, <4>3
    <3>3. maps'[f][m] = maps[f][m] BY <1>1, <3>1, <3>2
    <3> HIDE DEF m
    <3>4. Keys(d, f)' = maps'[f][m] BY <2>1, <2>3 DEF Keys
    <3>5. Keys(d, f) = maps[f][m] BY <2>3 DEF Keys, m
    <3> QED BY <1>4, <3>3, <3>4, <3>5
  <2> QED BY <2>2, <2>3
<1> QED BY <1>3, <1>4

LEMMA ParentFacts ==
    ASSUME TypeInv, UNCHANGED <<plan, target, fileOp>>, \A d \in Node : Begun(d) => Begun(d)'
    PROVE  \A d \in Node : Parent(d) => Parent(d)'
<1>1. Node' = Node /\ \A d, e : Child(d, e)' <=> Child(d, e) BY ConstFacts
<1> QED BY <1>1 DEF Parent

LEMMA SharingStep ==
    ASSUME TypeInv, FreshInv, OwnerInv, Sharing, NoSiblings, Next
    PROVE  Sharing'
<1>1. UNCHANGED <<plan, target, fileOp>> /\ (BeginStage \/ Handler \/ Moves \/ Finish) BY NextCases
<1>2. Node' = Node /\ (\A d, e : Child(d, e)' <=> Child(d, e)) /\ target \in Node BY <1>1, ConstFacts DEF TypeInv
<1>3. Node = 1 .. Len(plan) /\ Len(plan) \in Nat /\ \A d \in Node : d \in Nat BY PlanFacts
<1>4. ASSUME NEW f \in MapFields, NEW d \in Node, NEW e \in Node, d < e,
             ds[d].maps[f] = ds[e].maps[f], ds[d].maps[f] # 0
      PROVE  \E c \in Node : d < c /\ c <= e /\ Child(d, c) /\ Begun(c)
  <2>1. PICK c \in d + 1 .. e : Child(d, c) /\ Begun(c) BY <1>4 DEF Sharing
  <2>2. c \in Node /\ d < c /\ c <= e BY <1>3
  <2> QED BY <2>1, <2>2
<1>5. ASSUME NEW f \in MapFields, NEW d \in Node, NEW e \in Node, d < e,
             ds'[d].maps[f] = ds'[e].maps[f], ds'[d].maps[f] # 0, BeginStage
      PROVE  \E c \in Node : d < c /\ c <= e /\ Child(d, c) /\ (Begun(c) \/ c = cur)
  <2>1. cur \in Node /\ Source \in Node /\ Source <= cur /\ (plan[cur].kind = "stage" <=> Source # cur)
        /\ phase = "stage"
    BY <1>5, BeginFacts
  <2>2. PICK s : Begins(s) /\ ds' = [ds EXCEPT ![cur] = s] BY <1>5, BeginFacts
  <2>3. ds'[cur].maps[f] = ds[Source].maps[f] BY <2>1, <2>2 DEF Begins, TypeInv
  <2>4. \A b \in Node : b # cur => ds'[b] = ds[b] BY <1>5, OtherFacts
  <2>5. CASE (d # cur /\ e # cur) \/ Source = cur
    <3>1. ds'[d].maps[f] = ds[d].maps[f] /\ ds'[e].maps[f] = ds[e].maps[f] BY <2>3, <2>4, <2>5
    <3> QED BY <1>4, <1>5, <3>1
  <2>6. CASE e = cur /\ Source # cur
    <3>1. d # cur /\ ds[d].maps[f] = ds[Source].maps[f] /\ ds[d].maps[f] # 0 BY <1>3, <1>5, <2>3, <2>4, <2>6
    <3>2. Child(Source, cur) BY <2>1, <2>6 DEF Child, Source
    <3>3. CASE d = Source
      <4>1. d < cur /\ cur <= e BY <1>3, <1>5, <2>6
      <4> QED BY <2>1, <3>2, <3>3, <4>1
    <3>4. CASE d < Source
      <4>1. PICK c \in Node : d < c /\ c <= Source /\ Child(d, c) /\ Begun(c) BY <1>4, <2>1, <3>1, <3>4
      <4>2. c <= e BY <1>3, <2>1, <2>6, <4>1
      <4> QED BY <4>1, <4>2
    <3>5. CASE d > Source
      <4>1. PICK c \in Node : c <= d /\ Child(Source, c) BY <1>4, <2>1, <3>1, <3>5
      <4>2. c # cur BY <1>3, <1>5, <2>1, <2>6, <4>1
      <4> QED BY <2>1, <3>2, <4>1, <4>2 DEF NoSiblings
    <3> QED BY <1>3, <2>1, <3>3, <3>4, <3>5
  <2>7. CASE d = cur /\ Source # cur
    <3>1. e > cur /\ e # cur BY <1>3, <1>5, <2>7
    <3>2. ds'[e] = ds[e] /\ ds[e].maps[f] \in {0, e} BY <2>4, <3>1, LaterFresh, FreshFacts
    <3>3. ds[Source].maps[f] \in 0 .. Source BY <2>1, OwnerTypes
    <3> QED BY <1>3, <1>5, <2>1, <2>3, <2>7, <3>1, <3>2, <3>3
  <2> QED BY <2>5, <2>6, <2>7
<1>6. ASSUME Kept, \A d \in Node : Begun(d)' <=> Begun(d) PROVE Sharing'
  <2>1. ASSUME NEW f \in MapFields, NEW d \in Node, NEW e \in Node, d < e,
               ds'[d].maps[f] = ds'[e].maps[f], ds'[d].maps[f] # 0
        PROVE  \E c \in d + 1 .. e : Child(d, c)' /\ Begun(c)'
    <3>1. ds[d].maps[f] = ds[e].maps[f] /\ ds[d].maps[f] # 0 BY <1>6, <2>1 DEF Kept
    <3>2. PICK c \in Node : d < c /\ c <= e /\ Child(d, c) /\ Begun(c) BY <1>4, <2>1, <3>1
    <3>3. c \in d + 1 .. e BY <1>3, <3>2
    <3> QED BY <1>2, <1>6, <3>2, <3>3
  <2> QED BY <1>2, <2>1 DEF Sharing
<1>7. CASE BeginStage
  <2>1. \A d \in Node : Begun(d)' <=> Begun(d) \/ d = cur BY <1>1, <1>7, BegunFacts
  <2>2. ASSUME NEW f \in MapFields, NEW d \in Node, NEW e \in Node, d < e,
               ds'[d].maps[f] = ds'[e].maps[f], ds'[d].maps[f] # 0
        PROVE  \E c \in d + 1 .. e : Child(d, c)' /\ Begun(c)'
    <3>1. PICK c \in Node : d < c /\ c <= e /\ Child(d, c) /\ (Begun(c) \/ c = cur) BY <1>5, <1>7, <2>2
    <3>2. c \in d + 1 .. e BY <1>3, <3>1
    <3> QED BY <1>2, <2>1, <3>1, <3>2
  <2> QED BY <1>2, <2>2 DEF Sharing
<1>8. CASE Handler \/ Moves \/ Finish
  <2>1. \A d \in Node : Begun(d)' <=> Begun(d) BY <1>1, <1>8, BegunFacts
  <2>2. CASE Handler
    <3>1. PICK e \in Things : cur \in Node /\ IF e.op \in MapFields THEN Joins(cur, e.op, {e.key}) ELSE Kept
      BY <2>2, MapCases
    <3> QED BY <1>1, <1>6, <2>1, <3>1, JoinsShare
  <2>3. CASE Moves BY <1>6, <2>1, <2>3, MapCases
  <2>4. CASE Finish
    <3>1. "Labels" \in MapFields BY DEF MapFields
    <3>2. IF OptLabels = {} THEN Kept ELSE Joins(target, "Labels", OptLabels) BY <2>4, MapCases
    <3> QED BY <1>1, <1>2, <1>6, <2>1, <3>1, <3>2, JoinsShare
  <2> QED BY <1>8, <2>2, <2>3, <2>4
<1> QED BY <1>1, <1>7, <1>8

LEMMA ScopedStep ==
    ASSUME TypeInv, FreshInv, OwnerInv, Sharing, Scoped, NoSiblings, Next
    PROVE  Scoped'
<1>1. UNCHANGED <<plan, target, fileOp>> /\ (BeginStage \/ Handler \/ Moves \/ Finish) BY NextCases
<1>2. Node' = Node /\ (\A d, e : Child(d, e)' <=> Child(d, e)) /\ target \in Node BY <1>1, ConstFacts DEF TypeInv
<1>3. Node = 1 .. Len(plan) /\ Len(plan) \in Nat /\ \A d \in Node : d \in Nat BY PlanFacts
<1>4. \A d \in Node : ~Parent(d)' => ~Parent(d)
  <2>1. \A d \in Node : Begun(d) => Begun(d)' BY <1>1, BegunFacts
  <2> QED BY <1>1, <2>1, ParentFacts
<1>5. CASE BeginStage
  <2>1. cur \in Node /\ Source \in Node /\ Source <= cur /\ (plan[cur].kind = "stage" <=> Source # cur)
        /\ phase = "stage" /\ phase' = "triggers" /\ maps' = maps /\ log' = [log EXCEPT ![cur] = log[Source]]
    BY <1>5, BeginFacts
  <2>2. PICK s : Begins(s) /\ ds' = [ds EXCEPT ![cur] = s] BY <1>5, BeginFacts
  <2>3. \A f \in MapFields : ds'[cur].maps[f] = ds[Source].maps[f] BY <2>1, <2>2 DEF Begins, TypeInv
  <2>4. log'[cur] = log[Source] BY <2>1 DEF TypeInv
  <2>5. \A d \in Node : d # cur => ds'[d] = ds[d] /\ log'[d] = log[d] BY <1>5, OtherFacts
  <2>6. ~Begun(cur) BY <1>3, <2>1 DEF Begun
  <2>7. ASSUME NEW f \in MapFields, NEW d \in Node, ~Parent(d)' PROVE Keys(d, f)' = KeysOf(log'[d], f)
    <3>1. PICK b \in Node : /\ ~Parent(b) /\ ds'[d].maps[f] = ds[b].maps[f] /\ log'[d] = log[b]
      <4>1. CASE d # cur \/ Source = cur BY <1>4, <2>3, <2>4, <2>5, <2>7, <4>1
      <4>2. CASE d = cur /\ Source # cur
        <5>1. Child(Source, cur) BY <2>1, <4>2 DEF Child, Source
        <5>2. ~Parent(Source) BY <2>1, <2>6, <5>1 DEF Parent, NoSiblings
        <5> QED BY <2>1, <2>3, <2>4, <4>2, <5>2
      <4> QED BY <4>1, <4>2
    <3>2. Keys(b, f) = Given(b, f) BY <2>1, <3>1 DEF Scoped
    <3>3. Given(b, f) = KeysOf(log[b], f) BY <2>1 DEF Given
    <3>4. Keys(d, f)' = Keys(b, f)
      <4> DEFINE m == ds[b].maps[f]
      <4>1. ds'[d].maps[f] = m BY <3>1
      <4>2. Keys(b, f) = IF m = 0 THEN {} ELSE maps[f][m] BY DEF Keys
      <4> HIDE DEF m
      <4> QED BY <2>1, <4>1, <4>2 DEF Keys
    <3> QED BY <3>1, <3>2, <3>3, <3>4
  <2>8. \A d, f : Given(d, f)' = KeysOf(log[d], f)' \cup {} BY <2>1 DEF Given
  <2>9. \A d, f : KeysOf(log[d], f)' = KeysOf(log'[d], f) BY DEF KeysOf, Which
  <2> QED BY <1>2, <2>7, <2>8, <2>9 DEF Scoped
<1>6. CASE Handler
  <2>1. PICK e \in Things : /\ cur \in Node /\ log'[cur] = Append(log[cur], e)
                            /\ IF e.op \in MapFields THEN Joins(cur, e.op, {e.key}) ELSE Kept
    BY <1>6, MapCases
  <2>2. \A d \in Node : d # cur => log'[d] = log[d] BY <1>6, OtherFacts
  <2>3. phase # "done" /\ phase' # "done" BY <1>6 DEF Handler, Running, Stepped, Rest
  <2>4. ASSUME NEW f \in MapFields, NEW d \in Node, ~Parent(d)' PROVE Keys(d, f)' = KeysOf(log'[d], f)
    <3>1. ~Parent(d) BY <1>4, <2>4
    <3>2. Keys(d, f) = KeysOf(log[d], f)
      <4>1. Keys(d, f) = Given(d, f) BY <2>3, <3>1 DEF Scoped
      <4> QED BY <2>3, <4>1 DEF Given
    <3>3. KeysOf(log'[d], f) = IF d = cur /\ e.op = f THEN KeysOf(log[d], f) \cup {e.key} ELSE KeysOf(log[d], f)
      <4>1. CASE d # cur BY <2>2, <4>1
      <4>2. CASE d = cur
        <5>1. log[d] \in Seq(Things) BY DEF TypeInv, Things
        <5>2. log'[d] = Append(log[d], e) BY <2>1, <4>2
        <5>3. KeysOf(Append(log[d], e), f) = IF e.op = f THEN KeysOf(log[d], f) \cup {e.key} ELSE KeysOf(log[d], f)
          BY <5>1, KeysAppend
        <5> QED BY <4>2, <5>2, <5>3
      <4> QED BY <4>1, <4>2
    <3>4. Keys(d, f)' = IF d = cur /\ e.op = f THEN Keys(d, f) \cup {e.key} ELSE Keys(d, f)
      <4>1. CASE e.op \notin MapFields
        <5>1. Kept /\ e.op # f BY <2>1, <4>1
        <5>2. Keys(d, f)' = Keys(d, f) BY <5>1 DEF Kept, Keys
        <5> QED BY <5>1, <5>2
      <4>2. CASE e.op \in MapFields
        <5>1. Joins(cur, e.op, {e.key}) BY <2>1, <4>2
        <5>2. d > cur => \A g \in MapFields : ds[d].maps[g] \in {0, d} BY LaterFresh, FreshFacts
        <5> DEFINE g == e.op
                   K == {e.key}
        <5>3. g \in MapFields /\ Joins(cur, g, K) BY <4>2, <5>1
        <5> HIDE DEF g, K
        <5>4. Keys(d, f)' = IF d = cur /\ f = g THEN Keys(d, f) \cup K ELSE Keys(d, f)
          <6>1. \A x \in Node : Joins(x, g, K) /\ (d > x => \A h \in MapFields : ds[d].maps[h] \in {0, d}) =>
                   Keys(d, f)' = IF d = x /\ f = g THEN Keys(d, f) \cup K ELSE Keys(d, f)
            BY <3>1, <5>3, JoinsKeys
          <6> QED BY <2>1, <5>2, <5>3, <6>1
        <5> QED BY <5>4 DEF g, K
      <4> QED BY <4>1, <4>2
    <3> QED BY <3>2, <3>3, <3>4
  <2>5. \A d, f : Given(d, f)' = KeysOf(log[d], f)' \cup {} BY <2>3 DEF Given
  <2>6. \A d, f : KeysOf(log[d], f)' = KeysOf(log'[d], f) BY DEF KeysOf, Which
  <2> QED BY <1>2, <2>4, <2>5, <2>6 DEF Scoped
<1>7. CASE Moves
  <2>1. Kept /\ log' = log BY <1>7, MapCases, MoveFacts
  <2>2. phase # "done" /\ phase' # "done" BY <1>7, MoveFacts
  <2>3. \A d \in Node, f \in MapFields : Keys(d, f)' = Keys(d, f) BY <2>1 DEF Kept, Keys
  <2>4. \A d \in Node, f \in MapFields : Given(d, f)' = Given(d, f)
    <3>1. \A d, f : KeysOf(log[d], f)' = KeysOf(log[d], f) BY <2>1 DEF KeysOf, Which
    <3> QED BY <2>2, <3>1 DEF Given
  <2> QED BY <1>2, <1>4, <2>2, <2>3, <2>4 DEF Scoped
<1>8. CASE Finish
  <2>1. phase = "stage" /\ phase' = "done" /\ log' = log /\ cur = Len(plan) + 1 BY <1>8, FinishFacts
  <2>2. "Labels" \in MapFields BY DEF MapFields
  <2>3. IF OptLabels = {} THEN Kept ELSE Joins(target, "Labels", OptLabels) BY <1>8, MapCases
  <2>4. ASSUME NEW f \in MapFields, ~Parent(target)' PROVE Keys(target, f)' = Given(target, f)'
    <3>1. ~Parent(target) BY <1>1, <1>2, <1>4, <2>4 DEF Parent, Child
    <3>2. Keys(target, f) = KeysOf(log[target], f)
      <4>1. Keys(target, f) = Given(target, f) BY <1>2, <2>1, <3>1 DEF Scoped
      <4> QED BY <2>1, <4>1 DEF Given
    <3>3. KeysOf(log[target], f)' = KeysOf(log[target], f) BY <1>1, <2>1 DEF KeysOf, Which
    <3>4. Given(target, f)' = KeysOf(log[target], f) \cup (IF f = "Labels" THEN OptLabels ELSE {})
      BY <1>1, <2>1, <3>3 DEF Given
    <3>5. CASE OptLabels = {}
      <4>1. Kept BY <2>3, <3>5
      <4>2. Keys(target, f)' = Keys(target, f) BY <1>1, <1>2, <4>1 DEF Kept, Keys
      <4> QED BY <3>2, <3>4, <3>5, <4>2
    <3>6. CASE OptLabels # {}
      <4>1. Joins(target, "Labels", OptLabels) BY <2>3, <3>6
      <4>2. Keys(target, f)' = IF f = "Labels" THEN Keys(target, f) \cup OptLabels ELSE Keys(target, f)
        <5>1. \A x \in Node : x = target => Keys(x, f)' = Keys(target, f)' BY <1>1
        <5>2. ~(target > target) BY <1>2, <1>3
        <5>3. \A x \in Node : Joins(x, "Labels", OptLabels) /\ ~Parent(x) /\ ~(x > x) =>
                 Keys(x, f)' = IF x = x /\ f = "Labels" THEN Keys(x, f) \cup OptLabels ELSE Keys(x, f)
          BY <2>2, JoinsKeys
        <5> QED BY <1>2, <3>1, <4>1, <5>1, <5>2, <5>3
      <4> QED BY <3>2, <3>4, <4>2
    <3> QED BY <3>5, <3>6
  <2> QED BY <1>1, <1>2, <2>1, <2>4 DEF Scoped
<1> QED BY <1>1, <1>5, <1>6, <1>7, <1>8

LEMMA MapStep ==
    ASSUME TypeInv, FreshInv, OwnerInv, NoSiblings => MapInv, Next
    PROVE  (NoSiblings => MapInv)'
<1>1. NoSiblings' <=> NoSiblings BY NextCases, ConstFacts
<1>2. ASSUME NoSiblings PROVE MapInv'
  <2>1. Scoped /\ Sharing BY <1>2, MapParts
  <2>2. Scoped' /\ Sharing' BY <1>2, <2>1, ScopedStep, SharingStep
  <2> QED BY <2>2 DEF MapInv, Scoped, Sharing, Parent
<1> QED BY <1>1, <1>2

-----------------------------------------------------------------------------
(* The invariant is inductive.                                             *)
LEMMA IInvInit == Init => IInv
<1> SUFFICES ASSUME Init PROVE IInv OBVIOUS
<1>1. TypeInv BY TypeInit
<1>2. /\ cur = 1 /\ phase = "stage" /\ reads = {}
      /\ ds = [d \in Node |-> Resolved(d)] /\ log = [d \in Node |-> plan[d].upstream]
      /\ maps = [f \in MapFields |-> [d \in Node |-> KeysOf(plan[d].upstream, f)]]
  BY DEF Init
<1>3. Node = 1 .. Len(plan) /\ Len(plan) \in Nat BY InitFacts
<1>4. \A d \in Node : d \in Nat /\ d > 0 /\ ds[d] = Resolved(d) /\ log[d] = plan[d].upstream /\ ~Begun(d)
  BY <1>2, <1>3 DEF Begun
<1>5. FreshInv BY <1>2, <1>4 DEF FreshInv
<1>6. \A d \in Node : log[d] \in Seq(Upstream) /\ log[d] \in Seq(Entries) BY <1>4, InitFacts DEF IsStage
<1>7. \A d \in Node : \A i \in 1 .. Len(log[d]) : log[d][i].stage = 0
  <2> TAKE d \in Node
  <2> TAKE i \in 1 .. Len(log[d])
  <2>1. log[d][i] \in Upstream BY <1>6
  <2> QED BY <2>1 DEF Upstream, Ran
<1>8. LogInv BY <1>4, <1>7 DEF LogInv, Lined, Ordered
<1>9. ReplayInv /\ StartedInv
  <2>1. ASSUME NEW d \in Node PROVE Replays(ds[d], log[d])
    <3> DEFINE l == plan[d].upstream
               s == Resolved(d)
    <3>1. /\ \A f \in SetFields : s.fields[f] = SetValue(l, f)
          /\ s.cmd = CmdOf(l) /\ s.entrypoint = EntrypointOf(l) /\ s.imageEnv = EnvOf(l)
          /\ s.layers = LayersIn(HistoryOf(l))
      <4> HIDE DEF l
      <4> QED BY DEF Resolved, l
    <3>2. Replays(s, l) BY <3>1 DEF Replays
    <3> QED BY <1>4, <3>2
  <2> QED BY <1>4, <2>1 DEF ReplayInv, StartedInv
<1>10. ASSUME NEW d \in Node
       PROVE  /\ ds[d].hist.arr = d /\ ds[d].hist.len = Len(HistoryOf(plan[d].upstream))
              /\ ds[d].cmdIndex = Pulled(d)
  <2> DEFINE l == plan[d].upstream
             s == Resolved(d)
  <2>1. s.hist.arr = d /\ s.hist.len = Len(HistoryOf(l)) /\ s.cmdIndex = Pulled(d)
    <3> HIDE DEF l
    <3> QED BY DEF Resolved, Pulled, l
  <2> QED BY <1>4, <2>1
<1>11. CountInv
  <2>1. ASSUME NEW d \in Node PROVE Own(d) = <<>>
    <3> DEFINE l == log[d]
    <3>1. l \in Seq(Entries) /\ \A i \in 1 .. Len(l) : l[i].stage # d BY <1>4, <1>6, <1>7
    <3> HIDE DEF l
    <3>2. \A i \in 1 .. Len(l) : l[i] \notin OfStage(d) BY <3>1 DEF OfStage
    <3>3. OwnOf(l, d) = <<>> BY <3>2, NothingPicked DEF OwnOf
    <3>4. Picked(l, {i \in 1 .. Len(l) : l[i].stage = d}) = <<>> BY <3>1, <3>3, OwnIs
    <3> QED BY <3>4 DEF Own, Which, l
  <2>2. \A d \in Node : ds[d].cmdIndex = Pulled(d) BY <1>10
  <2>3. 1 .. Len(<<>>) = {} OBVIOUS
  <2>4. \A d \in Node : Pulled(d) \in Nat BY DEF Pulled
  <2> QED BY <2>1, <2>2, <2>3, <2>4, NoLayers DEF CountInv, Counts
<1>12. TodoInv BY <1>2 DEF TodoInv
<1>13. OverInv BY <1>2, <1>4 DEF OverInv
<1>14. OrderInv BY <1>2, <1>4 DEF OrderInv
<1>15. ReadInv /\ PathsInv BY <1>2, <1>4 DEF ReadInv, PathsInv
<1>16. ArrayInv
  <2>1. Len(arrays) = Len(plan) BY InitMemory
  <2>2. \A d \in Node : ds[d].hist.arr = d BY <1>10
  <2> QED BY <1>3, <2>1, <2>2 DEF ArrayInv
<1>17. SliceInv
  <2>1. ASSUME NEW d \in Node PROVE Content(ds[d].hist, arrays) = HistoryOf(log[d])
    <3> DEFINE h == HistoryOf(plan[d].upstream)
    <3>1. h \in Seq(Things) /\ \A i \in 1 .. Len(h) : arrays[d][i] = h[i] BY InitMemory
    <3>2. HistoryOf(log[d]) = h /\ ds[d].hist.arr = d /\ ds[d].hist.len = Len(h) BY <1>4, <1>10
    <3> HIDE DEF h
    <3>3. [i \in 1 .. Len(h) |-> arrays[d][i]] = [i \in 1 .. Len(h) |-> h[i]] BY <3>1
    <3>4. h = [i \in 1 .. Len(h) |-> h[i]] BY <3>1
    <3> QED BY <3>2, <3>3, <3>4 DEF Content
  <2>2. \A d, e \in Node : ds[d].hist.arr = ds[e].hist.arr => d = e
    <3>1. \A d \in Node : ds[d].hist.arr = d BY <1>10
    <3> QED BY <3>1
  <2> QED BY <1>4, <2>1, <2>2 DEF SliceInv
<1>18. \A d \in Node, f \in MapFields :
          /\ ds[d].maps[f] = IF KeysOf(log[d], f) = {} THEN 0 ELSE d
          /\ maps[f][d] = KeysOf(log[d], f)
  BY <1>2, <1>4 DEF Resolved
<1>19. OwnerInv BY <1>4, <1>18 DEF OwnerInv
<1>20. MapInv
  <2>1. ASSUME NEW d \in Node, NEW f \in MapFields PROVE Keys(d, f) = KeysOf(log[d], f)
    <3>1. d # 0 BY <1>4
    <3>2. ds[d].maps[f] = (IF KeysOf(log[d], f) = {} THEN 0 ELSE d) /\ maps[f][d] = KeysOf(log[d], f) BY <1>18
    <3>3. CASE KeysOf(log[d], f) = {} BY <3>2, <3>3 DEF Keys
    <3>4. CASE KeysOf(log[d], f) # {} BY <3>1, <3>2, <3>4 DEF Keys
    <3> QED BY <3>3, <3>4
  <2>2. \A d, f : Given(d, f) = KeysOf(log[d], f) BY <1>2 DEF Given
  <2>3. \A d, e \in Node, f \in MapFields : ds[d].maps[f] = ds[e].maps[f] /\ ds[d].maps[f] # 0 => d = e BY <1>18
  <2>4. \A d \in Node : ~(d < d) BY <1>4
  <2> QED BY <2>1, <2>2, <2>3, <2>4 DEF MapInv
<1> QED BY <1>1, <1>5, <1>8, <1>9, <1>11, <1>12, <1>13, <1>14, <1>15, <1>16, <1>17, <1>19, <1>20 DEF IInv

LEMMA IInvStutter == IInv /\ UNCHANGED vars => IInv'
<1> SUFFICES ASSUME IInv, UNCHANGED vars PROVE IInv' OBVIOUS
<1> USE DEF vars
<1>1. UNCHANGED <<plan, target, fileOp>> OBVIOUS
<1>2. /\ Node' = Node
      /\ \A d : /\ Reachable(d)' <=> Reachable(d)
                /\ Total(d)' = Total(d) /\ Resolved(d)' = Resolved(d) /\ Pulled(d)' = Pulled(d)
      /\ \A d, e : Child(d, e)' <=> Child(d, e)
      /\ \A e : LayerRule(e)' <=> LayerRule(e)
      /\ NoSiblings' <=> NoSiblings
  BY <1>1, ConstFacts
<1>3. \A d : Begun(d)' <=> Begun(d) BY <1>2 DEF Begun
<1>4. TypeInv' BY DEF IInv, TypeInv, ControlType, Node
<1>5. FreshInv' BY <1>2, <1>3 DEF IInv, FreshInv
<1>6. LogInv' BY <1>2 DEF IInv, LogInv
<1>7. ReplayInv' BY <1>2 DEF IInv, ReplayInv
<1>8. StartedInv' BY <1>2, <1>3 DEF IInv, StartedInv
<1>9. CountInv'
  <2>1. \A d : Own(d)' = Own(d) BY DEF Own, Which
  <2> QED BY <1>2, <2>1 DEF IInv, CountInv, Counts
<1>10. TodoInv' BY DEF IInv, TodoInv, Done, S
<1>11. OverInv' BY <1>2 DEF IInv, OverInv
<1>12. OrderInv'
  <2>1. \A d : Own(d)' = Own(d) BY DEF Own, Which
  <2>2. \A d : Expected(d)' = Expected(d) /\ Left(d)' = Left(d) BY DEF Expected, Triggers, Left
  <2> QED BY <1>2, <1>3, <2>1, <2>2 DEF IInv, OrderInv, Follows
<1>13. ReadInv' /\ PathsInv'
  <2>1. \A d : Own(d)' = Own(d) BY DEF Own, Which
  <2>2. \A d : Expected(d)' = Expected(d) BY DEF Expected, Triggers
  <2> QED BY <1>2, <2>1, <2>2 DEF IInv, ReadInv, PathsInv, S
<1>14. ArrayInv' BY <1>2 DEF IInv, ArrayInv
<1>15. (NoSiblings => SliceInv)' BY <1>2 DEF IInv, SliceInv
<1>16. OwnerInv' BY <1>2 DEF IInv, OwnerInv
<1>17. (NoSiblings => MapInv)'
  <2>1. \A d, f : Keys(d, f)' = Keys(d, f) /\ Given(d, f)' = Given(d, f) BY DEF Keys, Given
  <2> QED BY <1>2, <1>3, <2>1 DEF IInv, MapInv
<1> QED BY <1>4, <1>5, <1>6, <1>7, <1>8, <1>9, <1>10, <1>11, <1>12, <1>13, <1>14, <1>15, <1>16, <1>17 DEF IInv

LEMMA IInvStep == IInv /\ Next => IInv'
<1> SUFFICES ASSUME IInv, Next PROVE IInv' OBVIOUS
<1> USE DEF IInv
<1>1. UNCHANGED <<plan, target, fileOp>> /\ (BeginStage \/ Handler \/ Moves \/ Finish) BY NextCases
<1>2. TypeInv' BY <1>1, BeginType, HandlerType, MoveType, FinishType
<1>3. FreshInv' /\ LogInv' BY FreshStep, LogStep
<1>4. ReplayInv' /\ StartedInv' /\ CountInv' BY ReplayStep, CountStep
<1>5. TodoInv' /\ OverInv' /\ OrderInv' /\ PathsInv' /\ ReadInv'
  BY TodoStep, OverStep, OrderStep, PathsStep, ReadStep
<1>6. ArrayInv' /\ (NoSiblings => SliceInv)' BY ArrayStep, SliceStep
<1>7. OwnerInv' /\ (NoSiblings => MapInv)' BY OwnerStep, MapStep
<1> QED BY <1>2, <1>3, <1>4, <1>5, <1>6, <1>7

(* The invariant holds of every state of the dispatch loop.                *)
THEOREM DispatchInvariant == Spec => []IInv
<1>1. Init => IInv BY IInvInit
<1>2. IInv /\ [Next]_vars => IInv' BY IInvStep, IInvStutter
<1> QED BY <1>1, <1>2, PTL DEF Spec

-----------------------------------------------------------------------------
(* What it says of the stages that are finished.                           *)
LEMMA FinishedFacts ==
    ASSUME IInv, NEW d \in Finished
    PROVE  /\ d \in Node /\ Reachable(d) /\ d < cur /\ Begun(d)
           /\ Replays(ds[d], log[d]) /\ Started(ds[d], log[d], d) /\ Counts(d)
           /\ ds[d].onBuild = OnBuildOf(plan[d].cmds)
           /\ Len(Own(d)) = Len(Expected(d))
           /\ \A i \in 1 .. Len(Expected(d)) : Own(d)[i].op = Expected(d)[i].op /\ Own(d)[i].val = Expected(d)[i].val
<1> USE DEF IInv
<1>1. d \in Node /\ d \in Nat /\ d <= Len(plan) /\ Len(plan) \in Nat /\ cur \in Nat BY PlanFacts DEF Finished
<1>2. phase = "done" => cur = Len(plan) + 1 BY DEF TypeInv, ControlType
<1>3. Reachable(d) /\ d < cur /\ Begun(d) BY <1>1, <1>2 DEF Finished, Begun
<1>4. Replays(ds[d], log[d]) /\ Started(ds[d], log[d], d) /\ Counts(d) BY <1>1, <1>3 DEF ReplayInv, StartedInv, CountInv
<1>5. ds[d].onBuild = OnBuildOf(plan[d].cmds) BY <1>1, <1>3 DEF OverInv
<1>6. Follows(d) BY <1>1, <1>3 DEF OrderInv
<1>7. Left(d) = 0 BY <1>3 DEF Left
<1>8. Len(Own(d)) \in Nat BY <1>1, OwnType
<1> QED BY <1>1, <1>3, <1>4, <1>5, <1>6, <1>7, <1>8 DEF Follows

(* The image config of a finished stage is what its instructions and those *)
(* of its bases say, whatever the stages are.                              *)
THEOREM ConfigTheorem == Spec => []ConfigReplays
<1>1. IInv => ConfigReplays BY FinishedFacts DEF ConfigReplays, Replays, Started
<1> QED BY <1>1, DispatchInvariant, PTL

(* A RUN sees the variables of the image config, but for those of which an *)
(* ARG of its stage has come after the last ENV.                           *)
THEOREM EnvTheorem == Spec => []EnvReachesRun
<1>1. IInv => EnvReachesRun
  <2> SUFFICES ASSUME IInv, NEW d \in Finished, NEW k \in DOMAIN ds[d].imageEnv
               PROVE  LET late == {i \in DOMAIN log[d] : ArgLast(log[d], d, k, i)}
                      IN  /\ \A i \in late : ds[d].env[k] = log[d][i].val
                          /\ late = {} => ds[d].env[k] = ds[d].imageEnv[k]
    BY DEF EnvReachesRun
  <2>1. Seen(ds[d], log[d], d, k) /\ d \in Node BY FinishedFacts DEF Started
  <2>2. DOMAIN log[d] = 1 .. Len(log[d]) BY <2>1 DEF IInv, TypeInv
  <2> QED BY <2>1, <2>2 DEF Seen
<1> QED BY <1>1, DispatchInvariant, PTL

(* The triggers of the base run once, in their order and before the        *)
(* instructions of the stage.                                              *)
THEOREM TriggersTheorem == Spec => []TriggersFirst
<1>1. IInv => TriggersFirst BY FinishedFacts DEF TriggersFirst
<1> QED BY <1>1, DispatchInvariant, PTL

(* Without siblings, the history that is exported has as many entries      *)
(* marked as layers as the state has operations that make one.             *)
THEOREM LayersTheorem == Spec => []LayersMatch
<1>1. IInv => LayersMatch
  <2> SUFFICES ASSUME IInv, NoSiblings, NEW d \in Finished
               PROVE  LayersIn(Elements(ds[d].hist)) = ds[d].layers
    BY DEF LayersMatch
  <2>1. d \in Node /\ Replays(ds[d], log[d]) BY FinishedFacts
  <2>2. Elements(ds[d].hist) = HistoryOf(log[d]) BY <2>1 DEF IInv, SliceInv, Content, Elements
  <2> QED BY <2>1, <2>2 DEF Replays
<1> QED BY <1>1, DispatchInvariant, PTL

(* Every path of the build context that is read, by a trigger or by the    *)
(* stage's own instruction, is in the filter.                              *)
THEOREM FilterTheorem == Spec => []FilterCovers
<1>1. IInv => FilterCovers
  <2>1. ASSUME IInv, NEW d \in Finished PROVE d \in Node /\ Reachable(d) /\ d < cur BY <2>1, FinishedFacts
  <2> QED BY <2>1 DEF FilterCovers, IInv, PathsInv
<1> QED BY <1>1, DispatchInvariant, PTL

LEMMA StepsCounted ==
    ASSUME IInv, NEW d \in Finished, ~(Own(d) # <<>> /\ Len(Own(d)) > Len(plan[d].cmds))
    PROVE  LET roots == Cardinality(Which(Own(d), LAMBDA c : fileOp /\ c.op = "WorkingDir" /\ ~c.layer))
               unpulled == IF plan[d].kind = "context" THEN 1 ELSE 0
           IN  ds[d].cmdIndex = Total(d) - roots - unpulled
<1> DEFINE o == Own(d)
           p == plan[d].cmds
           n == Len(p)
           L == {i \in 1 .. Len(o) : o[i].layer}
           R == {i \in 1 .. Len(o) : fileOp /\ o[i].op = "WorkingDir" /\ ~o[i].layer}
           C == {i \in 1 .. n : p[i].op \in CountedOps}
<1>1. d \in Node /\ Counts(d) /\ Len(o) = Len(Expected(d)) /\ \A i \in 1 .. Len(Expected(d)) : o[i].op = Expected(d)[i].op
  BY FinishedFacts
<1>2. Triggers(d) \in Seq(Instructions) /\ p \in Seq(Instructions)
  <2>1. TypeInv BY DEF IInv
  <2> QED BY <1>1, <2>1, ExpectedFacts
<1>3. Len(o) = n /\ n \in Nat /\ \A i \in 1 .. n : o[i].op = p[i].op
  <2> DEFINE t == Triggers(d)
             x == t \o p
  <2>1. Expected(d) = x BY DEF Expected
  <2>2. t \in Seq(Instructions) /\ Len(t) \in Nat /\ Len(p) \in Nat BY <1>2
  <2> HIDE DEF t
  <2>3. Len(x) = Len(t) + Len(p) /\ \A i \in 1 .. Len(p) : x[Len(t) + i] = p[i] BY <1>2, <2>2
  <2>4. Len(o) = Len(t) + Len(p) BY <1>1, <2>1, <2>3
  <2>5. o = <<>> => Len(o) = 0 OBVIOUS
  <2>6. Len(t) = 0 BY <2>2, <2>4, <2>5
  <2>7. \A i \in 1 .. Len(p) : Len(t) + i = i BY <2>2, <2>6
  <2> QED BY <1>1, <2>1, <2>2, <2>3, <2>4, <2>6, <2>7
<1>4. \A i \in 1 .. Len(o) : LayerRule(o[i]) BY <1>1 DEF Counts
<1>5. Which(o, LAMBDA c : c.layer) = L /\ Which(o, LAMBDA c : fileOp /\ c.op = "WorkingDir" /\ ~c.layer) = R
      /\ Which(p, LAMBDA c : c.op \in CountedOps) = C
  BY DEF Which
<1>6. ds[d].cmdIndex = Pulled(d) + (IF Total(d) = 0 THEN 0 ELSE Cardinality(L))
  BY <1>1, <1>5 DEF Counts, LayersIn
<1>7. Total(d) = IF plan[d].kind = "override" THEN 0
                 ELSE Cardinality(C) + (IF plan[d].kind \in {"image", "context"} THEN 1 ELSE 0)
  BY <1>5 DEF Total
<1>8. Cardinality(C) = Cardinality(L) + Cardinality(R) /\ Cardinality(L) \in Nat /\ Cardinality(R) \in Nat
      /\ (n = 0 => Cardinality(C) = 0)
  <2>1. C = L \cup R /\ L \cap R = {}
    <3>1. \A i \in 1 .. n : LayerRule(o[i]) /\ o[i].op = p[i].op BY <1>3, <1>4
    <3>2. L = {i \in 1 .. n : o[i].layer} /\ R = {i \in 1 .. n : fileOp /\ o[i].op = "WorkingDir" /\ ~o[i].layer}
      BY <1>3
    <3>3. \A i \in 1 .. n : p[i].op \in CountedOps <=> o[i].layer \/ (fileOp /\ o[i].op = "WorkingDir" /\ ~o[i].layer)
      <4> TAKE i \in 1 .. n
      <4>1. o[i].op \in {"Add", "Copy", "Run"} => o[i].layer BY <3>1 DEF LayerRule
      <4>2. o[i].layer => o[i].op \in CountedOps BY <3>1 DEF LayerRule
      <4>3. p[i].op = o[i].op BY <3>1
      <4> QED BY <4>1, <4>2, <4>3 DEF CountedOps
    <3> HIDE DEF o, p, n
    <3> QED BY <3>2, <3>3
  <2>2. L \subseteq 1 .. n /\ R \subseteq 1 .. n /\ C \subseteq 1 .. n BY <1>3
  <2> HIDE DEF L, R, C, n
  <2>3. IsFiniteSet(1 .. n) BY <1>3, FS_Interval
  <2>4. IsFiniteSet(L) /\ IsFiniteSet(R) BY <2>2, <2>3, FS_Subset
  <2>5. Cardinality(L) \in Nat /\ Cardinality(R) \in Nat BY <2>4, FS_CardinalityType
  <2>6. Cardinality(L \cup R) = Cardinality(L) + Cardinality(R)
    <3>1. Cardinality(L \cup R) = Cardinality(L) + Cardinality(R) - Cardinality(L \cap R) BY <2>4, FS_Union
    <3>2. Cardinality(L \cap R) = 0 BY <2>1, FS_EmptySet
    <3> QED BY <2>5, <3>1, <3>2
  <2>7. n = 0 => C = {} BY <2>2
  <2> QED BY <2>1, <2>5, <2>6, <2>7, FS_EmptySet
<1>9. plan[d].kind = "override" => n = 0
  <2>1. plan \in Plans BY DEF IInv, TypeInv
  <2>2. plan[d].kind = "override" => p = <<>> BY <1>1, <2>1, DispatchAssumption DEF Node
  <2> QED BY <2>2
<1>10. ds[d].cmdIndex = Total(d) - Cardinality(R) - (IF plan[d].kind = "context" THEN 1 ELSE 0)
  <2> DEFINE c == Cardinality(C)
             a == Cardinality(L)
             b == Cardinality(R)
             k == plan[d].kind
             v == Total(d)
             w == ds[d].cmdIndex
  <2>1. w = (IF k = "image" THEN 1 ELSE 0) + (IF v = 0 THEN 0 ELSE a) BY <1>6 DEF Pulled
  <2>2. v = IF k = "override" THEN 0 ELSE c + (IF k \in {"image", "context"} THEN 1 ELSE 0) BY <1>7
  <2>3. c = a + b /\ a \in Nat /\ b \in Nat /\ (k = "override" => c = 0) BY <1>8, <1>9
  <2> HIDE DEF c, a, b, k, v, w
  <2>4. w = v - b - (IF k = "context" THEN 1 ELSE 0) BY <2>1, <2>2, <2>3
  <2> QED BY <2>4 DEF b, k, v, w
<1> QED BY <1>5, <1>10

(* The steps of a stage without triggers are as many as the total they are *)
(* numbered against, but for a WORKDIR / and a base that needed no pull.   *)
THEOREM StepsTheorem == Spec => []StepsWithinTotal
<1>1. IInv => StepsWithinTotal BY StepsCounted DEF StepsWithinTotal
<1> QED BY <1>1, DispatchInvariant, PTL

(* What is read of an earlier stage is the stage as it is when finished.   *)
THEOREM SourceTheorem == Spec => []SourceIsFinal
<1>1. IInv => SourceIsFinal BY DEF IInv, ReadInv, SourceIsFinal
<1> QED BY <1>1, DispatchInvariant, PTL

(* Without siblings the history of the target is its own, and so are its   *)
(* labels, ports and volumes unless a stage needed is based on it.         *)
THEOREM ScopeTheorem == Spec => []ScopedInChains
<1>1. IInv => ScopedInChains
  <2> SUFFICES ASSUME IInv, phase = "done", NoSiblings PROVE OwnHistory /\ (TargetIsTip => OwnKeys)
    BY DEF ScopedInChains
  <2>1. SliceInv /\ MapInv /\ target \in Node BY DEF IInv, TypeInv
  <2>2. OwnHistory BY <2>1 DEF SliceInv, Content, OwnHistory, Elements
  <2>3. ASSUME TargetIsTip PROVE OwnKeys
    <3>1. ~Parent(target) BY <2>3 DEF TargetIsTip, Parent, Begun
    <3>2. \A f \in MapFields : Keys(target, f) = Given(target, f) BY <2>1, <3>1, MapParts DEF Scoped
    <3> QED BY <3>2 DEF OwnKeys, Keys, Given
  <2> QED BY <2>2, <2>3
<1> QED BY <1>1, DispatchInvariant, PTL
=============================================================================
