-------------------------- MODULE StageGraph_proofs -------------------------
(***************************************************************************)
(* Proofs about StageGraph, for every set of Dockerfiles.  The inductive   *)
(* invariant relates the table of names to the list of states: a name      *)
(* leads to the last state registered under it.                            *)
(***************************************************************************)
EXTENDS StageGraph, WellFoundedInduction, TLAPS

\* where the list and the loops are in each phase
Shape == /\ phase = "register" => Len(states) = cur - 1
         /\ phase \in {"link", "resolve"} => Len(dockerfile) <= Len(states)

\* nothing is linked while stages are registered
Unlinked == phase = "register" =>
                \A d \in Ids : states[d].sources = <<>> /\ states[d].deps = {}

\* the table of names: lowercase names, each leading to its last state
Table == /\ \A d \in Ids : states[d].name # None =>
                /\ Lower[states[d].name] = states[d].name
                /\ states[d].name \in DOMAIN byName
                /\ d <= byName[states[d].name]
         /\ \A n \in DOMAIN byName : states[byName[n]].name = n

SourcesInIds == \A d \in Ids : \A k \in 1 .. Len(states[d].sources) : SourceOf(d, k) \in Ids

\* what the sources linked so far have to do with the dependencies
DepsLinked == \A d \in Ids : states[d].deps = {SourceOf(d, k) : k \in 1 .. Len(states[d].sources)}

\* two versions of a state that differ in what they are linked to only
SameButLinks(d, c) == /\ d.name = c.name /\ d.from = c.from /\ d.base = c.base
                      /\ d.refs = c.refs /\ d.total = c.total
                      /\ d.noinit = c.noinit /\ d.unregistered = c.unregistered

\* two states that have nothing to do with another stage
SameButFrom(d, c) == /\ d.name = c.name /\ d.sources = c.sources /\ d.deps = c.deps
                     /\ d.refs = c.refs

\* what a step may not do to the states there are
Kept == /\ DOMAIN states \subseteq DOMAIN states'
        /\ \A d \in Ids : /\ SameButLinks(states'[d], states[d])
                          /\ states[d].deps \subseteq states'[d].deps

\* state i is registered under the name n
Called(i, n) == n # None /\ states[i].name # None /\ states[i].name = Lower[n]

\* BaseIsNearest and TotalCountsPull, one state at a time
NearestAt(d) ==
    LET n == states[d].from
        b == states[d].base
    IN  IF b = 0
        THEN n # None /\ Lower[n] = n => \A i \in Ids : i < d => ~Called(i, n)
        ELSE Called(b, n) /\ \A i \in Ids : i < d /\ Called(i, n) => i <= b

Nearest == \A d \in Ids : NearestAt(d)

TotalAt(d) ==
    ~states[d].noinit =>
        states[d].total = dockerfile[d].steps
          + (IF states[d].base = 0 /\ states[d].from # Scratch THEN 1 ELSE 0)

\* SourcesAreStages, one source at a time
SourceRight(d, k) ==
    LET n == RefName(states[d].refs[k])
        s == SourceOf(d, k)
    IN  states[d].refs[k].kind # "index" =>
            \/ Called(s, n) /\ \A i \in Ids : Called(i, n) => i <= s
            \/ /\ \A i \in Ids : ~Called(i, n)
               /\ states[s].unregistered /\ states[s].from = n

SourcesRight == \A d \in Ids : \A k \in 1 .. Len(states[d].sources) : SourceRight(d, k)

\* TargetIsStage, with Called
TargetRight ==
    phase \in {"link", "resolve"} =>
        /\ target \in 1 .. Len(dockerfile)
        /\ targetOpt = None => target = Len(dockerfile)
        /\ targetOpt # None => /\ Called(target, targetOpt)
                               /\ \A i \in Ids : Called(i, targetOpt) => i <= target

\* the stages the linking loop is done with, and the states of images
FullyLinked ==
    /\ phase = "link" =>
         \A d \in Ids : d < cur \/ d > Len(dockerfile) => Len(states[d].sources) = Len(states[d].refs)
    /\ phase = "resolve" => \A d \in Ids : Len(states[d].sources) = Len(states[d].refs)

NoDepCycle == phase = "resolve" => ~Cyclic(Deps)

IInv == /\ TypeOK /\ Shape /\ Unlinked /\ Table /\ SourcesInIds /\ DepsLinked
        /\ BaseIsEarlier /\ Nearest /\ SourcesRight /\ TotalCountsPull
        /\ TargetRight /\ FullyLinked /\ NoDepCycle

-----------------------------------------------------------------------------
(* Facts about the data.                                                   *)

\* the stages of a Dockerfile, and what is assumed of them
LEMMA DockerfileFacts ==
    ASSUME NEW df \in Dockerfiles
    PROVE  /\ df \in Seq(Stage) /\ Len(df) \in Nat \ {0}
           /\ \A i \in 1 .. Len(df) : /\ df[i] \in Stage
                                      /\ df[i].name # None => Lower[df[i].name] = df[i].name
<1>1. df \in Seq(Stage) /\ df # <<>> BY DockerfileAssumption
<1>2. Len(df) \in Nat /\ DOMAIN df = 1 .. Len(df) BY <1>1
<1>3. Len(df) # 0 BY <1>1
<1>4. \A i \in 1 .. Len(df) : df[i] \in Stage
  <2> HIDE DEF Stage
  <2> QED BY <1>1
<1>5. \A i \in DOMAIN df : df[i].name # None => Lower[df[i].name] = df[i].name
  BY DockerfileAssumption
<1> HIDE DEF Stage
<1> QED BY <1>1, <1>2, <1>3, <1>4, <1>5

\* what the type invariant says of the variables that change
LEMMA TypeFacts ==
    ASSUME TypeOK
    PROVE  /\ states \in Seq(DispatchState) /\ Len(states) \in Nat /\ Ids = 1 .. Len(states)
           /\ DOMAIN byName \subseteq Name /\ byName \in [DOMAIN byName -> Ids]
           /\ None \notin DOMAIN byName
           /\ target \in Ids \cup {0}
           /\ cur \in 1 .. Len(dockerfile) + 1 /\ cur \in Nat /\ Len(dockerfile) \in Nat \ {0}
<1>1. /\ DOMAIN byName \subseteq Name /\ byName \in [DOMAIN byName -> Ids]
      /\ target \in Ids \cup {0} /\ states \in Seq(DispatchState) /\ dockerfile \in Dockerfiles
      /\ cur \in 1 .. Len(dockerfile) + 1
  BY DEF TypeOK
<1>2. Len(dockerfile) \in Nat \ {0} BY <1>1, DockerfileFacts
<1>3. Len(states) \in Nat BY <1>1
<1> QED BY <1>1, <1>2, <1>3, NameAssumption DEF Ids

\* a list with one state more
LEMMA AppendFacts ==
    ASSUME NEW list \in Seq(DispatchState), NEW ds \in DispatchState
    PROVE  /\ Append(list, ds) \in Seq(DispatchState)
           /\ Len(Append(list, ds)) = Len(list) + 1
           /\ \A i \in 1 .. Len(list) : Append(list, ds)[i] = list[i]
           /\ Append(list, ds)[Len(list) + 1] = ds
  OBVIOUS

\* a list with one source more for the current stage
LEMMA LinkedFacts ==
    ASSUME TypeOK, cur \in Ids, NEW s \in Nat
    PROVE  /\ Linked(s) \in Seq(DispatchState)
           /\ Len(Linked(s)) = Len(states)
           /\ \A i \in Ids \ {cur} : Linked(s)[i] = states[i]
           /\ Linked(s)[cur].sources = Append(states[cur].sources, s)
           /\ Linked(s)[cur].deps = states[cur].deps \cup {s}
           /\ SameButLinks(Linked(s)[cur], states[cur])
<1> DEFINE c == states[cur]
           src == Append(c.sources, s)
           dep == c.deps \cup {s}
           d == [[c EXCEPT !.sources = src] EXCEPT !.deps = dep]
<1>1. states \in Seq(DispatchState) /\ c \in DispatchState
  <2>1. states \in Seq(DispatchState) BY DEF TypeOK
  <2> QED BY <2>1 DEF Ids
<1>2. src \in Seq(Nat) /\ dep \in SUBSET Nat
  <2>1. c.sources \in Seq(Nat) /\ c.deps \in SUBSET Nat BY <1>1 DEF DispatchState
  <2> QED BY <2>1
<1>3. d \in DispatchState /\ d.sources = src /\ d.deps = dep /\ SameButLinks(d, c)
  <2> HIDE DEF src, dep, c
  <2> QED BY <1>1, <1>2 DEF DispatchState, SameButLinks
<1>4. Linked(s) = [states EXCEPT ![cur] = d]
  <2>1. cur \in DOMAIN states BY <1>1 DEF Ids
  <2>2. Linked(s) = [[states EXCEPT ![cur].sources = src]
                       EXCEPT ![cur].deps = [states EXCEPT ![cur].sources = src][cur].deps \cup {s}]
    BY DEF Linked
  <2>3. [states EXCEPT ![cur].sources = src][cur] = [c EXCEPT !.sources = src] BY <2>1
  <2>4. [c EXCEPT !.sources = src].deps = c.deps BY <1>1 DEF DispatchState
  <2> QED BY <2>1, <2>2, <2>3, <2>4
<1> HIDE DEF d
<1> QED BY <1>1, <1>3, <1>4 DEF Ids

\* the elements of a sequence with one more
LEMMA AppendedSet ==
    ASSUME NEW q \in Seq(Nat), NEW x \in Nat, NEW r, r = Append(q, x)
    PROVE  {r[k] : k \in 1 .. Len(r)} = {q[k] : k \in 1 .. Len(q)} \cup {x}
<1> DEFINE n == Len(q)
<1>1. n \in Nat /\ Len(r) = n + 1 /\ r[n + 1] = x /\ \A k \in 1 .. n : r[k] = q[k]
  OBVIOUS
<1>2. \A k \in 1 .. n + 1 : r[k] \in {q[i] : i \in 1 .. n} \cup {x}
  <2>1. ASSUME NEW k \in 1 .. n + 1 PROVE r[k] \in {q[i] : i \in 1 .. n} \cup {x}
    <3>1. k \in 1 .. n \/ k = n + 1 BY <1>1
    <3> QED BY <1>1, <3>1
  <2> QED BY <2>1
<1>3. \A k \in 1 .. n : k \in 1 .. n + 1 BY <1>1
<1>4. n + 1 \in 1 .. n + 1 BY <1>1
<1>5. {r[k] : k \in 1 .. n + 1} = {q[k] : k \in 1 .. n} \cup {x}
  BY <1>1, <1>2, <1>3, <1>4
<1> QED BY <1>1, <1>5

\* a nonempty set of numbers has a least one
LEMMA NatMin ==
    ASSUME NEW S \in SUBSET Nat, S # {}
    PROVE  \E m \in S : \A n \in S : m <= n
<1> DEFINE R == {p \in Nat \X Nat : p[1] < p[2]}
<1>1. R = OpToRel(<, Nat) BY DEF OpToRel
<1>2. IsWellFoundedOn(R, Nat) BY <1>1, NatLessThanWellFounded
<1>3. PICK m \in S : \A n \in S : <<n, m>> \notin R BY <1>2, WFMin
<1>4. ASSUME NEW n \in S PROVE m <= n
  <2>1. m \in Nat /\ n \in Nat OBVIOUS
  <2>2. n < m => <<n, m>> \in R BY <2>1
  <2> QED BY <1>3, <2>1, <2>2
<1> QED BY <1>4
-----------------------------------------------------------------------------
(* Registering one state preserves the invariant.                          *)
LEMMA RegisterInv ==
    ASSUME IInv, Registering, NEW ds \in DispatchState,
           ds.sources = <<>>, ds.deps = {},
           ds.name # None => Lower[ds.name] = ds.name,
           ~ds.noinit => ds.total = dockerfile[cur].steps
                           + (IF BaseOf(ds.from) = 0 /\ ds.from # Scratch THEN 1 ELSE 0),
           AddState(ds), NextStage, UNCHANGED inputs
    PROVE  IInv' /\ Kept
<1> DEFINE L == Len(states)
           new == [ds EXCEPT !.base = BaseOf(ds.from)]
<1>1. /\ states \in Seq(DispatchState) /\ L \in Nat /\ Ids = 1 .. L
      /\ DOMAIN byName \subseteq Name /\ byName \in [DOMAIN byName -> Ids]
      /\ None \notin DOMAIN byName
  BY TypeFacts DEF IInv
<1>2. BaseOf(ds.from) \in Ids \cup {0} /\ BaseOf(ds.from) \in Nat
  BY <1>1 DEF BaseOf
<1>3. /\ new \in DispatchState /\ new.sources = <<>> /\ new.deps = {}
      /\ new.base = BaseOf(ds.from)
      /\ new.name = ds.name /\ new.from = ds.from /\ new.total = ds.total /\ new.noinit = ds.noinit
      /\ new.name \in Name \cup {None} /\ new.from \in Name \cup {None}
  BY <1>2 DEF DispatchState
<1>4. /\ states' \in Seq(DispatchState) /\ Len(states') = L + 1 /\ Ids' = 1 .. L + 1
      /\ \A i \in Ids : states'[i] = states[i]
      /\ states'[L + 1] = new
  <2> HIDE DEF new
  <2>1. states' = Append(states, new) BY DEF AddState, new
  <2> QED BY <1>1, <1>3, <2>1, AppendFacts DEF Ids
<1> HIDE DEF new
<1>5. /\ DOMAIN byName \subseteq DOMAIN byName' /\ DOMAIN byName' \subseteq Name
      /\ new.name # None => new.name \in DOMAIN byName' /\ byName'[new.name] = L + 1
      /\ \A n \in DOMAIN byName' :
           IF new.name # None /\ n = new.name THEN byName'[n] = L + 1
           ELSE n \in DOMAIN byName /\ byName'[n] = byName[n]
      /\ byName' \in [DOMAIN byName' -> Ids']
  <2>1. CASE new.name = None
    BY <1>1, <1>3, <1>4, <2>1 DEF AddState
  <2>2. CASE new.name # None
    <3>1. Lower[ds.name] = new.name /\ new.name \in Name BY <1>3, <2>2
    <3>2. byName' = [n \in DOMAIN byName \cup {new.name} |-> IF n = new.name THEN L + 1 ELSE byName[n]]
      BY <1>3, <2>2, <3>1 DEF AddState
    <3>3. \A n \in DOMAIN byName : byName[n] \in Ids BY <1>1
    <3> QED BY <1>1, <1>4, <2>2, <3>1, <3>2, <3>3
  <2> QED BY <2>1, <2>2
<1>6. /\ phase = "register" /\ phase' = "register" /\ cur \in Nat /\ cur' = cur + 1 /\ L = cur - 1
      /\ cur <= Len(dockerfile) /\ UNCHANGED <<dockerfile, overrides, targetOpt, target, err>>
      /\ Len(dockerfile) \in Nat
  BY TypeFacts DEF IInv, Shape, Registering, NextStage, inputs
<1>7. TypeOK'
  <2>1. \A d \in Ids' : states'[d].base \in Ids' \cup {0} /\ states'[d].deps \subseteq Ids'
    <3>1. \A d \in Ids : states[d].base \in Ids \cup {0} /\ states[d].deps \subseteq Ids BY DEF IInv, TypeOK
    <3>2. Ids' = Ids \cup {L + 1} BY <1>1, <1>4
    <3> QED BY <1>2, <1>3, <1>4, <3>1, <3>2
  <2>2. cur' \in 1 .. Len(dockerfile') + 1 BY <1>6
  <2>3. target' \in Ids' \cup {0} 
    <3>1. target \in Ids \cup {0} BY TypeFacts DEF IInv
    <3> QED BY <1>1, <1>4, <1>6, <3>1
  <2> QED BY <1>4, <1>5, <1>6, <2>1, <2>2, <2>3 DEF IInv, TypeOK
<1>8. Shape' BY <1>4, <1>6 DEF Shape
<1>9. \A d \in Ids' : states'[d].sources = <<>> /\ states'[d].deps = {}
  BY <1>1, <1>3, <1>4, <1>6 DEF IInv, Unlinked
<1>10. Unlinked' /\ SourcesInIds' /\ DepsLinked' /\ SourcesRight'
  BY <1>9 DEF Unlinked, SourcesInIds, DepsLinked, SourcesRight, SourceOf
<1>11. Table'
  <2>1. \A d \in Ids' : states'[d].name # None =>
            /\ Lower[states'[d].name] = states'[d].name
            /\ states'[d].name \in DOMAIN byName'
            /\ d <= byName'[states'[d].name]
    <3>1. ASSUME NEW d \in Ids, states[d].name # None
          PROVE  /\ Lower[states[d].name] = states[d].name
                 /\ states[d].name \in DOMAIN byName'
                 /\ d <= byName'[states[d].name]
      <4>1. /\ Lower[states[d].name] = states[d].name
            /\ states[d].name \in DOMAIN byName
            /\ d <= byName[states[d].name]
        BY <3>1 DEF IInv, Table
      <4>2. d <= L + 1 BY <1>1
      <4> QED BY <1>5, <4>1, <4>2
    <3>2. new.name # None => Lower[new.name] = new.name /\ L + 1 <= byName'[new.name]
      BY <1>1, <1>3, <1>5
    <3>3. Ids' = Ids \cup {L + 1} BY <1>1, <1>4
    <3> QED BY <1>4, <1>5, <3>1, <3>2, <3>3
  <2>2. \A n \in DOMAIN byName' : states'[byName'[n]].name = n
    <3>1. \A n \in DOMAIN byName : byName[n] \in Ids /\ states[byName[n]].name = n
      BY <1>1 DEF IInv, Table
    <3> QED BY <1>4, <1>5, <3>1
  <2> QED BY <2>1, <2>2 DEF Table
<1>12. BaseIsEarlier'
  <2>1. \A d \in Ids : states[d].base < d BY DEF IInv, BaseIsEarlier
  <2>2. new.base < L + 1 BY <1>1, <1>2, <1>3
  <2> QED BY <1>1, <1>4, <2>1, <2>2 DEF BaseIsEarlier
<1>13. Nearest'
  <2>1. \A d \in Ids : NearestAt(d) BY DEF IInv, Nearest
  <2>2. ASSUME NEW d \in Ids PROVE NearestAt(d)'
    <3>1. NearestAt(d) /\ states[d].base < d BY <2>1 DEF IInv, BaseIsEarlier
    <3>2. \A i \in Ids' : i < d => i \in Ids /\ states'[i] = states[i]
      BY <1>1, <1>4
    <3>3. states'[d] = states[d] /\ d \in Nat BY <1>1, <1>4
    <3>4. states[d].base \in Ids \cup {0} BY DEF IInv, TypeOK
    <3>5. states[d].base # 0 => states'[states[d].base] = states[states[d].base]
      BY <1>4, <3>4
    <3> QED BY <3>1, <3>2, <3>3, <3>5 DEF NearestAt, Called
  <2>3. ASSUME NEW e \in Ids', e = L + 1 PROVE NearestAt(e)'
    <3> DEFINE f == new.from
               b == new.base
    <3>1. f = ds.from /\ f = states'[e].from /\ b = states'[e].base BY <1>3, <1>4, <2>3
    <3>2. \A i \in Ids' : i < e => i \in Ids /\ states'[i] = states[i]
      BY <1>1, <1>4, <2>3
    <3>3. CASE f \in DOMAIN byName
      <4>1. /\ b = byName[f] /\ b \in Ids /\ states[b].name = f
            /\ f # None /\ Lower[f] = f
        BY <1>1, <1>3, <3>1, <3>3 DEF BaseOf, IInv, Table
      <4>2. b # 0 /\ states'[b].name = f BY <1>1, <1>4, <4>1
      <4>3. \A i \in Ids : states[i].name = f => i <= b
        BY <4>1 DEF IInv, Table
      <4> HIDE DEF f, b
      <4> QED BY <3>1, <3>2, <4>1, <4>2, <4>3 DEF NearestAt, Called
    <3>4. CASE f \notin DOMAIN byName
      <4>1. b = 0 BY <1>3, <3>1, <3>4 DEF BaseOf
      <4>2. \A i \in Ids : states[i].name # None => states[i].name # f BY <3>4 DEF IInv, Table
      <4> HIDE DEF f, b
      <4> QED BY <3>1, <3>2, <4>1, <4>2 DEF NearestAt, Called
    <3> QED BY <3>3, <3>4
  <2>4. \A d \in Ids' : d \in Ids \/ d = L + 1 BY <1>1, <1>4
  <2>5. \A d \in Ids' : NearestAt(d)' BY <2>2, <2>3, <2>4
  <2> QED BY <2>5 DEF Nearest
<1>14. TotalCountsPull'
  <2>1. \A d \in 1 .. Len(dockerfile) \cap Ids' : d \in Ids \/ d = cur
    BY <1>1, <1>4, <1>6
  <2>2. L + 1 = cur BY <1>6
  <2>3. ~new.noinit => new.total = dockerfile[cur].steps + (IF new.base = 0 /\ new.from # Scratch THEN 1 ELSE 0)
    BY <1>3
  <2>4. \A d \in 1 .. Len(dockerfile) \cap Ids : TotalAt(d) BY DEF IInv, TotalCountsPull, TotalAt
  <2>5. \A d \in 1 .. Len(dockerfile) \cap Ids : TotalAt(d)' BY <1>4, <1>6, <2>4 DEF TotalAt
  <2>6. ASSUME NEW d \in Ids', d = cur PROVE TotalAt(d)'
    BY <1>4, <1>6, <2>2, <2>3, <2>6 DEF TotalAt
  <2> QED BY <1>6, <2>1, <2>5, <2>6 DEF TotalCountsPull, TotalAt
<1>15. Kept BY <1>1, <1>4 DEF Kept, SameButLinks
<1>16. TargetRight' /\ FullyLinked' /\ NoDepCycle'
  BY <1>6 DEF TargetRight, FullyLinked, NoDepCycle
<1> QED BY <1>16, <1>7, <1>8, <1>10, <1>11, <1>12, <1>13, <1>14, <1>15 DEF IInv

-----------------------------------------------------------------------------
(* Linking one source preserves the invariant, whether it is a state there *)
(* was or the new state of an image.                                       *)
LEMMA GrowInv ==
    ASSUME IInv, Linking, NEW s \in Nat, NEW L \in Nat, L = Len(states),
           states' \in Seq(DispatchState), Len(states') \in {L, L + 1}, s \in Ids',
           \A i \in Ids \ {cur} : states'[i] = states[i],
           SameButLinks(states'[cur], states[cur]),
           states'[cur].sources = Append(states[cur].sources, s),
           states'[cur].deps = states[cur].deps \cup {s},
           Len(states') = L + 1 =>
               /\ states'[L + 1].sources = <<>> /\ states'[L + 1].deps = {}
               /\ states'[L + 1].name = None /\ states'[L + 1].base = 0
               /\ states'[L + 1].refs = <<>>
               /\ \A i \in Ids : ~Called(i, states'[L + 1].from),
           LET n == RefName(NextRef)
           IN  NextRef.kind # "index" =>
                   \/ Called(s, n) /\ s \in Ids /\ \A i \in Ids : Called(i, n) => i <= s
                   \/ /\ \A i \in Ids : ~Called(i, n)
                      /\ states'[s].unregistered /\ states'[s].from = n,
           UNCHANGED <<phase, byName, target, cur, err>>, UNCHANGED inputs
    PROVE  IInv' /\ Kept
<1>1. /\ states \in Seq(DispatchState) /\ L \in Nat /\ Ids = 1 .. L
      /\ DOMAIN byName \subseteq Name /\ byName \in [DOMAIN byName -> Ids]
      /\ target \in Ids \cup {0} /\ cur \in Nat /\ Len(dockerfile) \in Nat
      /\ cur \in 1 .. Len(dockerfile) + 1
  BY TypeFacts DEF IInv
<1>2. /\ phase = "link" /\ cur \in Ids /\ Len(dockerfile) <= L
  BY <1>1 DEF IInv, Shape, Linking
<1>3. /\ Ids' = 1 .. Len(states') /\ Ids \subseteq Ids' /\ cur \in Ids'
      /\ \A d \in Ids' : d \in Ids \/ (Len(states') = L + 1 /\ d = L + 1)
  BY <1>1, <1>2 DEF Ids
<1>4. \A d \in Ids : SameButLinks(states'[d], states[d]) BY DEF SameButLinks
<1>5. \A d \in Ids : states'[d] \in DispatchState /\ states[d] \in DispatchState
  <2>1. \A d \in 1 .. Len(states) : states[d] \in DispatchState
    <3> HIDE DEF DispatchState
    <3> QED BY <1>1
  <2>2. \A d \in 1 .. Len(states') : states'[d] \in DispatchState
    <3> HIDE DEF DispatchState
    <3> QED OBVIOUS
  <2> QED BY <1>1, <1>3, <2>1, <2>2
<1>6. TypeOK'
  <2>1. \A d \in Ids' : states'[d].base \in Ids' \cup {0} /\ states'[d].deps \subseteq Ids'
    <3>1. \A d \in Ids : states[d].base \in Ids \cup {0} /\ states[d].deps \subseteq Ids BY DEF IInv, TypeOK
    <3>2. \A d \in Ids : states'[d].deps \subseteq Ids' BY <1>3, <3>1
    <3> QED BY <1>3, <1>4, <3>1, <3>2 DEF SameButLinks
  <2>2. byName' \in [DOMAIN byName' -> Ids'] /\ DOMAIN byName' \subseteq Name /\ target' \in Ids' \cup {0}
    BY <1>1, <1>3
  <2> QED BY <1>1, <2>1, <2>2 DEF IInv, TypeOK, inputs
<1>7. Shape' /\ Unlinked' BY <1>1, <1>2 DEF Shape, Unlinked, inputs
<1>8. Table'
  <2>1. \A n \in DOMAIN byName : byName[n] \in Ids BY <1>1
  <2>2. \A d \in Ids' : states'[d].name # None => d \in Ids /\ states'[d].name = states[d].name
    BY <1>3, <1>4 DEF SameButLinks
  <2>3. Table /\ byName' = byName BY DEF IInv
  <2>4. \A d \in Ids : states'[d].name = states[d].name BY <1>4 DEF SameButLinks
  <2> QED BY ONLY <2>1, <2>2, <2>3, <2>4 DEF Table
<1>9. \A d \in Ids : \A n : Called(d, n)' <=> Called(d, n) BY <1>4 DEF Called, SameButLinks
<1>10. \A d \in Ids' : \A n : d \notin Ids => ~Called(d, n)' BY <1>3 DEF Called
<1>11. /\ \A d \in Ids : d = cur \/ states'[d].sources = states[d].sources
       /\ states[cur].sources \in Seq(Nat) /\ Len(states[cur].sources) \in Nat
       /\ Len(states'[cur].sources) = Len(states[cur].sources) + 1
       /\ \A k \in 1 .. Len(states[cur].sources) : states'[cur].sources[k] = states[cur].sources[k]
       /\ states'[cur].sources[Len(states[cur].sources) + 1] = s
  <2>1. states[cur].sources \in Seq(Nat) BY <1>2, <1>5 DEF DispatchState
  <2>2. states'[cur].sources = Append(states[cur].sources, s) /\ s \in Nat
    OBVIOUS
  <2>3. /\ Len(states[cur].sources) \in Nat
        /\ Len(states'[cur].sources) = Len(states[cur].sources) + 1
        /\ \A k \in 1 .. Len(states[cur].sources) : states'[cur].sources[k] = states[cur].sources[k]
        /\ states'[cur].sources[Len(states[cur].sources) + 1] = s
    BY ONLY <2>1, <2>2
  <2>4. \A d \in Ids : d = cur \/ states'[d].sources = states[d].sources
    OBVIOUS
  <2> QED BY <2>1, <2>3, <2>4
<1>12. SourcesInIds' /\ DepsLinked'
  <2> DEFINE Linked1(st, d) == {st[d].sources[k] : k \in 1 .. Len(st[d].sources)}
  <2>1. \A d \in Ids : Linked1(states, d) \subseteq Ids /\ states[d].deps = Linked1(states, d)
    BY DEF IInv, SourcesInIds, DepsLinked, SourceOf
  <2>2. ASSUME NEW d \in Ids'
        PROVE  Linked1(states', d) \subseteq Ids' /\ states'[d].deps = Linked1(states', d)
    <3>1. CASE d \in Ids \ {cur}
      <4>1. states'[d] = states[d] BY <3>1
      <4>2. Linked1(states', d) = Linked1(states, d) BY <4>1
      <4> HIDE DEF Linked1
      <4> QED BY <1>3, <2>1, <3>1, <4>1, <4>2
    <3>2. CASE d = cur
      <4>1. states[cur].sources \in Seq(Nat) BY <1>11
      <4>2. ASSUME NEW q \in Seq(Nat), q = states[cur].sources, NEW r, r = Append(q, s),
                   r = states'[cur].sources
            PROVE  Linked1(states', cur) = Linked1(states, cur) \cup {s}
        <5>0. r = Append(q, s) BY <4>2
        <5>1. {r[k] : k \in 1 .. Len(r)} = {q[k] : k \in 1 .. Len(q)} \cup {s}
          BY ONLY <5>0, AppendedSet, s \in Nat, q \in Seq(Nat)
        <5>2. Linked1(states', cur) = {r[k] : k \in 1 .. Len(r)} BY <4>2
        <5>3. Linked1(states, cur) = {q[k] : k \in 1 .. Len(q)} BY <4>2
        <5> HIDE DEF Linked1
        <5> QED BY <5>1, <5>2, <5>3
      <4>4. Linked1(states', cur) = Linked1(states, cur) \cup {s} BY <4>1, <4>2
      <4> HIDE DEF Linked1
      <4> QED BY <1>2, <1>3, <2>1, <3>2, <4>4
    <3>3. CASE d \notin Ids
      <4>1. states'[d].sources = <<>> /\ states'[d].deps = {} BY <1>3, <3>3
      <4>2. Linked1(states', d) = {} BY <4>1
      <4> QED BY <4>1, <4>2
    <3> QED BY <3>1, <3>2, <3>3
  <2>3. \A d \in Ids' : /\ Linked1(states', d) \subseteq Ids'
                        /\ states'[d].deps = Linked1(states', d)
    BY <2>2
  <2> QED BY ONLY <2>3 DEF SourcesInIds, DepsLinked, SourceOf
<1>13. BaseIsEarlier'
  <2>1. \A d \in Ids : states[d].base < d BY DEF IInv, BaseIsEarlier
  <2>2. \A d \in Ids : states'[d].base = states[d].base BY <1>4 DEF SameButLinks
  <2>3. \A d \in Ids' : d \notin Ids => states'[d].base < d BY <1>1, <1>3
  <2> QED BY ONLY <2>1, <2>2, <2>3 DEF BaseIsEarlier
<1>14. Nearest'
  <2>1. ASSUME NEW d \in Ids PROVE NearestAt(d)'
    <3>1. NearestAt(d) BY DEF IInv, Nearest
    <3>2. states'[d].base = states[d].base /\ states'[d].from = states[d].from
      BY <1>4 DEF SameButLinks
    <3>3. states[d].base \in Ids \cup {0} BY DEF IInv, TypeOK
    <3> QED BY <1>9, <1>10, <3>1, <3>2, <3>3 DEF NearestAt
  <2>2. ASSUME NEW d \in Ids', d \notin Ids PROVE NearestAt(d)'
    BY <1>3, <1>9, <1>10, <2>2 DEF NearestAt
  <2> QED BY <2>1, <2>2 DEF Nearest
<1>15. SourcesRight'
  <2>1. ASSUME NEW d \in Ids, NEW k \in 1 .. Len(states[d].sources) PROVE SourceRight(d, k)'
    <3>1. SourceRight(d, k) BY DEF IInv, SourcesRight
    <3>2. SourceOf(d, k) \in Ids BY DEF IInv, SourcesInIds
    <3>3. SourceOf(d, k)' = SourceOf(d, k)
      <4>1. CASE d = cur
        <5>1. states'[cur].sources[k] = states[cur].sources[k] BY ONLY <1>11, <4>1, <2>1
        <5> QED BY ONLY <4>1, <5>1 DEF SourceOf
      <4>2. CASE d # cur
        <5>1. states'[d].sources = states[d].sources BY ONLY <1>11, <4>2, d \in Ids
        <5> QED BY ONLY <5>1 DEF SourceOf
      <4> QED BY ONLY <4>1, <4>2
    <3>4. /\ states'[d].refs = states[d].refs
          /\ states'[SourceOf(d, k)].from = states[SourceOf(d, k)].from
          /\ states'[SourceOf(d, k)].unregistered = states[SourceOf(d, k)].unregistered
      BY <1>4, <3>2 DEF SameButLinks
    <3> HIDE DEF SourceOf
    <3>5. \A i \in Ids' : \A n : Called(i, n)' => i \in Ids /\ Called(i, n)
      BY ONLY <1>9, <1>10
    <3> DEFINE r == states[d].refs[k]
               i == SourceOf(d, k)
    <3>6. /\ i' = i /\ i \in Ids /\ r' = r
          /\ r.kind # "index" => \/ Called(i, RefName(r)) /\ \A j \in Ids : Called(j, RefName(r)) => j <= i
                               \/ /\ \A j \in Ids : ~Called(j, RefName(r))
                                  /\ states[i].unregistered /\ states[i].from = RefName(r)
      BY ONLY <3>1, <3>2, <3>3, <3>4 DEF SourceRight
    <3>7. CASE r.kind = "index"
      BY ONLY <3>4, <3>7 DEF SourceRight
    <3>8. CASE Called(i, RefName(r)) /\ \A j \in Ids : Called(j, RefName(r)) => j <= i
      <4>1. Called(i, RefName(r))' /\ \A j \in Ids' : Called(j, RefName(r))' => j <= i'
        BY ONLY <1>9, <3>4, <3>5, <3>6, <3>8
      <4> QED BY ONLY <4>1 DEF SourceRight
    <3>9. CASE /\ \A j \in Ids : ~Called(j, RefName(r))
               /\ states[i].unregistered /\ states[i].from = RefName(r)
      <4>1. /\ \A j \in Ids' : ~Called(j, RefName(r))'
            /\ states'[i'].unregistered /\ states'[i'].from = RefName(r)'
        BY ONLY <3>4, <3>5, <3>6, <3>9
      <4> QED BY ONLY <4>1 DEF SourceRight
    <3> QED BY ONLY <3>6, <3>7, <3>8, <3>9
  <2>2. ASSUME NEW k, k = Len(states[cur].sources) + 1, NEW d, d = cur PROVE SourceRight(d, k)'
    <3>1. states'[cur].refs = states[cur].refs BY <1>2, <1>4 DEF SameButLinks
    <3>2. SourceOf(d, k)' = s BY <1>11, <2>2 DEF SourceOf
    <3>3. states'[cur].refs[k] = NextRef BY <2>2, <3>1 DEF NextRef
    <3> QED BY <1>3, <1>9, <1>10, <2>2, <3>2, <3>3 DEF SourceRight, RefName
  <2>3. ASSUME NEW d \in Ids', NEW k \in 1 .. Len(states'[d].sources) PROVE SourceRight(d, k)'
    <3>1. CASE d \in Ids \ {cur} BY <2>1, <3>1
    <3>2. CASE d = cur
      <4>0. k \in 1 .. Len(states'[cur].sources) BY <3>2
      <4>1. k \in 1 .. Len(states[cur].sources) \/ k = Len(states[cur].sources) + 1
        BY ONLY <1>11, <4>0
      <4> QED BY <1>2, <2>1, <2>2, <3>2, <4>1
    <3>3. CASE d \notin Ids BY <1>3, <3>3
    <3> QED BY <3>1, <3>2, <3>3
  <2> QED BY <2>3 DEF SourcesRight
<1>16. TotalCountsPull'
  <2>1. \A d \in 1 .. Len(dockerfile) \cap Ids : TotalAt(d) BY DEF IInv, TotalCountsPull, TotalAt
  <2>2. \A d \in 1 .. Len(dockerfile) \cap Ids : TotalAt(d)' BY <1>4, <2>1 DEF TotalAt, SameButLinks, inputs
  <2>3. 1 .. Len(dockerfile) \cap Ids' = 1 .. Len(dockerfile) \cap Ids BY <1>1, <1>2, <1>3
  <2> QED BY <2>2, <2>3 DEF TotalCountsPull, TotalAt, inputs
<1>17. Kept
  <2>1. DOMAIN states = Ids /\ DOMAIN states' = Ids' BY <1>1, <1>3 DEF Ids
  <2> QED BY <1>3, <1>4, <2>1 DEF Kept
<1>18. TargetRight'
  <2>1. target \in Ids BY <1>1, <1>2 DEF IInv, TargetRight
  <2> QED BY <1>2, <1>9, <1>10, <2>1 DEF IInv, TargetRight, inputs
<1>19. FullyLinked' /\ NoDepCycle'
  <2>1. ASSUME NEW d \in Ids', d < cur \/ d > Len(dockerfile)
        PROVE  Len(states'[d].sources) = Len(states'[d].refs)
    <3>1. CASE d \in Ids
      <4>1. d # cur BY <1>1, <2>1 DEF Linking
      <4> QED BY <1>2, <2>1, <3>1, <4>1 DEF IInv, FullyLinked
    <3>2. CASE d \notin Ids BY <1>3, <3>2
    <3> QED BY <3>1, <3>2
  <2> QED BY <1>2, <2>1 DEF FullyLinked, NoDepCycle, inputs
<1> QED BY <1>18, <1>19, <1>6, <1>7, <1>8, <1>12, <1>13, <1>14, <1>15, <1>16, <1>17 DEF IInv

-----------------------------------------------------------------------------
(* A step that leaves the list and the table alone preserves what is said  *)
(* of them.                                                                *)
LEMMA SameListInv ==
    ASSUME IInv, UNCHANGED <<states, byName>>, UNCHANGED inputs,
           phase' \in {"register", "link", "resolve", "failed"},
           cur' \in 1 .. Len(dockerfile) + 1, target' \in Ids \cup {0},
           err' \in Errors,
           Shape', Unlinked', TargetRight', FullyLinked', NoDepCycle'
    PROVE  IInv' /\ Kept
<1>1. TypeOK' BY DEF IInv, TypeOK, Ids, inputs
<1>2. states' = states /\ byName' = byName /\ dockerfile' = dockerfile /\ Ids' = Ids
  BY DEF inputs, Ids
<1>3. /\ Table' /\ SourcesInIds' /\ DepsLinked' /\ BaseIsEarlier'
      /\ Nearest' /\ SourcesRight' /\ TotalCountsPull'
  <2>1. Table' /\ BaseIsEarlier' BY <1>2 DEF IInv, Table, BaseIsEarlier
  <2>2. \A d, k : SourceOf(d, k)' = SourceOf(d, k) BY <1>2 DEF SourceOf
  <2>3. SourcesInIds' BY <1>2, <2>2 DEF IInv, SourcesInIds
  <2>4. DepsLinked' BY <1>2 DEF IInv, DepsLinked, SourceOf
  <2>5. \A d, n : Called(d, n)' <=> Called(d, n) BY <1>2 DEF Called
  <2>6. Nearest'
    <3>1. \A d \in Ids : NearestAt(d)' <=> NearestAt(d) BY <1>2, <2>5 DEF NearestAt
    <3> QED BY <1>2, <3>1 DEF IInv, Nearest
  <2>7. SourcesRight'
    <3>1. ASSUME NEW d, NEW k PROVE SourceRight(d, k)' <=> SourceRight(d, k)
      <4>1. RefName(states[d].refs[k])' = RefName(states[d].refs[k]) BY <1>2 DEF RefName
      <4>2. SourceOf(d, k)' = SourceOf(d, k) BY <2>2
      <4> HIDE DEF RefName, SourceOf, Called
      <4> QED BY <1>2, <2>5, <4>1, <4>2 DEF SourceRight
    <3> QED BY <1>2, <3>1 DEF IInv, SourcesRight
  <2>8. TotalCountsPull' BY <1>2 DEF IInv, TotalCountsPull
  <2> QED BY <2>1, <2>3, <2>4, <2>6, <2>7, <2>8
<1>4. Kept BY DEF Kept, SameButLinks
<1> QED BY <1>1, <1>3, <1>4 DEF IInv

\* the step that ends the conversion with an error
LEMMA FailInv ==
    ASSUME IInv, NEW e \in Errors,
           Fail(e), UNCHANGED inputs
    PROVE  IInv' /\ Kept
<1>1. phase' = "failed" /\ UNCHANGED <<states, byName, target, cur>> BY DEF Fail
<1>2. Shape' /\ Unlinked' /\ TargetRight' /\ FullyLinked' /\ NoDepCycle'
  BY <1>1 DEF Shape, Unlinked, TargetRight, FullyLinked, NoDepCycle
<1>3. cur' \in 1 .. Len(dockerfile) + 1 /\ target' \in Ids \cup {0}
  BY <1>1 DEF IInv, TypeOK
<1>4. err' \in Errors
  BY DEF Fail
<1> QED BY <1>1, <1>2, <1>3, <1>4, SameListInv

\* the stage that is being registered
LEMMA CurrentFacts ==
    ASSUME IInv, Registering
    PROVE  /\ Current \in Stage
           /\ Current.name # None => Lower[Current.name] = Current.name
<1>1. cur \in 1 .. Len(dockerfile) BY TypeFacts DEF IInv, Registering
<1>2. dockerfile \in Dockerfiles BY DEF IInv, TypeOK
<1> HIDE DEF Stage
<1> QED BY <1>1, <1>2, DockerfileFacts DEF Current

\* the reference that is being linked
LEMMA NextRefFacts ==
    ASSUME IInv, Linking
    PROVE  /\ cur \in Ids
           /\ NextRef \in Ref
           /\ NextRef.kind # "index" => RefName(NextRef) \in Name
<1>1. cur \in Ids BY TypeFacts DEF IInv, Shape, Linking
<1>2. states[cur] \in DispatchState
  <2>1. states \in Seq(DispatchState) /\ Ids = 1 .. Len(states) BY TypeFacts DEF IInv
  <2> HIDE DEF DispatchState
  <2> QED BY <1>1, <2>1
<1>3. states[cur].refs \in Seq(Ref) /\ states[cur].sources \in Seq(Nat)
  <2> HIDE DEF Ref
  <2> QED BY <1>2 DEF DispatchState
<1>4. NextRef \in Ref
  <2>1. Len(states[cur].sources) \in Nat /\ Len(states[cur].refs) \in Nat BY <1>3
  <2>2. Len(states[cur].sources) + 1 \in 1 .. Len(states[cur].refs) BY <2>1 DEF Linking
  <2> HIDE DEF Ref
  <2> QED BY <1>3, <2>2 DEF NextRef
<1>5. NextRef.kind # "index" => RefName(NextRef) \in Name
  BY <1>4, NameAssumption DEF Ref, RefName
<1> QED BY <1>1, <1>4, <1>5

\* a new dispatch state is one
LEMMA NewStateType == NewState \in DispatchState
  <1>1. <<>> \in Seq(Nat) /\ <<>> \in Seq(Ref) OBVIOUS
  <1> QED BY <1>1 DEF NewState, DispatchState

\* linking to a state there was
LEMMA LinkInv ==
    ASSUME IInv, Linking, NEW s \in Ids, states' = Linked(s),
           NextRef.kind # "index" =>
               Called(s, RefName(NextRef)) /\ \A i \in Ids : Called(i, RefName(NextRef)) => i <= s,
           UNCHANGED <<phase, byName, target, cur, err>>, UNCHANGED inputs
    PROVE  IInv' /\ Kept
<1>1. cur \in Ids BY NextRefFacts
<1>2. TypeOK /\ s \in Nat /\ Len(states) \in Nat BY TypeFacts DEF IInv
<1>3. /\ states' \in Seq(DispatchState) /\ Len(states') = Len(states)
      /\ \A i \in Ids \ {cur} : states'[i] = states[i]
      /\ states'[cur].sources = Append(states[cur].sources, s)
      /\ states'[cur].deps = states[cur].deps \cup {s}
      /\ SameButLinks(states'[cur], states[cur])
  BY <1>1, <1>2, LinkedFacts
<1>4. s \in Ids' BY <1>3 DEF Ids
<1>5. Len(states') # Len(states) + 1 BY <1>2, <1>3
<1> QED BY <1>2, <1>3, <1>4, <1>5, GrowInv

\* linking to a new state, for the image of that name
LEMMA LinkImageInv ==
    ASSUME IInv, LinkImage, UNCHANGED inputs
    PROVE  IInv' /\ Kept
<1> DEFINE L == Len(states)
           n == RefName(NextRef)
           image == [NewState EXCEPT !.from = n, !.unregistered = TRUE, !.base = BaseOf(n)]
<1>1. Linking /\ NextRef.kind # "index" /\ ~Found(n) /\ states' = Append(Linked(L + 1), image)
  BY DEF LinkImage
<1>2. cur \in Ids /\ n \in Name BY <1>1, NextRefFacts
<1>3. TypeOK /\ L \in Nat /\ Ids = 1 .. L BY TypeFacts DEF IInv
<1>4. \A i \in Ids : ~Called(i, n) BY <1>1 DEF Found, Called, IInv, Table
<1>5. BaseOf(n) = 0
  <2>1. ASSUME n \in DOMAIN byName PROVE FALSE
    <3>1. byName[n] \in Ids /\ states[byName[n]].name = n BY <2>1, TypeFacts DEF IInv, Table
    <3>2. n # None BY <1>2, NameAssumption
    <3>3. Lower[n] = n BY <3>1, <3>2 DEF IInv, Table
    <3> QED BY <1>1, <2>1, <3>3 DEF Found
  <2> QED BY <2>1 DEF BaseOf
<1>6. /\ image \in DispatchState /\ image.sources = <<>> /\ image.deps = {} /\ image.refs = <<>>
      /\ image.name = None /\ image.base = 0 /\ image.from = n /\ image.unregistered
  <2> HIDE DEF n
  <2> DEFINE a == [NewState EXCEPT !.from = n]
             b == [a EXCEPT !.unregistered = TRUE]
             c == [b EXCEPT !.base = 0]
  <2>1. a \in DispatchState /\ SameButFrom(a, NewState) /\ a.from = n
    BY <1>2, NewStateType DEF DispatchState, SameButFrom
  <2> HIDE DEF a
  <2>2. b \in DispatchState /\ SameButFrom(b, a) /\ b.from = n /\ b.unregistered
    BY <2>1 DEF DispatchState, SameButFrom
  <2> HIDE DEF b
  <2>3. c \in DispatchState /\ SameButFrom(c, b) /\ c.from = n /\ c.unregistered /\ c.base = 0
    BY <2>2 DEF DispatchState, SameButFrom
  <2>4. image = c BY <1>5 DEF a, b
  <2> HIDE DEF c, image
  <2> QED BY <2>1, <2>2, <2>3, <2>4 DEF SameButFrom, NewState
<1> HIDE DEF image
<1>7. /\ Linked(L + 1) \in Seq(DispatchState) /\ Len(Linked(L + 1)) = L
      /\ \A i \in Ids \ {cur} : Linked(L + 1)[i] = states[i]
      /\ Linked(L + 1)[cur].sources = Append(states[cur].sources, L + 1)
      /\ Linked(L + 1)[cur].deps = states[cur].deps \cup {L + 1}
      /\ SameButLinks(Linked(L + 1)[cur], states[cur])
  BY <1>2, <1>3, LinkedFacts
<1>8. /\ states' \in Seq(DispatchState) /\ Len(states') = L + 1
      /\ \A i \in Ids : states'[i] = Linked(L + 1)[i]
      /\ states'[L + 1] = image
  <2> HIDE DEF L
  <2> QED BY <1>1, <1>3, <1>6, <1>7, AppendFacts
<1>9. L + 1 \in Ids' /\ L + 1 \in Nat BY <1>3, <1>8 DEF Ids
<1>10. UNCHANGED <<phase, byName, target, cur, err>> BY DEF LinkImage
<1>11. /\ states'[L + 1].sources = <<>> /\ states'[L + 1].deps = {}
       /\ states'[L + 1].name = None /\ states'[L + 1].base = 0
       /\ states'[L + 1].refs = <<>> /\ states'[L + 1].unregistered
       /\ states'[L + 1].from = n
  BY <1>6, <1>8
<1>12. /\ \A i \in Ids \ {cur} : states'[i] = states[i]
       /\ SameButLinks(states'[cur], states[cur])
       /\ states'[cur].sources = Append(states[cur].sources, L + 1)
       /\ states'[cur].deps = states[cur].deps \cup {L + 1}
  BY <1>2, <1>7, <1>8 DEF SameButLinks
<1>13. \A i \in Ids : ~Called(i, states'[L + 1].from) BY <1>4, <1>11
<1>14. /\ \A i \in Ids : ~Called(i, RefName(NextRef))
       /\ states'[L + 1].from = RefName(NextRef)
  BY <1>4, <1>11
<1> HIDE DEF n, L
<1> QED BY <1>1, <1>3, <1>8, <1>9, <1>10, <1>11, <1>12, <1>13, <1>14, GrowInv DEF L

-----------------------------------------------------------------------------
(* The inductive invariant.                                                *)
\* the list is empty and so is the table
LEMMA InitIInv == Init => IInv
<1> SUFFICES ASSUME Init PROVE IInv OBVIOUS
<1>1. /\ states = <<>> /\ byName = [n \in {} |-> 0] /\ target = 0 /\ cur = 1 /\ phase = "register"
      /\ dockerfile \in Dockerfiles /\ overrides \in Overrides /\ targetOpt \in Targets /\ err = "none"
      /\ err \in Errors
  BY DEF Init, Errors
<1>2. Ids = {} /\ Len(states) = 0 /\ DOMAIN byName = {} BY <1>1 DEF Ids
<1>3. Len(dockerfile) \in Nat \ {0} BY <1>1, DockerfileFacts
<1>4. TypeOK
  <2>1. states \in Seq(DispatchState)
    <3> HIDE DEF DispatchState
    <3> QED BY <1>1
  <2> QED BY <1>1, <1>2, <1>3, <2>1 DEF TypeOK
<1>5. Shape /\ Unlinked /\ Table /\ SourcesInIds /\ DepsLinked /\ BaseIsEarlier /\ Nearest /\ SourcesRight
  BY <1>1, <1>2 DEF Shape, Unlinked, Table, SourcesInIds, DepsLinked, BaseIsEarlier, Nearest, SourcesRight
<1>6. TotalCountsPull /\ TargetRight /\ FullyLinked /\ NoDepCycle
  BY <1>1, <1>2 DEF TotalCountsPull, TargetRight, FullyLinked, NoDepCycle
<1> QED BY <1>4, <1>5, <1>6 DEF IInv

\* every step keeps the invariant, and what was decided about the states in the list
LEMMA NextIInv == ASSUME IInv, [Next]_vars PROVE IInv' /\ (Next => Kept)
<1>1. CASE UNCHANGED vars
  <2>1. IInv'
    <3>1. /\ UNCHANGED <<states, byName, phase, cur, target, err>> /\ UNCHANGED inputs
          /\ UNCHANGED <<dockerfile, targetOpt>>
      BY <1>1 DEF vars, inputs
    <3>2. Shape' /\ Unlinked' BY <3>1 DEF IInv, Shape, Unlinked, Ids
    <3>3. TargetRight' BY <3>1 DEF IInv, TargetRight, Called, Ids
    <3>4. FullyLinked' /\ NoDepCycle' BY <3>1 DEF IInv, FullyLinked, NoDepCycle, Deps, Ids
    <3> QED BY <3>1, <3>2, <3>3, <3>4, SameListInv DEF IInv, TypeOK
  <2>2. Kept BY <1>1 DEF vars, Kept, SameButLinks
  <2> QED BY <2>1, <2>2
<1>2. CASE Next
  <2> USE <1>2
  <2>0. UNCHANGED inputs BY DEF Next
  <2>1. CASE BadBase BY <2>0, <2>1, FailInv DEF BadBase, Errors
  <2>2. CASE ContextError BY <2>0, <2>2, FailInv DEF ContextError, Errors
  <2>3. CASE BadPlatform BY <2>0, <2>3, FailInv DEF BadPlatform, Errors
  <2>4. CASE NoSuchTarget BY <2>0, <2>4, FailInv DEF NoSuchTarget, Errors
  <2>5. CASE BadIndex BY <2>0, <2>5, FailInv DEF BadIndex, Errors
  <2>6. CASE OverrideStage
    <3> DEFINE ds == [NewState EXCEPT !.noinit = TRUE]
    <3>1. /\ ds \in DispatchState /\ ds.sources = <<>> /\ ds.deps = {} /\ ds.name = None /\ ds.noinit
      BY NewStateType DEF NewState, DispatchState
    <3>2. Registering /\ AddState(ds) /\ NextStage BY <2>6 DEF OverrideStage
    <3> HIDE DEF ds
    <3> QED BY <2>0, <3>1, <3>2, RegisterInv
  <2>7. CASE RegisterStage
    <3> DEFINE pulls == Current.from # Scratch /\ BaseOf(Current.from) = 0
               total == Current.steps + (IF pulls THEN 1 ELSE 0)
               ds == [NewState EXCEPT !.name = Current.name, !.from = Current.from,
                                      !.refs = Current.refs, !.total = total]
    <3>1. Registering /\ AddState(ds) /\ NextStage BY <2>7 DEF RegisterStage
    <3>2. Current \in Stage /\ (Current.name # None => Lower[Current.name] = Current.name)
      BY <3>1, CurrentFacts
    <3>3. /\ Current.name \in Name \cup {None} /\ Current.from \in Name \cup {None}
          /\ Current.refs \in Seq(Ref) /\ Current.steps \in Nat /\ total \in Nat
      <4> HIDE DEF Ref
      <4> QED BY <3>2 DEF Stage
    <3>4. /\ ds \in DispatchState /\ ds.sources = <<>> /\ ds.deps = {}
          /\ ds.name = Current.name /\ ds.from = Current.from /\ ds.total = total
      <4> DEFINE a == [NewState EXCEPT !.name = Current.name]
                 b == [a EXCEPT !.from = Current.from]
                 c == [b EXCEPT !.refs = Current.refs]
                 d == [c EXCEPT !.total = total]
      <4>0. NewState \in DispatchState /\ NewState.sources = <<>> /\ NewState.deps = {}
        BY NewStateType DEF NewState
      <4> HIDE DEF total, Ref
      <4>1. a \in DispatchState /\ a.sources = <<>> /\ a.deps = {} /\ a.name = Current.name
        BY <3>3, <4>0 DEF DispatchState
      <4> HIDE DEF a
      <4>2. /\ b \in DispatchState /\ b.sources = <<>> /\ b.deps = {} /\ b.name = Current.name
            /\ b.from = Current.from
        BY <3>3, <4>1 DEF DispatchState
      <4> HIDE DEF b
      <4>3. /\ c \in DispatchState /\ c.sources = <<>> /\ c.deps = {} /\ c.name = Current.name
            /\ c.from = Current.from
        BY <3>3, <4>2 DEF DispatchState
      <4> HIDE DEF c
      <4>4. /\ d \in DispatchState /\ d.sources = <<>> /\ d.deps = {} /\ d.name = Current.name
            /\ d.from = Current.from /\ d.total = total
        BY <3>3, <4>3 DEF DispatchState
      <4>5. ds = d BY DEF a, b, c
      <4> HIDE DEF d, ds
      <4> QED BY <4>4, <4>5
    <3>5. ds.total = dockerfile[cur].steps + (IF BaseOf(ds.from) = 0 /\ ds.from # Scratch THEN 1 ELSE 0)
      <4> HIDE DEF ds
      <4> QED BY <3>4 DEF Current
    <3> HIDE DEF ds
    <3> QED BY <2>0, <3>1, <3>2, <3>4, <3>5, RegisterInv
  <2>8. CASE PickTarget
    <3>1. /\ phase = "register" /\ cur > Len(dockerfile) /\ phase' = "link" /\ cur' = 1
          /\ UNCHANGED <<states, byName, err, dockerfile, targetOpt>>
      BY <2>0, <2>8 DEF PickTarget, inputs
    <3>2. /\ Len(dockerfile) \in Nat \ {0} /\ Len(states) = Len(dockerfile) /\ Ids = 1 .. Len(states)
          /\ Ids' = Ids
      BY <3>1, TypeFacts DEF IInv, Shape, Ids
    <3>3. Shape' /\ Unlinked' /\ NoDepCycle' BY <3>1, <3>2 DEF Shape, Unlinked, NoDepCycle
    <3>4. FullyLinked' BY <3>1, <3>2 DEF FullyLinked
    <3>5. TargetRight'
      <4>1. CASE targetOpt = None
        BY <2>8, <3>1, <3>2, <4>1 DEF PickTarget, TargetRight
      <4>2. CASE targetOpt # None
        <5>1. Lower[targetOpt] \in DOMAIN byName /\ target' = byName[Lower[targetOpt]]
          BY <2>8, <4>2 DEF PickTarget, Found
        <5>2. target' \in Ids /\ states[target'].name = Lower[targetOpt] /\ states[target'].name # None
          BY <5>1, TypeFacts DEF IInv, Table
        <5>3. \A i \in Ids : states[i].name # None /\ states[i].name = Lower[targetOpt] => i <= target'
          BY <5>1 DEF IInv, Table
        <5> QED BY <3>1, <3>2, <4>2, <5>2, <5>3 DEF TargetRight, Called
      <4> QED BY <4>1, <4>2
    <3>6. target' \in Ids \cup {0} BY <3>1, <3>2, <3>5 DEF TargetRight
    <3>7. cur' \in 1 .. Len(dockerfile) + 1 /\ err' \in Errors
      <4>1. err \in Errors BY DEF IInv, TypeOK
      <4> QED BY <3>1, <3>2, <4>1
    <3> QED BY <2>0, <3>1, <3>3, <3>4, <3>5, <3>6, <3>7, SameListInv
  <2>9. CASE LinkIndex
    <3>1. Len(states) \in Nat BY TypeFacts DEF IInv
    <3>2. /\ Linking /\ NextRef.kind = "index" /\ NextRef.index + 1 \in Ids
          /\ states' = Linked(NextRef.index + 1)
          /\ UNCHANGED <<phase, byName, target, cur, err>>
      BY <2>9, <3>1 DEF LinkIndex, Ids
    <3> QED BY <2>0, <3>2, LinkInv
  <2>10. CASE LinkStage
    <3> DEFINE n == RefName(NextRef)
               s == byName[Lower[n]]
    <3>1. /\ Linking /\ NextRef.kind # "index" /\ Lower[n] \in DOMAIN byName /\ states' = Linked(s)
          /\ UNCHANGED <<phase, byName, target, cur, err>>
      BY <2>10 DEF LinkStage, Found
    <3>2. n \in Name /\ n # None BY <3>1, NextRefFacts, NameAssumption
    <3>3. s \in Ids /\ states[s].name = Lower[n] /\ Lower[n] # None BY <3>1, TypeFacts DEF IInv, Table
    <3>4. Called(s, n) BY <3>2, <3>3 DEF Called
    <3>5. \A i \in Ids : Called(i, n) => i <= s BY <3>1 DEF Called, IInv, Table
    <3> HIDE DEF s
    <3> QED BY <2>0, <3>1, <3>3, <3>4, <3>5, LinkInv
  <2>11. CASE LinkImage BY <2>0, <2>11, LinkImageInv
  <2>12. CASE NextStageToLink
    <3>1. /\ phase = "link" /\ phase' = "link" /\ cur <= Len(dockerfile) /\ cur' = cur + 1
          /\ UNCHANGED <<states, byName, target, err, dockerfile, targetOpt>>
          /\ Len(states[cur].sources) = Len(states[cur].refs)
      BY <2>0, <2>12 DEF NextStageToLink, inputs
    <3>2. cur \in 1 .. Len(dockerfile) + 1 /\ Len(dockerfile) \in Nat /\ target \in Ids \cup {0} /\ cur \in Nat
          /\ Ids = 1 .. Len(states) /\ Ids' = Ids
      BY <3>1, TypeFacts DEF IInv, Ids
    <3>3. Shape' /\ Unlinked' /\ NoDepCycle' BY <3>1 DEF IInv, Shape, Unlinked, NoDepCycle
    <3>4. TargetRight' BY <3>1, <3>2 DEF IInv, TargetRight, Called
    <3>5. FullyLinked'
      <4>1. \A d \in Ids : d < cur + 1 => d < cur \/ d = cur BY <3>2
      <4> QED BY <3>1, <3>2, <4>1 DEF IInv, FullyLinked
    <3>6. cur' \in 1 .. Len(dockerfile) + 1 /\ target' \in Ids \cup {0} /\ err' \in Errors
      <4>1. err \in Errors BY DEF IInv, TypeOK
      <4> QED BY <3>1, <3>2, <4>1
    <3> QED BY <2>0, <3>1, <3>3, <3>4, <3>5, <3>6, SameListInv
  <2>13. CASE CheckCircular
    <3>1. CASE Cyclic(Deps) BY <2>0, <2>13, <3>1, FailInv DEF CheckCircular, Errors
    <3>2. CASE ~Cyclic(Deps)
      <4>1. /\ phase = "link" /\ phase' = "resolve" /\ cur > Len(dockerfile)
            /\ UNCHANGED <<states, byName, target, cur, dockerfile, targetOpt>> /\ err' = err
        BY <2>0, <2>13, <3>2 DEF CheckCircular, inputs
      <4>2. cur \in 1 .. Len(dockerfile) + 1 /\ Len(dockerfile) \in Nat /\ target \in Ids \cup {0}
            /\ Ids = 1 .. Len(states) /\ Ids' = Ids /\ Len(states) \in Nat
        BY <4>1, TypeFacts DEF IInv, Ids
      <4>3. Shape' /\ Unlinked' BY <4>1 DEF IInv, Shape, Unlinked
      <4>4. NoDepCycle' BY <3>2, <4>1, <4>2 DEF NoDepCycle, Deps
      <4>5. TargetRight' BY <4>1, <4>2 DEF IInv, TargetRight, Called
      <4>6. FullyLinked' BY <4>1, <4>2 DEF IInv, FullyLinked
      <4>7. cur' \in 1 .. Len(dockerfile) + 1 /\ target' \in Ids \cup {0} /\ err' \in Errors
        <5>1. err \in Errors BY DEF IInv, TypeOK
        <5> QED BY <4>1, <4>2, <5>1
      <4> QED BY <2>0, <4>1, <4>3, <4>4, <4>5, <4>6, <4>7, SameListInv
    <3> QED BY <3>1, <3>2
  <2> QED BY <2>1, <2>2, <2>3, <2>4, <2>5, <2>6, <2>7, <2>8, <2>9, <2>10, <2>11, <2>12, <2>13 DEF Next
<1> QED BY <1>1, <1>2

(* Whatever Dockerfiles, contexts and targets: the invariant always holds. *)
THEOREM Invariance == Spec => []IInv
<1>1. Init => IInv BY InitIInv
<1>2. IInv /\ [Next]_vars => IInv' BY NextIInv
<1> QED BY <1>1, <1>2, PTL DEF Spec

-----------------------------------------------------------------------------
(* What the invariant means for the properties of StageGraph.              *)
\* the names of the invariant are those of the properties
LEMMA NamedAreCalled == \A n : StagesNamed(n) = {i \in Ids : Called(i, n)}
  BY DEF StagesNamed, Called

\* a base that is nearest in the invariant's sense is the one FROM means
LEMMA IInvNearest == IInv => BaseIsNearest
<1> SUFFICES ASSUME IInv, NEW d \in Ids
             PROVE  LET earlier == {i \in StagesNamed(states[d].from) : i < d}
                        b == states[d].base
                    IN  IF b = 0
                        THEN states[d].from # None /\ Lower[states[d].from] = states[d].from
                               => earlier = {}
                        ELSE b \in earlier /\ \A i \in earlier : i <= b
  BY DEF BaseIsNearest
<1>1. NearestAt(d) /\ states[d].base < d /\ states[d].base \in Ids \cup {0}
  BY DEF IInv, Nearest, BaseIsEarlier, TypeOK
<1> QED BY <1>1, NamedAreCalled DEF NearestAt

\* so is a source
LEMMA IInvSources == IInv => SourcesAreStages
<1> SUFFICES ASSUME IInv, NEW d \in Ids, NEW k \in 1 .. Len(states[d].sources),
                    states[d].refs[k].kind # "index"
             PROVE  LET r == states[d].refs[k]
                        named == StagesNamed(RefName(r))
                    IN  IF named # {}
                        THEN SourceOf(d, k) \in named /\ \A i \in named : i <= SourceOf(d, k)
                        ELSE states[SourceOf(d, k)].unregistered /\ states[SourceOf(d, k)].from = RefName(r)
  BY DEF SourcesAreStages
<1>1. SourceRight(d, k) /\ SourceOf(d, k) \in Ids BY DEF IInv, SourcesRight, SourcesInIds
<1> HIDE DEF SourceOf, RefName
<1> QED BY <1>1, NamedAreCalled DEF SourceRight

\* and the target
LEMMA IInvTarget == IInv => TargetIsStage
<1> SUFFICES ASSUME IInv, phase \in {"link", "resolve"} PROVE TargetIsStage
  BY DEF TargetIsStage
<1>1. target \in Ids BY TypeFacts DEF IInv, TargetRight, Shape
<1> QED BY <1>1, NamedAreCalled DEF IInv, TargetRight, TargetIsStage

\* A set of states each of which leads into the set has a least one, which leads forward;
\* since the dependencies alone have no cycle, some member leads to its base.
LEMMA IInvForward == IInv => CyclesGoForward
<1> SUFFICES ASSUME IInv, phase = "resolve", NEW S \in SUBSET Ids, Recurrent(S, Edges)
             PROVE  /\ \E d \in S : \E s \in states[d].deps \cap S : s > d
                    /\ \E b \in S : states[b].base \in S
  BY DEF CyclesGoForward
<1>1. /\ S # {} /\ ~Cyclic(Deps) /\ Ids \subseteq Nat
      /\ \A d \in S : (states[d].deps \cup ({states[d].base} \ {0})) \cap S # {}
      /\ \A d \in S : states[d].base < d /\ states[d].base \in Nat
  <2>1. Ids \subseteq Nat BY TypeFacts DEF IInv
  <2>2. S # {} /\ \A d \in S : Edges[d] \cap S # {} BY DEF Recurrent
  <2>3. \A d \in S : Edges[d] = states[d].deps \cup ({states[d].base} \ {0}) BY DEF Edges
  <2>4. \A d \in S : states[d].base \in Ids \cup {0} BY DEF IInv, TypeOK
  <2>5. ASSUME NEW d \in S PROVE states[d].base \in Nat
    <3>1. CASE states[d].base = 0 BY <3>1
    <3>2. CASE states[d].base \in Ids BY ONLY <2>1, <3>2
    <3> QED BY <2>4, <3>1, <3>2
  <2> QED BY <2>1, <2>2, <2>3, <2>5 DEF IInv, NoDepCycle, BaseIsEarlier
<1>2. DOMAIN Deps = Ids /\ \A d \in Ids : Deps[d] = states[d].deps BY DEF Deps
<1>3. \E b \in S : states[b].base \in S
  <2> SUFFICES ASSUME \A b \in S : states[b].base \notin S PROVE FALSE OBVIOUS
  <2>1. \A d \in S : Deps[d] \cap S # {} BY <1>1, <1>2
  <2>2. Recurrent(S, Deps) BY <1>1, <2>1 DEF Recurrent
  <2> QED BY <1>1, <1>2, <2>2 DEF Cyclic
<1>4. \E d \in S : \E s \in states[d].deps \cap S : s > d
  <2>1. PICK m \in S : \A n \in S : m <= n BY <1>1, NatMin
  <2>2. states[m].base \notin S BY <1>1, <2>1
  <2>3. PICK s \in states[m].deps \cap S : TRUE BY <1>1, <2>2
  <2>4. s # m
    <3> SUFFICES ASSUME s = m PROVE FALSE OBVIOUS
    <3>1. Recurrent({m}, Deps) BY <1>2, <2>3 DEF Recurrent
    <3> QED BY <1>1, <1>2, <3>1 DEF Cyclic
  <2>5. s \in S /\ m \in Nat /\ s \in Nat /\ m <= s BY <1>1, <2>1, <2>3
  <2>6. s > m BY <2>4, <2>5
  <2> QED BY <2>3, <2>6
<1> QED BY <1>3, <1>4

-----------------------------------------------------------------------------
(* The list, the table and the links are always well-formed: newDispatch-  *)
(* States, addState and the linking loop never make a dangling reference.  *)
THEOREM TypeCorrect == Spec => []TypeOK
<1>1. IInv => TypeOK BY DEF IInv
<1> QED BY <1>1, Invariance, PTL

(* FROM leads to the nearest earlier stage of that name, in any Dockerfile *)
(* and although statesByName is overwritten by later stages.               *)
THEOREM BaseCorrect == Spec => [](BaseIsEarlier /\ BaseIsNearest)
<1>1. IInv => BaseIsEarlier /\ BaseIsNearest BY IInvNearest DEF IInv
<1> QED BY <1>1, Invariance, PTL

(* toCommand and detectRunMount link COPY --from and RUN --mount to the    *)
(* last stage of that name, or to an image.                                *)
THEOREM SourcesCorrect == Spec => []SourcesAreStages
<1> QED BY IInvSources, Invariance, PTL

(* The deps that the cycle check and isReachable go by are the sources of  *)
(* the commands, all of them.                                              *)
THEOREM DepsCorrect == Spec => []DepsAreSources
<1>1. IInv => DepsAreSources BY DEF IInv, DepsLinked, FullyLinked, DepsAreSources
<1> QED BY <1>1, Invariance, PTL

(* cmdTotal counts the pull of a base image when there will be one.        *)
THEOREM TotalCorrect == Spec => []TotalCountsPull
<1>1. IInv => TotalCountsPull BY DEF IInv
<1> QED BY <1>1, Invariance, PTL

(* findStateByName and lastTarget give the stage --target asks for.        *)
THEOREM TargetCorrect == Spec => []TargetIsStage
<1> QED BY IInvTarget, Invariance, PTL

(* The cycles hasCircularDependency does not see are those of a FROM and a *)
(* reference to a later stage.                                             *)
THEOREM ForwardCycles == Spec => []CyclesGoForward
<1> QED BY IInvForward, Invariance, PTL

(* No step of the registration or of the linking moves a state or changes  *)
(* what was decided about it.                                              *)
THEOREM Stable == Spec => PositionsStable
<1>1. IInv /\ [Next]_vars =>
        [\A d \in Ids :
           /\ d \in DOMAIN states'
           /\ states'[d].name = states[d].name /\ states'[d].from = states[d].from
           /\ states'[d].base = states[d].base /\ states'[d].total = states[d].total
           /\ states[d].deps \subseteq states'[d].deps]_states
  <2> SUFFICES ASSUME IInv, Next, NEW d \in Ids
               PROVE  /\ d \in DOMAIN states'
                      /\ states'[d].name = states[d].name /\ states'[d].from = states[d].from
                      /\ states'[d].base = states[d].base /\ states'[d].total = states[d].total
                      /\ states[d].deps \subseteq states'[d].deps
    BY DEF vars
  <2>1. Kept BY NextIInv
  <2>2. d \in DOMAIN states
    <3> HIDE DEF DispatchState
    <3> QED BY TypeFacts DEF IInv
  <2> QED BY <2>1, <2>2 DEF Kept, SameButLinks
<1> QED BY <1>1, Invariance, PTL DEF PositionsStable, Spec
=============================================================================
