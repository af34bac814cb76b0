-------------------------- MODULE LineParser_proofs --------------------------
(***************************************************************************)
(* For any Dockerfiles: an instruction goes on exactly where a line ends   *)
(* in the escape token that was chosen, a heredoc is the lines up to its   *)
(* delimiter, and no line is lost or read twice.                           *)
(***************************************************************************)
EXTENDS LineParser, FiniteSetTheorems, WellFoundedInduction, TLAPS

-----------------------------------------------------------------------------
(* Induction for the provers at hand, which cannot instantiate a theorem   *)
(* about an operator: it is stated of a set of numbers, and recursion of   *)
(* a function F whose F[i] is what the i-th step does.                     *)

\* A nonempty set of numbers has a least one.
LEMMA NatMin ==
    ASSUME NEW S \in SUBSET Nat, S # {}
    PROVE  \E m \in S : \A n \in S : m <= n
<1> DEFINE R == {p \in Nat \X Nat : p[1] < p[2]}
<1>1. R = OpToRel(<, Nat) BY DEF OpToRel
<1>2. IsWellFoundedOn(R, Nat) BY <1>1, NatLessThanWellFounded
<1>3. PICK m \in S : \A n \in S : <<n, m>> \notin R BY <1>2, WFMin
<1>4. ASSUME NEW n \in S PROVE m <= n
  <2>1. m \in Nat /\ n \in Nat OBVIOUS
  <2>2. n < m => <<n, m>> \in R BY <2>1
  <2> QED BY <1>3, <2>1, <2>2
<1> QED BY <1>4

\* A set that has 0 and, with every number, the next has all numbers.
LEMMA SetInduction ==
    ASSUME NEW n \in Nat, NEW S, 0 \in S, \A i \in 1 .. n : i - 1 \in S => i \in S
    PROVE  0 .. n \subseteq S
<1> DEFINE T == 0 .. n \ S
<1> SUFFICES ASSUME T # {} PROVE FALSE
  OBVIOUS
<1>1. T \in SUBSET Nat OBVIOUS
<1>2. PICK m \in T : \A k \in T : m <= k BY <1>1, NatMin
<1>3. m \in 1 .. n /\ m - 1 \in 0 .. n BY <1>2
<1>4. m - 1 \notin T BY <1>2, <1>3
<1> QED BY <1>2, <1>3, <1>4

\* n steps on values of X, and the functions that do the first i of them from b
Steps(X, n) == [1 .. n -> [X -> X]]
Runs(X, n, F, b) == {h \in [0 .. n -> X] : h[0] = b /\ \A i \in 1 .. n : h[i] = F[i][h[i - 1]]}

\* There is a function that does any number of steps.
LEMMA Recursion ==
    ASSUME NEW X, NEW n \in Nat, NEW F \in Steps(X, n), NEW b \in X
    PROVE  Runs(X, n, F, b) # {}
<1> DEFINE Upto(m) == {h \in [0 .. m -> X] :
                         h[0] = b /\ \A i \in 1 .. m : h[i] = F[i][h[i - 1]]}
           S == {m \in 0 .. n : Upto(m) # {}}
<1>1. 0 \in S
  <2> DEFINE h == [i \in 0 .. 0 |-> b]
  <2>1. h \in Upto(0) OBVIOUS
  <2> QED BY <2>1
<1>2. ASSUME NEW i \in 1 .. n, i - 1 \in S PROVE i \in S
  <2>1. PICK h : h \in Upto(i - 1) BY <1>2
  <2> DEFINE g == [j \in 0 .. i |-> IF j = i THEN F[i][h[i - 1]] ELSE h[j]]
  <2>2. h \in [0 .. i - 1 -> X] /\ h[0] = b /\ \A j \in 1 .. i - 1 : h[j] = F[j][h[j - 1]]
    BY <2>1
  <2>3. h[i - 1] \in X /\ F[i] \in [X -> X] BY <2>2 DEF Steps
  <2>4. g \in [0 .. i -> X] BY <2>2, <2>3
  <2>5. g[0] = b BY <2>2
  <2>6. ASSUME NEW j \in 1 .. i PROVE g[j] = F[j][g[j - 1]]
    <3>1. g[j - 1] = h[j - 1] BY <2>6
    <3>2. CASE j = i BY <3>1, <3>2
    <3>3. CASE j # i BY <2>2, <3>1, <3>3
    <3> QED BY <3>2, <3>3
  <2>7. g \in Upto(i) BY <2>4, <2>5, <2>6
  <2> QED BY <2>7
<1> HIDE DEF S
<1>3. 0 .. n \subseteq S BY <1>1, <1>2, SetInduction
<1>4. Upto(n) # {} BY <1>3 DEF S
<1> QED BY <1>4 DEF Runs

-----------------------------------------------------------------------------
Child == [start : Nat, end : Nat, pieces : Seq(Nat), docs : Seq(Doc), bodies : Seq(Seq(Nat)),
          ends : Seq(Nat), comments : Seq(Nat), warned : BOOLEAN]

Making == {"continuation", "node", "heredoc"}

TypeInv ==
    /\ lines \in Files /\ lines \in Seq(Line)
    /\ pos \in Nat /\ pos <= Len(lines)
    /\ scan \in {"ok", "overlong", "spent"}
    /\ phase \in {"first", "end", "done"} \cup Making
    /\ escape \in Tokens /\ done \in BOOLEAN
    /\ comments \in Seq(Nat)
    /\ child \in Child
    /\ \A k \in DOMAIN child.pieces :
         child.pieces[k] \in 1 .. pos /\ lines[child.pieces[k]].kind = "text"
    /\ Len(child.bodies) \in {Len(child.ends), Len(child.ends) + 1}
    /\ todo \in Seq(Doc)
    /\ children \in Seq(Child)
    /\ phase = "done" <=> outcome # "running"

\* the directives read so far are all there are once one line is none
HeadInv ==
    outcome # "directive" =>
    LET read == Directives \cap 1 .. pos
    IN  /\ IF done THEN Directives \subseteq 1 .. pos ELSE 1 .. pos \subseteq Directives
        /\ seen = {lines[i].key : i \in read}
        /\ \A i, j \in read : lines[i].key = lines[j].key => i = j
        /\ \A i \in read : lines[i].key = "escape" => escape = lines[i].value
        /\ (\A i \in read : lines[i].key # "escape") => escape = Backslash
        /\ phase \in Making => done

\* a parse that may still succeed, or has
Good == scan = "ok" /\ outcome \in {"running", "parsed"}

FileInv == /\ \A i \in 1 .. pos : ~IsLong(i)
           /\ phase \in {"end", "done"} => pos = Len(lines)

LastPiece(c) == c.pieces[Len(c.pieces)]

\* the lines of an instruction, which may be missing comments and blank ones in between
Joined(c) ==
    /\ Len(c.pieces) >= 1 /\ c.pieces[1] = c.start
    /\ c.start >= 1 /\ c.start <= LastPiece(c) /\ LastPiece(c) <= Len(lines)
    /\ \A k \in DOMAIN c.pieces : c.pieces[k] \in c.start .. LastPiece(c)
    /\ \A k \in 1 .. Len(c.pieces) - 1 :
         /\ lines[c.pieces[k]].last = MeantEscape
         /\ \A i \in c.pieces[k] + 1 .. c.pieces[k + 1] - 1 : Silent(i)
    /\ \A i \in c.start .. LastPiece(c) : i \in PiecesOf(c) \/ Silent(i)

\* the last line of an instruction: the end of the file if it should have gone on
Made(c) == IF lines[LastPiece(c)].last = MeantEscape THEN Len(lines) ELSE LastPiece(c)

Before(c, k) == IF k = 1 THEN Made(c) ELSE c.ends[k - 1]

\* the body of the k-th heredoc, as far as it is read, and its end
BodyRead(c, k) ==
    /\ c.bodies[k] = [j \in 1 .. Len(c.bodies[k]) |-> Before(c, k) + j]
    /\ \A j \in DOMAIN c.bodies[k] :
         c.bodies[k][j] \in DOMAIN lines /\ ~Ends(lines[c.bodies[k][j]], c.docs[k])
BodyEnded(c, k) ==
    /\ c.ends[k] = Before(c, k) + Len(c.bodies[k]) + 1
    /\ c.ends[k] \in DOMAIN lines /\ Ends(lines[c.ends[k]], c.docs[k])

\* every line after the instruction up to p is in a body or ends one
Split(c, p) ==
    /\ BodyLinesOf(c) \cup EndsOf(c) = Made(c) + 1 .. p
    /\ BodyLinesOf(c) \cap EndsOf(c) = {}

Instruction(c) == Joined(c) /\ \A i \in LastPiece(c) + 1 .. Made(c) : Silent(i)

Whole(c) ==
    /\ Instruction(c)
    /\ Len(c.ends) = Len(c.docs) /\ Len(c.bodies) = Len(c.docs)
    /\ \A k \in DOMAIN c.docs : BodyRead(c, k) /\ BodyEnded(c, k)
    /\ c.end = Before(c, Len(c.docs) + 1) /\ c.end >= Made(c)
    /\ Split(c, c.end)

\* node c with heredocs t left to read, after line p
Reading(c, t, p) ==
    LET b == Len(c.bodies)
        e == Len(c.ends)
    IN  /\ Instruction(c)
        /\ b \in {e, e + 1} /\ b <= Len(c.docs)
        /\ Len(t) = Len(c.docs) - e
        /\ \A k \in DOMAIN t : t[k] = c.docs[e + k]
        /\ \A k \in 1 .. b : BodyRead(c, k)
        /\ \A k \in 1 .. e : BodyEnded(c, k)
        /\ p = IF b = e THEN Before(c, e + 1) ELSE Before(c, b) + Len(c.bodies[b])
        /\ p >= Made(c)
        /\ Split(c, p)

ChildInv ==
    /\ phase = "continuation" =>
         /\ Joined(child) /\ lines[LastPiece(child)].last = MeantEscape
         /\ \A i \in LastPiece(child) + 1 .. pos : Silent(i)
    /\ phase = "node" => Instruction(child) /\ pos = Made(child)
    /\ phase \in {"continuation", "node"} =>
         child.docs = <<>> /\ child.bodies = <<>> /\ child.ends = <<>>
    /\ phase = "heredoc" => Reading(child, todo, pos)

\* where the last node ended, and where the next begins or may begin
LastEnd == IF children = <<>> THEN 0 ELSE children[Len(children)].end
Begin == IF phase \in Making THEN child.start ELSE pos + 1
GapInv ==
    /\ LastEnd < Begin /\ Begin <= pos + 1 /\ (phase \in Making => Begin <= pos)
    /\ \A i \in LastEnd + 1 .. Begin - 1 : Silent(i)
    /\ \A k \in DOMAIN comments : comments[k] \in LastEnd + 1 .. Begin - 1
    /\ phase = "heredoc" => child.comments = comments

LinesOf(c) == children[c].start .. children[c].end
ChildrenInv ==
    /\ \A c \in DOMAIN children : Whole(children[c])
    /\ \A c, d \in DOMAIN children : c < d => children[c].end < children[d].start
    /\ \A i \in 1 .. LastEnd : Silent(i) \/ \E c \in DOMAIN children : i \in LinesOf(c)
    /\ \A c \in DOMAIN children : \A k \in DOMAIN children[c].comments :
         /\ children[c].comments[k] \in 1 .. children[c].start - 1
         /\ c > 1 => children[c].comments[k] > children[c - 1].end

IInv == TypeInv /\ HeadInv /\ (Parsed => scan = "ok") /\ (Good => FileInv /\ ChildInv /\ GapInv /\ ChildrenInv)

-----------------------------------------------------------------------------
\* What flattening sequences gives is a sequence of their elements.
LEMMA FlattenTyped ==
    ASSUME NEW S, NEW seqs \in Seq(Seq(S))
    PROVE  FlattenSeq(seqs) \in Seq(S)
<1> DEFINE n == Len(seqs)
           X == Seq(S)
           b == <<>>
           Flattens(f) == f = [i \in 1 .. n |-> IF i = 1 THEN seqs[i] ELSE f[i - 1] \o seqs[i]]
           F == [i \in 1 .. n |-> [x \in X |-> x \o seqs[i]]]
<1>1. CASE n = 0
  BY <1>1 DEF FlattenSeq
<1>2. CASE n # 0
  <2>1. n \in Nat /\ b \in X /\ \A i \in 1 .. n : seqs[i] \in X
    OBVIOUS
  <2>2. \A i \in 1 .. n : \A x \in X : x \o seqs[i] \in X
    BY <2>1
  <2>3. b \o seqs[1] = seqs[1] BY <2>1, <1>2
  <2> DEFINE f == CHOOSE f : Flattens(f)
  <2>4. FlattenSeq(seqs) = f[n] BY <1>2 DEF FlattenSeq
  <2> HIDE DEF n, X, b
  <2>5. F \in Steps(X, n)
    BY <2>2 DEF Steps
  <2>6. PICK h \in [0 .. n -> X] :
          h[0] = b /\ \A i \in 1 .. n : h[i] = F[i][h[i - 1]]
    <3>1. Runs(X, n, F, b) # {}
      <4> HIDE DEF F
      <4> QED BY <2>1, <2>5, Recursion
    <3> QED BY <3>1 DEF Runs
  <2>7. ASSUME NEW i \in 1 .. n PROVE h[i] = h[i - 1] \o seqs[i] /\ h[i] \in X
    <3>1. i - 1 \in 0 .. n BY <2>1
    <3>2. h[i - 1] \in X /\ h[i] \in X BY <2>1, <3>1
    <3> QED BY <2>6, <3>2
  <2>8. 1 \in 1 .. n /\ h[1] = seqs[1]
    <3>1. 1 \in 1 .. n /\ 1 - 1 = 0 BY <2>1, <1>2
    <3> QED BY <2>3, <2>6, <2>7, <3>1
  <2>9. Flattens([i \in 1 .. n |-> h[i]])
    <3>1. \A i \in 1 .. n : i # 1 => i - 1 \in 1 .. n BY <2>1
    <3> QED BY <2>7, <2>8, <3>1
  <2>10. Flattens(f) BY <2>9
  <2> DEFINE T == {i \in 0 .. n : i # 0 => f[i] \in X}
  <2> HIDE DEF f
  <2>11. ASSUME NEW i \in 1 .. n, i - 1 \in T PROVE i \in T
    <3> SUFFICES f[i] \in X BY <2>1
    <3>1. CASE i = 1 BY <2>1, <2>10, <3>1
    <3>2. CASE i # 1
      <4>1. f[i - 1] \in X BY <3>2, <2>1, <2>11
      <4>2. f[i] = f[i - 1] \o seqs[i] BY <2>10, <3>2
      <4>3. f[i - 1] \o seqs[i] \in X BY <4>1, <2>2
      <4> QED BY <4>2, <4>3
    <3> QED BY <3>1, <3>2
  <2>12. 0 \in T BY <2>1
  <2> HIDE DEF T
  <2>13. 0 .. n \subseteq T
    BY <2>1, <2>11, <2>12, SetInduction
  <2>14. f[n] \in X BY <2>1, <2>13, <1>2 DEF T
  <2> QED BY <2>4, <2>14 DEF X
<1> QED BY <1>1, <1>2

\* What a line of text has.
LEMMA TextLine ==
    ASSUME NEW t \in Line, t.kind = "text"
    PROVE  /\ t.indent \in BOOLEAN /\ t.last \in Tokens \cup {"none"}
           /\ t.docs \in Seq(Doc) /\ t.long \in BOOLEAN
  BY DEF Line

LEMMA HeredocsTyped ==
    ASSUME TypeInv
    PROVE  HeredocsOf \in Seq(Doc)
<1> DEFINE ds == [k \in DOMAIN child.pieces |-> lines[child.pieces[k]].docs]
<1>1. lines \in Seq(Line) BY DEF TypeInv
<1>2. ASSUME NEW k \in DOMAIN child.pieces PROVE lines[child.pieces[k]].docs \in Seq(Doc)
  <2>1. lines[child.pieces[k]] \in Line /\ lines[child.pieces[k]].kind = "text"
    <3>1. pos \in Nat /\ pos <= Len(lines) /\ child.pieces[k] \in 1 .. pos BY DEF TypeInv
    <3>2. Len(lines) \in Nat /\ DOMAIN lines = 1 .. Len(lines) BY <1>1
    <3>3. child.pieces[k] \in 1 .. Len(lines) BY <3>1, <3>2
    <3>4. lines[child.pieces[k]] \in Line BY <1>1, <3>3
    <3>5. lines[child.pieces[k]].kind = "text" BY DEF TypeInv
    <3> QED BY <3>4, <3>5
  <2> QED BY <2>1, TextLine
<1>3. child.pieces \in Seq(Nat) BY DEF TypeInv, Child
<1>4. ds \in Seq(Seq(Doc)) BY <1>2, <1>3
<1>5. FlattenSeq(ds) \in Seq(Doc) BY <1>4, FlattenTyped
<1> QED BY <1>5 DEF HeredocsOf

\* The fields of a node, and what its updates leave alone.
LEMMA ChildFields ==
    ASSUME NEW c \in Child
    PROVE  /\ c.start \in Nat /\ c.end \in Nat /\ c.pieces \in Seq(Nat) /\ c.docs \in Seq(Doc)
           /\ c.bodies \in Seq(Seq(Nat)) /\ c.ends \in Seq(Nat) /\ c.comments \in Seq(Nat)
           /\ Len(c.pieces) \in Nat /\ Len(c.docs) \in Nat /\ Len(c.bodies) \in Nat /\ Len(c.ends) \in Nat
<1>1. /\ c.start \in Nat /\ c.end \in Nat /\ c.pieces \in Seq(Nat) /\ c.docs \in Seq(Doc)
      /\ c.bodies \in Seq(Seq(Nat)) /\ c.ends \in Seq(Nat) /\ c.comments \in Seq(Nat)
  BY DEF Child
<1> QED BY <1>1

LEMMA BeginChild ==
    ASSUME TypeInv, BeginInstruction
    PROVE  /\ child' \in Child /\ child'.start = pos + 1 /\ child'.pieces = <<pos + 1>>
           /\ child'.docs = <<>> /\ child'.bodies = <<>> /\ child'.ends = <<>>
           /\ Len(child'.bodies) \in {Len(child'.ends), Len(child'.ends) + 1}
<1> DEFINE s == pos + 1
           p == <<pos + 1>>
<1>1. pos \in Nat BY DEF TypeInv
<1>2. s \in Nat /\ p \in Seq(Nat) BY <1>1
<1>3. child' = [NoChild EXCEPT !.start = s, !.pieces = p]
  BY DEF BeginInstruction
<1> HIDE DEF s, p
<1>4. /\ child' \in Child /\ child'.start = s /\ child'.pieces = p
      /\ child'.docs = <<>> /\ child'.bodies = <<>> /\ child'.ends = <<>>
  <2>1. <<>> \in Seq(Nat) /\ <<>> \in Seq(Doc) /\ <<>> \in Seq(Seq(Nat)) OBVIOUS
  <2> QED BY <1>2, <1>3, <2>1 DEF NoChild, Child
<1>5. Len(child'.bodies) = 0 /\ Len(child'.ends) = 0 BY <1>4
<1>6. Len(child'.bodies) \in {Len(child'.ends), Len(child'.ends) + 1} BY <1>5
<1> QED BY <1>4, <1>6 DEF s, p

LEMMA WithPieces ==
    ASSUME NEW c \in Child, NEW p \in Seq(Nat), NEW d, d = [c EXCEPT !.pieces = p]
    PROVE  /\ d \in Child /\ d.pieces = p /\ d.start = c.start
           /\ d.docs = c.docs /\ d.bodies = c.bodies /\ d.ends = c.ends /\ d.comments = c.comments
  BY DEF Child

LEMMA WithWarned ==
    ASSUME NEW c \in Child, NEW d, d = [c EXCEPT !.warned = TRUE]
    PROVE  /\ d \in Child /\ d.pieces = c.pieces /\ d.start = c.start
           /\ d.docs = c.docs /\ d.bodies = c.bodies /\ d.ends = c.ends /\ d.comments = c.comments
  BY DEF Child

LEMMA WithDocs ==
    ASSUME NEW c \in Child, NEW l \in Seq(Nat), NEW h \in Seq(Doc), NEW d,
           d = [c EXCEPT !.comments = l, !.docs = h]
    PROVE  /\ d \in Child /\ d.pieces = c.pieces /\ d.start = c.start
           /\ d.docs = h /\ d.bodies = c.bodies /\ d.ends = c.ends /\ d.comments = l
  BY DEF Child

LEMMA WithBodies ==
    ASSUME NEW c \in Child, NEW b \in Seq(Seq(Nat)), NEW d, d = [c EXCEPT !.bodies = b]
    PROVE  /\ d \in Child /\ d.pieces = c.pieces /\ d.start = c.start
           /\ d.docs = c.docs /\ d.bodies = b /\ d.ends = c.ends /\ d.comments = c.comments
  BY DEF Child

LEMMA WithEnds ==
    ASSUME NEW c \in Child, NEW e \in Seq(Nat), NEW d, d = [c EXCEPT !.ends = e]
    PROVE  /\ d \in Child /\ d.pieces = c.pieces /\ d.start = c.start
           /\ d.docs = c.docs /\ d.bodies = c.bodies /\ d.ends = e /\ d.comments = c.comments
  BY DEF Child

LEMMA WithEnd ==
    ASSUME NEW c \in Child, NEW n \in Nat, NEW d, d = [c EXCEPT !.end = n]
    PROVE  /\ d \in Child /\ d.pieces = c.pieces /\ d.start = c.start /\ d.end = n
           /\ d.docs = c.docs /\ d.bodies = c.bodies /\ d.ends = c.ends /\ d.comments = c.comments
  BY DEF Child

\* The file and the position in it.
LEMMA Position ==
    ASSUME TypeInv
    PROVE  /\ lines \in Seq(Line) /\ Len(lines) \in Nat
           /\ pos \in Nat /\ pos <= Len(lines)
           /\ scan \in {"ok", "overlong", "spent"}
<1>1. lines \in Seq(Line) BY DEF TypeInv
<1>2. Len(lines) \in Nat BY <1>1
<1> QED BY <1>1, <1>2 DEF TypeInv

\* What the scanner hands out, and what it does at its end.
LEMMA ScanStep ==
    ASSUME TypeInv, UNCHANGED lines, Scans, Scanned
    PROVE  /\ pos' = pos + 1 /\ pos' \in Nat /\ pos' <= Len(lines) /\ Token = lines[pos + 1] /\ Token \in Line
           /\ scan' \in {"ok", "overlong", "spent"}
           /\ scan' = "ok" => scan = "ok" /\ ~IsLong(pos + 1)
<1>1. lines \in Seq(Line) /\ Len(lines) \in Nat /\ pos \in Nat /\ pos <= Len(lines)
  BY Position
<1>2. pos + 1 \in 1 .. Len(lines) BY <1>1 DEF Scans
<1> QED BY <1>1, <1>2, Position DEF Scans, Scanned, Token

LEMMA FailStep ==
    ASSUME TypeInv, UNCHANGED lines, ScanFails
    PROVE  /\ UNCHANGED pos /\ scan' \in {"ok", "overlong", "spent"}
           /\ scan' = "ok" => scan = "ok" /\ pos = Len(lines)
<1>1. /\ Len(lines) \in Nat /\ pos \in Nat /\ pos <= Len(lines)
      /\ scan \in {"ok", "overlong", "spent"}
  BY Position
<1> QED BY <1>1 DEF ScanFails, Scans

\* A step that leaves the node alone keeps the types.
LEMMA TypeSame ==
    ASSUME TypeInv, UNCHANGED lines, pos' \in Nat, pos <= pos', pos' <= Len(lines),
           scan' \in {"ok", "overlong", "spent"}, phase' \in {"first", "end", "done"} \cup Making,
           escape' \in Tokens, done' \in BOOLEAN, comments' \in Seq(Nat),
           child'.pieces = child.pieces, child' \in Child,
           Len(child'.bodies) \in {Len(child'.ends), Len(child'.ends) + 1},
           todo' \in Seq(Doc), children' \in Seq(Child),
           phase' = "done" <=> outcome' # "running"
    PROVE  TypeInv'
<1>1. \A k \in DOMAIN child.pieces : child.pieces[k] \in 1 .. pos' BY DEF TypeInv
<1> QED BY <1>1 DEF TypeInv

\* A line of a heredoc: it is added to the body that is being read, or ends it.
Reads == Len(child.bodies) # Len(child.ends)

LEMMA BodiesTyped ==
    ASSUME child \in Child, NEW b \in Seq(Nat),
           Len(child.bodies) \in {Len(child.ends), Len(child.ends) + 1}
    PROVE  /\ Body \in Seq(Nat) /\ Bodies(b) \in Seq(Seq(Nat))
           /\ ~Reads => /\ Len(Bodies(b)) = Len(child.bodies) + 1 /\ Bodies(b)[Len(child.bodies) + 1] = b
                        /\ \A k \in 1 .. Len(child.bodies) : Bodies(b)[k] = child.bodies[k]
           /\ Reads => /\ Len(Bodies(b)) = Len(child.bodies) /\ Bodies(b)[Len(child.bodies)] = b
                       /\ \A k \in 1 .. Len(child.bodies) - 1 : Bodies(b)[k] = child.bodies[k]
<1>1. child.bodies \in Seq(Seq(Nat)) /\ Len(child.bodies) \in Nat /\ Len(child.ends) \in Nat
  BY ChildFields
<1>2. CASE ~Reads
  <2>1. <<>> \in Seq(Nat) OBVIOUS
  <2>2. /\ Append(child.bodies, b) \in Seq(Seq(Nat)) /\ Len(Append(child.bodies, b)) = Len(child.bodies) + 1
        /\ Append(child.bodies, b)[Len(child.bodies) + 1] = b
        /\ \A k \in 1 .. Len(child.bodies) : Append(child.bodies, b)[k] = child.bodies[k]
    BY <1>1
  <2> QED BY <1>2, <2>1, <2>2 DEF Body, Bodies, Reads
<1>3. CASE Reads
  <2> DEFINE L == Len(child.bodies)
  <2>1. L \in 1 .. Len(child.bodies) BY <1>1, <1>3 DEF Reads
  <2>2. child.bodies[L] \in Seq(Nat) BY <1>1, <2>1
  <2>3. [child.bodies EXCEPT ![L] = b] \in Seq(Seq(Nat)) BY <1>1, <2>1
  <2>4. /\ Len([child.bodies EXCEPT ![L] = b]) = L /\ [child.bodies EXCEPT ![L] = b][L] = b
        /\ \A k \in 1 .. L - 1 : [child.bodies EXCEPT ![L] = b][k] = child.bodies[k]
    BY <1>1, <2>1
  <2> QED BY <1>3, <2>2, <2>3, <2>4 DEF Body, Bodies, Reads
<1> QED BY <1>2, <1>3

LEMMA HeredocChild ==
    ASSUME TypeInv, HeredocLine
    PROVE  /\ child' \in Child /\ child'.pieces = child.pieces /\ child'.start = child.start
           /\ child'.docs = child.docs /\ child'.comments = child.comments
           /\ Ends(Token, Head(todo)) =>
                /\ child'.bodies = Bodies(Body) /\ child'.ends = Append(child.ends, pos + 1)
                /\ Len(child'.bodies) = Len(child'.ends)
           /\ ~Ends(Token, Head(todo)) =>
                /\ child'.bodies = Bodies(Append(Body, pos + 1)) /\ child'.ends = child.ends
                /\ Len(child'.bodies) = Len(child'.ends) + 1
<1>1. /\ child \in Child /\ pos + 1 \in Nat
      /\ Len(child.bodies) \in {Len(child.ends), Len(child.ends) + 1}
  BY Position DEF TypeInv
<1>2. /\ child.ends \in Seq(Nat) /\ child.bodies \in Seq(Seq(Nat))
      /\ Len(child.ends) \in Nat /\ Len(child.bodies) \in Nat
  BY <1>1, ChildFields
<1>3. Body \in Seq(Nat)
  <2>1. <<>> \in Seq(Nat) OBVIOUS
  <2> QED BY <1>1, <2>1, BodiesTyped
<1>4. CASE Ends(Token, Head(todo))
  <2> DEFINE b == Bodies(Body)
             e == Append(child.ends, pos + 1)
             d == [child EXCEPT !.bodies = b]
  <2>1. b \in Seq(Seq(Nat)) /\ e \in Seq(Nat) /\ Len(e) = Len(child.ends) + 1
    BY <1>1, <1>2, <1>3, BodiesTyped
  <2>2. Len(b) = Len(e)
    BY <1>1, <1>2, <1>3, <2>1, BodiesTyped DEF Reads
  <2>3. child' = [d EXCEPT !.ends = e]
    BY <1>1, <1>4 DEF HeredocLine, Child
  <2> HIDE DEF b, e
  <2>4. d \in Child /\ d.bodies = b BY <1>1, <2>1, WithBodies
  <2>5. /\ child' \in Child /\ child'.pieces = d.pieces /\ child'.start = d.start
        /\ child'.docs = d.docs /\ child'.comments = d.comments
        /\ child'.bodies = d.bodies /\ child'.ends = e
    <3> HIDE DEF d
    <3> QED BY <2>1, <2>3, <2>4, WithEnds
  <2> QED BY <1>1, <1>4, <2>1, <2>2, <2>4, <2>5, WithBodies DEF b, e
<1>5. CASE ~Ends(Token, Head(todo))
  <2> DEFINE b == Bodies(Append(Body, pos + 1))
  <2>1. Append(Body, pos + 1) \in Seq(Nat) BY <1>1, <1>3
  <2>2. b \in Seq(Seq(Nat)) BY <1>1, <2>1, BodiesTyped
  <2>3. Len(b) = Len(child.ends) + 1
    <3>1. CASE ~Reads
      <4>1. Len(b) = Len(child.bodies) + 1 BY <1>1, <2>1, <3>1, BodiesTyped
      <4> QED BY <3>1, <4>1 DEF Reads
    <3>2. CASE Reads
      <4>1. Len(b) = Len(child.bodies) BY <1>1, <2>1, <3>2, BodiesTyped
      <4> QED BY <1>1, <1>2, <3>2, <4>1 DEF Reads
    <3> QED BY <3>1, <3>2
  <2>4. child' = [child EXCEPT !.bodies = b]
    BY <1>5 DEF HeredocLine
  <2> HIDE DEF b
  <2> QED BY <1>1, <1>5, <2>2, <2>3, <2>4, WithBodies DEF b
<1> QED BY <1>4, <1>5

LEMMA TypeStep ==
    ASSUME TypeInv, [Next]_vars
    PROVE  TypeInv'
<1>0. /\ UNCHANGED lines /\ lines \in Seq(Line) /\ pos \in Nat /\ pos <= Len(lines) /\ Len(lines) \in Nat
      /\ scan \in {"ok", "overlong", "spent"} /\ phase \in {"first", "end", "done"} \cup Making
      /\ escape \in Tokens /\ done \in BOOLEAN /\ comments \in Seq(Nat) /\ child \in Child
      /\ todo \in Seq(Doc) /\ children \in Seq(Child)
      /\ phase = "done" <=> outcome # "running"
      /\ Len(child.bodies) \in {Len(child.ends), Len(child.ends) + 1}
  BY DEF TypeInv, Next, vars
<1>1. CASE RefuseDirective
  <2>1. pos' = pos + 1 /\ pos' \in Nat /\ pos' <= Len(lines) /\ scan' \in {"ok", "overlong", "spent"}
    BY <1>0, <1>1, ScanStep DEF RefuseDirective
  <2> QED BY <1>0, <1>1, <2>1, TypeSame DEF RefuseDirective, Fail, directives
<1>2. CASE PassLine
  <2>1. pos' = pos + 1 /\ pos' \in Nat /\ pos' <= Len(lines) /\ scan' \in {"ok", "overlong", "spent"}
    BY <1>0, <1>2, ScanStep DEF PassLine
  <2>2. comments' \in Seq(Nat)
    BY <1>0, <1>2 DEF PassLine, Commented
  <2>3. escape' \in Tokens /\ done' \in BOOLEAN
    BY <1>0, <1>2 DEF PassLine, IsDirective, BadDirective
  <2> QED BY <1>0, <1>2, <2>1, <2>2, <2>3, TypeSame DEF PassLine
<1>3. CASE BeginInstruction
  <2>1. pos' = pos + 1 /\ pos' \in Nat /\ pos' <= Len(lines) /\ Token = lines[pos + 1]
        /\ scan' \in {"ok", "overlong", "spent"}
    BY <1>0, <1>3, ScanStep DEF BeginInstruction
  <2>2. /\ child' \in Child /\ child'.pieces = <<pos + 1>>
        /\ Len(child'.bodies) \in {Len(child'.ends), Len(child'.ends) + 1}
    BY <1>3, BeginChild
  <2>3. \A k \in DOMAIN child'.pieces :
          child'.pieces[k] \in 1 .. pos' /\ lines[child'.pieces[k]].kind = "text"
    BY <1>0, <1>3, <2>1, <2>2 DEF BeginInstruction
  <2> QED BY <1>0, <1>3, <2>1, <2>2, <2>3 DEF BeginInstruction, TypeInv, Making
<1>4. CASE EndOfFile
  <2>1. UNCHANGED pos /\ scan' \in {"ok", "overlong", "spent"}
    BY <1>0, <1>4, FailStep DEF EndOfFile
  <2> QED BY <1>0, <1>4, <2>1, TypeSame DEF EndOfFile, directives
<1>5. CASE Continuation
  <2>1. pos' = pos + 1 /\ pos' \in Nat /\ pos' <= Len(lines) /\ Token = lines[pos + 1]
        /\ scan' \in {"ok", "overlong", "spent"}
    BY <1>0, <1>5, ScanStep DEF Continuation
  <2>2. CASE Token.kind = "text"
    <3>0. Len(child'.bodies) \in {Len(child'.ends), Len(child'.ends) + 1}
      BY <1>0, <1>5, <2>2 DEF Continuation, Child
    <3>1. child.pieces \in Seq(Nat) BY <1>0, ChildFields
    <3>2. child' \in Child /\ child'.pieces = Append(child.pieces, pos + 1)
      <4> DEFINE a == Append(child.pieces, pos + 1)
      <4>1. a \in Seq(Nat) BY <1>0, <3>1
      <4>2. child' = [child EXCEPT !.pieces = a] BY <1>5, <2>2 DEF Continuation
      <4> HIDE DEF a
      <4>3. child' \in Child /\ child'.pieces = a BY <1>0, <4>1, <4>2, WithPieces
      <4> QED BY <4>3 DEF a
    <3>3. \A k \in DOMAIN child.pieces :
            child.pieces[k] \in 1 .. pos /\ lines[child.pieces[k]].kind = "text"
      BY DEF TypeInv
    <3>4. \A k \in DOMAIN child'.pieces :
            child'.pieces[k] \in 1 .. pos' /\ lines[child'.pieces[k]].kind = "text"
      <4>1. Len(child.pieces) \in Nat /\ DOMAIN child'.pieces = 1 .. Len(child.pieces) + 1
        BY <3>1, <3>2
      <4>2. ASSUME NEW k \in 1 .. Len(child.pieces) + 1
            PROVE  child'.pieces[k] \in 1 .. pos + 1 /\ lines[child'.pieces[k]].kind = "text"
        <5>1. CASE k = Len(child.pieces) + 1
          <6>1. child'.pieces[k] = pos + 1 BY <3>1, <3>2, <4>1, <5>1
          <6> QED BY <6>1, <2>1, <2>2, <1>0
        <5>2. CASE k # Len(child.pieces) + 1
          <6>1. k \in DOMAIN child.pieces /\ child'.pieces[k] = child.pieces[k] BY <3>1, <3>2, <4>1, <5>2
          <6> QED BY <6>1, <3>3, <1>0
        <5> QED BY <5>1, <5>2
      <4> QED BY <2>1, <4>1, <4>2
    <3> QED BY <1>0, <1>5, <2>1, <3>0, <3>2, <3>4 DEF Continuation, TypeInv, Making, directives
  <2>3. CASE Token.kind # "text"
    <3>1. /\ child' \in Child /\ child'.pieces = child.pieces
          /\ child'.bodies = child.bodies /\ child'.ends = child.ends
      BY <1>0, <1>5, <2>3 DEF Continuation, Child
    <3> QED BY <1>0, <1>5, <2>1, <2>3, <3>1, TypeSame DEF Continuation, directives
  <2> QED BY <2>2, <2>3
<1>6. CASE NoContinuation
  <2>1. UNCHANGED pos /\ scan' \in {"ok", "overlong", "spent"}
    BY <1>0, <1>6, FailStep DEF NoContinuation
  <2> QED BY <1>0, <1>6, <2>1, TypeSame DEF NoContinuation, directives, Making
<1>7. CASE MakeNode
  <2>1. HeredocsOf \in Seq(Doc) BY HeredocsTyped
  <2>2. /\ child' \in Child /\ child'.pieces = child.pieces
        /\ child'.bodies = child.bodies /\ child'.ends = child.ends
    BY <1>0, <1>7, <2>1 DEF MakeNode, Child
  <2> QED BY <1>0, <1>7, <2>1, <2>2, TypeSame DEF MakeNode, directives, Making
<1>8. CASE BadInstruction
  BY <1>0, <1>8, TypeSame DEF BadInstruction, Fail, directives
<1>9. CASE HeredocLine
  <2>1. pos' = pos + 1 /\ pos' \in Nat /\ pos' <= Len(lines) /\ scan' \in {"ok", "overlong", "spent"}
    BY <1>0, <1>9, ScanStep DEF HeredocLine
  <2>2. /\ child' \in Child /\ child'.pieces = child.pieces
        /\ Len(child'.bodies) \in {Len(child'.ends), Len(child'.ends) + 1}
    BY <1>0, <1>9, HeredocChild
  <2>3. todo' \in Seq(Doc)
    <3>1. todo # <<>> => Tail(todo) \in Seq(Doc) BY <1>0
    <3> QED BY <1>0, <1>9, <3>1 DEF HeredocLine
  <2> QED BY <1>0, <1>9, <2>1, <2>2, <2>3, TypeSame DEF HeredocLine, directives
<1>10. CASE Unterminated
  <2>1. UNCHANGED pos /\ scan' \in {"ok", "overlong", "spent"}
    BY <1>0, <1>10, FailStep DEF Unterminated
  <2> QED BY <1>0, <1>10, <2>1, TypeSame DEF Unterminated, Fail, directives
<1>11. CASE AddChild
  <2>1. [child EXCEPT !.end = pos] \in Child
    BY <1>0 DEF Child
  <2> QED BY <1>0, <1>11, <2>1, TypeSame DEF AddChild, directives
<1>12. CASE Finish
  BY <1>0, <1>12, TypeSame DEF Finish, directives
<1>13. CASE UNCHANGED vars
  BY <1>0, <1>13, TypeSame DEF vars, directives
<1> QED
  BY <1>1, <1>2, <1>3, <1>4, <1>5, <1>6, <1>7, <1>8, <1>9, <1>10, <1>11, <1>12, <1>13 DEF Next

-----------------------------------------------------------------------------
\* What is said of the lines stays true of them.
LEMMA SameLines ==
    ASSUME UNCHANGED lines
    PROVE  /\ Directives' = Directives /\ MeantEscape' = MeantEscape
           /\ \A i : (Silent(i) <=> Silent(i)') /\ (IsLong(i) <=> IsLong(i)')
<1>1. Directives' = Directives BY DEF Directives
<1>2. MeantEscape' = MeantEscape BY <1>1 DEF MeantEscape
<1> QED BY <1>1, <1>2 DEF Silent, IsLong

\* A line before a directive is one.
LEMMA DirectivePrefix ==
    ASSUME lines \in Seq(Line), NEW i \in Directives, NEW j \in 1 .. i
    PROVE  j \in Directives /\ lines[i].kind = "directive" /\ lines[i].key \in {"escape", "syntax"}
<1>1. Len(lines) \in Nat /\ DOMAIN lines = 1 .. Len(lines) OBVIOUS
<1>2. i \in 1 .. Len(lines) /\ j \in 1 .. Len(lines) /\ i \in 1 .. i BY <1>1 DEF Directives
<1>3. \A k \in 1 .. j : k \in 1 .. i BY <1>2
<1>4. lines[i] \in Line /\ lines[i].kind = "directive" /\ lines[i].key # "other" BY <1>2 DEF Directives
<1>5. lines[i].key \in {"escape", "syntax"} BY <1>4 DEF Line
<1> QED BY <1>1, <1>2, <1>3, <1>4, <1>5 DEF Directives

\* Once a line is no directive, or none is left, all of them are read.
LEMMA HeadRead ==
    ASSUME TypeInv, HeadInv, outcome # "directive",
           done \/ pos = Len(lines) \/ (Scans /\ Token.kind = "text")
    PROVE  /\ Directives \subseteq 1 .. pos /\ escape = MeantEscape
           /\ \A i, j \in Directives : lines[i].key = lines[j].key => i = j
<1>1. lines \in Seq(Line) /\ Len(lines) \in Nat /\ pos \in Nat /\ pos <= Len(lines)
  BY Position
<1>2. Directives \subseteq 1 .. Len(lines) BY <1>1 DEF Directives
<1>3. Directives \subseteq 1 .. pos
  <2>1. CASE done BY <2>1 DEF HeadInv
  <2>2. CASE pos = Len(lines) BY <2>2, <1>2
  <2>3. CASE Scans /\ Token.kind = "text"
    <3> SUFFICES ASSUME NEW i \in Directives, i > pos PROVE FALSE
      BY <1>1, <1>2
    <3>1. pos + 1 \in 1 .. i BY <1>1, <1>2
    <3>2. pos + 1 \in Directives BY <1>1, <3>1, DirectivePrefix
    <3>3. pos + 1 \in 1 .. pos + 1 BY <1>1
    <3>4. lines[pos + 1].kind = "directive" BY <1>1, <3>2, <3>3, DirectivePrefix
    <3> QED BY <2>3, <3>4 DEF Token
  <2> QED BY <2>1, <2>2, <2>3
<1>4. Directives \cap 1 .. pos = Directives BY <1>3
<1>5. /\ \A i, j \in Directives : lines[i].key = lines[j].key => i = j
      /\ \A i \in Directives : lines[i].key = "escape" => escape = lines[i].value
      /\ (\A i \in Directives : lines[i].key # "escape") => escape = Backslash
  BY <1>4 DEF HeadInv
<1>6. escape = MeantEscape
  <2>1. CASE \E i \in Directives : lines[i].key = "escape"
    <3> DEFINE e == CHOOSE i \in Directives : lines[i].key = "escape"
    <3>1. e \in Directives /\ lines[e].key = "escape" BY <2>1
    <3>2. MeantEscape = lines[e].value BY <2>1 DEF MeantEscape
    <3> QED BY <1>5, <3>1, <3>2
  <2>2. CASE ~\E i \in Directives : lines[i].key = "escape"
    BY <1>5, <2>2 DEF MeantEscape
  <2> QED BY <2>1, <2>2
<1> QED BY <1>3, <1>5, <1>6

\* Nothing is read at first.
LEMMA InitInv == Init => IInv
<1> SUFFICES ASSUME Init PROVE IInv OBVIOUS
<1>1. /\ lines \in Files /\ pos = 0 /\ scan = "ok" /\ phase = "first" /\ escape = Backslash
      /\ done = FALSE /\ seen = {} /\ comments = <<>> /\ child = NoChild /\ todo = <<>>
      /\ children = <<>> /\ outcome = "running"
  BY DEF Init
<1>2. lines \in Seq(Line) /\ Len(lines) \in Nat
  <2>1. lines \in Seq(Line) BY <1>1, FileAssumption
  <2> QED BY <2>1
<1>3. 1 .. 0 = {} OBVIOUS
<1>4. TypeInv
  <2>1. /\ child \in Child /\ child.pieces = <<>> /\ child.bodies = <<>> /\ child.ends = <<>>
    <3>1. <<>> \in Seq(Nat) /\ <<>> \in Seq(Doc) /\ <<>> \in Seq(Seq(Nat)) OBVIOUS
    <3> QED BY <1>1, <3>1 DEF NoChild, Child
  <2>2. Len(child.bodies) = 0 /\ Len(child.ends) = 0 BY <2>1
  <2>3. Len(child.bodies) \in {Len(child.ends), Len(child.ends) + 1} BY <2>2
  <2>4. DOMAIN child.pieces = {} BY <2>1
  <2>5. comments \in Seq(Nat) /\ todo \in Seq(Doc) /\ children \in Seq(Child) BY <1>1
  <2>6. /\ lines \in Files /\ pos = 0 /\ scan = "ok" /\ phase = "first" /\ escape = Backslash
        /\ done \in BOOLEAN /\ outcome = "running"
    BY <1>1
  <2>7. pos \in Nat /\ pos <= Len(lines) BY <1>2, <2>6
  <2>8. child \in Child BY <2>1
  <2> QED BY <1>2, <2>3, <2>4, <2>5, <2>6, <2>7, <2>8 DEF TypeInv, Tokens, Making
<1>5. HeadInv
  <2>1. Directives \cap 1 .. pos = {} BY <1>1, <1>3
  <2> QED BY <1>1, <1>3, <2>1 DEF HeadInv, Making
<1>6. FileInv /\ ChildInv BY <1>1, <1>3 DEF FileInv, ChildInv
<1>7. LastEnd = 0 /\ Begin = 1 BY <1>1 DEF LastEnd, Begin, Making
<1>8. DOMAIN comments = {} /\ DOMAIN children = {} BY <1>1
<1>9. GapInv BY <1>1, <1>7, <1>8 DEF GapInv, Making
<1>10. ChildrenInv BY <1>3, <1>7, <1>8 DEF ChildrenInv
<1> QED BY <1>1, <1>4, <1>5, <1>6, <1>9, <1>10 DEF IInv

-----------------------------------------------------------------------------
\* A step that reads no directive.
LEMMA HeadKeeps ==
    ASSUME TypeInv, HeadInv, UNCHANGED <<lines, escape, done, seen>>, outcome # "directive",
           pos' = pos \/ (done /\ pos' = pos + 1), phase' \in Making => done
    PROVE  HeadInv'
<1>1. pos \in Nat BY DEF TypeInv
<1>2. Directives' = Directives BY SameLines
<1>3. Directives \cap 1 .. pos' = Directives \cap 1 .. pos
  BY <1>1 DEF HeadInv
<1>4. IF done THEN Directives \subseteq 1 .. pos' ELSE 1 .. pos' \subseteq Directives
  BY <1>1 DEF HeadInv
<1> QED BY <1>2, <1>3, <1>4 DEF HeadInv

LEMMA HeadStep ==
    ASSUME TypeInv, HeadInv, [Next]_vars
    PROVE  HeadInv'
<1>0. /\ UNCHANGED lines /\ lines \in Seq(Line) /\ pos \in Nat /\ pos <= Len(lines) /\ Len(lines) \in Nat
      /\ phase = "done" <=> outcome # "running"
  BY Position DEF TypeInv, Next, vars
<1>h. outcome # "directive" => (phase \in Making => done) BY DEF HeadInv
<1> DEFINE read == Directives \cap 1 .. pos
<1>1. CASE RefuseDirective
  BY <1>1 DEF RefuseDirective, Fail, HeadInv
<1>2. CASE PassLine
  <2>1. /\ pos' = pos + 1 /\ pos + 1 \in DOMAIN lines /\ Token = lines[pos + 1] /\ Token \in Line
        /\ UNCHANGED <<phase, outcome>> /\ phase = "first" /\ outcome = "running"
    <3>1. pos + 1 \in DOMAIN lines BY <1>0, <1>2 DEF PassLine, Scans
    <3> QED BY <1>0, <1>2, <3>1, ScanStep DEF PassLine
  <2>2. /\ IF done THEN Directives \subseteq 1 .. pos ELSE 1 .. pos \subseteq Directives
        /\ seen = {lines[i].key : i \in read}
        /\ \A i, j \in read : lines[i].key = lines[j].key => i = j
        /\ \A i \in read : lines[i].key = "escape" => escape = lines[i].value
        /\ (\A i \in read : lines[i].key # "escape") => escape = Backslash
    BY <2>1 DEF HeadInv
  <2>3. CASE IsDirective(Token)
    <3>1. /\ ~done /\ Token.kind = "directive" /\ Token.key \in {"escape", "syntax"}
          /\ Token.key \notin seen
          /\ seen' = seen \cup {Token.key} /\ done' = done
          /\ escape' = IF Token.key = "escape" THEN Token.value ELSE escape
      BY <1>2, <2>3 DEF PassLine, IsDirective, BadDirective
    <3>2. 1 .. pos + 1 \subseteq Directives
      <4>1. 1 .. pos \subseteq Directives BY <2>2, <3>1
      <4>2. pos + 1 \in Directives
        <5> SUFFICES ASSUME NEW j \in 1 .. pos + 1
                     PROVE  lines[j].kind = "directive" /\ lines[j].key # "other"
          BY <2>1 DEF Directives
        <5>1. CASE j = pos + 1 BY <2>1, <3>1, <5>1
        <5>2. CASE j # pos + 1
          <6>1. j \in Directives /\ j \in 1 .. j BY <1>0, <4>1, <5>2
          <6> QED BY <1>0, <6>1, DirectivePrefix
        <5> QED BY <5>1, <5>2
      <4> QED BY <1>0, <4>1, <4>2
    <3>3. Directives \cap 1 .. pos + 1 = read \cup {pos + 1} BY <1>0, <3>2
    <3>4. \A i \in read : lines[i].key # Token.key BY <2>2, <3>1
    <3>5. seen' = {lines[i].key : i \in read \cup {pos + 1}} BY <2>1, <2>2, <3>1
    <3> HIDE DEF read
    <3>6. /\ \A i, j \in read \cup {pos + 1} : lines[i].key = lines[j].key => i = j
          /\ \A i \in read \cup {pos + 1} : lines[i].key = "escape" => escape' = lines[i].value
          /\ (\A i \in read \cup {pos + 1} : lines[i].key # "escape") => escape' = Backslash
      BY <2>1, <2>2, <3>1, <3>4
    <3>7. Directives' = Directives BY <1>0, SameLines
    <3> QED BY <1>0, <2>1, <3>1, <3>2, <3>3, <3>5, <3>6, <3>7 DEF HeadInv, Making
  <2>4. CASE ~IsDirective(Token)
    <3>1. done' /\ UNCHANGED <<escape, seen>> BY <1>2, <2>4 DEF PassLine
    <3>2. Directives \subseteq 1 .. pos
      <4>1. CASE done BY <2>2, <4>1
      <4>2. CASE ~done
        <5> SUFFICES ASSUME NEW i \in Directives, i > pos PROVE FALSE
          BY <1>0 DEF Directives
        <5>1. pos + 1 \in 1 .. i /\ pos + 1 \in 1 .. pos + 1 BY <1>0 DEF Directives
        <5>2. pos + 1 \in Directives BY <1>0, <5>1, DirectivePrefix
        <5>3. Token.kind = "directive" /\ Token.key \in {"escape", "syntax"}
          BY <1>0, <2>1, <5>1, <5>2, DirectivePrefix
        <5> QED BY <2>4, <4>2, <5>3 DEF IsDirective
      <4> QED BY <4>1, <4>2
    <3>3. Directives \cap 1 .. pos + 1 = read BY <1>0, <3>2
    <3>4. Directives \subseteq 1 .. pos + 1 BY <1>0, <3>2
    <3>5. Directives' = Directives BY <1>0, SameLines
    <3> HIDE DEF read
    <3>6. UNCHANGED lines /\ pos' = pos + 1 BY <1>0, <2>1
    <3> QED BY <2>1, <2>2, <3>1, <3>3, <3>4, <3>5, <3>6 DEF HeadInv, Making
  <2> QED BY <2>3, <2>4
<1>3. CASE BeginInstruction
  <2>1. /\ pos' = pos + 1 /\ Token = lines[pos + 1] /\ Token.kind = "text" /\ Scans
        /\ done' /\ UNCHANGED <<escape, seen>> /\ outcome # "directive"
    BY <1>0, <1>3, ScanStep DEF BeginInstruction
  <2>2. Directives \subseteq 1 .. pos BY <2>1, HeadRead
  <2>3. Directives \cap 1 .. pos + 1 = read /\ Directives \subseteq 1 .. pos + 1 BY <1>0, <2>2
  <2>4. Directives' = Directives BY <1>0, SameLines
  <2> QED BY <1>0, <2>1, <2>3, <2>4 DEF HeadInv, Making
<1>4. CASE EndOfFile
  BY <1>0, <1>4, HeadKeeps DEF EndOfFile, ScanFails, directives, Making
<1>5. CASE Continuation
  BY <1>0, <1>h, <1>5, HeadKeeps DEF Continuation, Scanned, directives, Making
<1>6. CASE NoContinuation
  BY <1>0, <1>h, <1>6, HeadKeeps DEF NoContinuation, ScanFails, directives, Making
<1>7. CASE MakeNode
  BY <1>0, <1>h, <1>7, HeadKeeps DEF MakeNode, directives, Making
<1>8. CASE BadInstruction
  BY <1>0, <1>8, HeadKeeps DEF BadInstruction, Fail, directives, Making
<1>9. CASE HeredocLine
  BY <1>0, <1>h, <1>9, HeadKeeps DEF HeredocLine, Scanned, directives, Making
<1>10. CASE Unterminated
  BY <1>0, <1>10, HeadKeeps DEF Unterminated, ScanFails, Fail, directives, Making
<1>11. CASE AddChild
  BY <1>0, <1>11, HeadKeeps DEF AddChild, directives, Making
<1>12. CASE Finish
  BY <1>0, <1>12, HeadKeeps DEF Finish, directives, Making
<1>13. CASE UNCHANGED vars
  <2>1. outcome # "directive" => HeadInv'
    BY <1>0, <1>h, <1>13, HeadKeeps DEF vars, directives
  <2>2. outcome = "directive" => HeadInv' BY <1>13 DEF vars, HeadInv
  <2> QED BY <2>1, <2>2
<1> QED
  BY <1>1, <1>2, <1>3, <1>4, <1>5, <1>6, <1>7, <1>8, <1>9, <1>10, <1>11, <1>12, <1>13 DEF Next

\* A parse that can still succeed could before.
LEMMA GoodStep ==
    ASSUME TypeInv, [Next]_vars, Good'
    PROVE  Good /\ (phase' # "done" => phase # "done")
<1>0. /\ UNCHANGED lines /\ phase = "done" <=> outcome # "running"
  BY DEF TypeInv, Next, vars
<1>1. scan = "ok"
  BY <1>0, FailStep DEF Good, Next, vars, RefuseDirective, PassLine, BeginInstruction, EndOfFile, Continuation,
     NoContinuation, MakeNode, BadInstruction, HeredocLine, Unterminated, AddChild, Finish, Scanned
<1>2. outcome \in {"running", "parsed"}
  BY <1>0 DEF Good, Next, vars, RefuseDirective, PassLine, BeginInstruction, EndOfFile, Continuation,
     NoContinuation, MakeNode, BadInstruction, HeredocLine, Unterminated, AddChild, Finish
<1> QED
  BY <1>0, <1>1, <1>2 DEF Good, Next, vars, RefuseDirective, PassLine, BeginInstruction, EndOfFile, Continuation,
     NoContinuation, MakeNode, BadInstruction, HeredocLine, Unterminated, AddChild, Finish, Fail

LEMMA FileStep ==
    ASSUME TypeInv, FileInv, [Next]_vars, Good'
    PROVE  FileInv'
<1>0. /\ UNCHANGED lines /\ pos \in Nat /\ pos <= Len(lines)
      /\ Good /\ scan' = "ok"
  <2>1. UNCHANGED lines BY DEF Next, vars
  <2>2. scan' = "ok" BY DEF Good
  <2> QED BY <2>1, <2>2, Position, GoodStep
<1>1. \A i : IsLong(i) <=> IsLong(i)' BY <1>0, SameLines
<1>2. CASE Scans /\ Scanned /\ phase' \notin {"end", "done"}
  <2>1. pos' = pos + 1 /\ ~IsLong(pos + 1) BY <1>0, <1>2, ScanStep
  <2> QED BY <1>0, <1>1, <1>2, <2>1 DEF FileInv
<1>3. CASE ScanFails
  <2>1. UNCHANGED pos /\ pos = Len(lines) BY <1>0, <1>3, FailStep
  <2> QED BY <1>0, <1>1, <2>1 DEF FileInv
<1>4. CASE UNCHANGED pos /\ (phase' \in {"end", "done"} => phase \in {"end", "done"})
  BY <1>0, <1>1, <1>4 DEF FileInv
<1> QED
  BY <1>0, <1>2, <1>3, <1>4 DEF Next, vars, RefuseDirective, PassLine, BeginInstruction, EndOfFile,
     Continuation, NoContinuation, MakeNode, BadInstruction, HeredocLine, Unterminated, AddChild, Finish,
     Fail, Good

-----------------------------------------------------------------------------
\* a is s and one element more; u is t without its first
Longer(a, s, x) == /\ a \in Seq(Nat) /\ Len(a) = Len(s) + 1 /\ a[Len(s) + 1] = x
                   /\ \A j \in 1 .. Len(s) : a[j] = s[j]
Rest(u, t) == Len(u) = Len(t) - 1 /\ \A k \in 1 .. Len(t) - 1 : u[k] = t[k + 1]

\* Nodes of the same lines are made alike.
LEMMA SamePieces ==
    ASSUME NEW c, NEW d, d.pieces = c.pieces, d.start = c.start
    PROVE  /\ LastPiece(d) = LastPiece(c) /\ Made(d) = Made(c)
           /\ Joined(d) <=> Joined(c)
           /\ Instruction(d) <=> Instruction(c)
<1>1. LastPiece(d) = LastPiece(c) /\ Made(d) = Made(c) BY DEF LastPiece, Made
<1>2. Joined(d) <=> Joined(c) BY <1>1 DEF Joined, PiecesOf
<1> QED BY <1>1, <1>2 DEF Instruction

LEMMA SameNodes ==
    ASSUME UNCHANGED lines
    PROVE  \A c : /\ LastPiece(c) = LastPiece(c)' /\ Made(c) = Made(c)'
                  /\ Joined(c) <=> Joined(c)'
                  /\ Instruction(c) <=> Instruction(c)'
                  /\ Whole(c) <=> Whole(c)'
                  /\ \A t, p : Reading(c, t, p) <=> Reading(c, t, p)'
<1> SUFFICES ASSUME NEW c
             PROVE  /\ LastPiece(c) = LastPiece(c)' /\ Made(c) = Made(c)'
                    /\ Joined(c) <=> Joined(c)'
                    /\ Instruction(c) <=> Instruction(c)'
                    /\ Whole(c) <=> Whole(c)'
                    /\ \A t, p : Reading(c, t, p) <=> Reading(c, t, p)'
  OBVIOUS
<1>1. MeantEscape' = MeantEscape /\ \A i : Silent(i) <=> Silent(i)' BY SameLines
<1>2. LastPiece(c) = LastPiece(c)' /\ Made(c) = Made(c)' BY <1>1 DEF LastPiece, Made
<1>3. Joined(c) <=> Joined(c)' BY <1>1, <1>2 DEF Joined, PiecesOf
<1>4. Instruction(c) <=> Instruction(c)' BY <1>1, <1>2, <1>3 DEF Instruction
<1>5. \A k : Before(c, k) = Before(c, k)' BY <1>2 DEF Before
<1>6. \A k : BodyRead(c, k) <=> BodyRead(c, k)' BY <1>5 DEF BodyRead, Ends
<1>7. \A k : BodyEnded(c, k) <=> BodyEnded(c, k)' BY <1>5 DEF BodyEnded, Ends
<1>8. \A p : Split(c, p) <=> Split(c, p)' BY <1>2 DEF Split, BodyLinesOf, EndsOf
<1>9. Whole(c) <=> Whole(c)' BY <1>2, <1>4, <1>5, <1>6, <1>7, <1>8 DEF Whole
<1>10. \A t, p : Reading(c, t, p) <=> Reading(c, t, p)'
  BY <1>2, <1>4, <1>5, <1>6, <1>7, <1>8 DEF Reading
<1> QED BY <1>2, <1>3, <1>4, <1>9, <1>10

\* An instruction of one line, and of one more.
LEMMA BeginJoined ==
    ASSUME lines \in Seq(Line), NEW p \in 1 .. Len(lines), NEW c \in Child, c.start = p, c.pieces = <<p>>
    PROVE  Joined(c) /\ LastPiece(c) = p
<1>1. Len(lines) \in Nat OBVIOUS
<1>2. Len(c.pieces) = 1 /\ c.pieces[1] = p /\ DOMAIN c.pieces = {1} OBVIOUS
<1>3. LastPiece(c) = p BY <1>2 DEF LastPiece
<1>4. p \in PiecesOf(c) BY <1>2 DEF PiecesOf
<1> HIDE DEF Joined
<1> QED BY <1>1, <1>2, <1>3, <1>4 DEF Joined

LEMMA AppendJoined ==
    ASSUME lines \in Seq(Line), NEW c \in Child, NEW d \in Child, NEW p \in Nat, p + 1 <= Len(lines),
           Joined(c), lines[LastPiece(c)].last = MeantEscape,
           LastPiece(c) <= p, \A i \in LastPiece(c) + 1 .. p : Silent(i),
           d.start = c.start, Longer(d.pieces, c.pieces, p + 1)
    PROVE  Joined(d) /\ LastPiece(d) = p + 1
<1> DEFINE n == Len(c.pieces)
           x == c.pieces
           y == d.pieces
           l == LastPiece(c)
           s == c.start
<1>1. Len(lines) \in Nat /\ n \in Nat /\ x \in Seq(Nat) /\ s \in Nat
  BY ChildFields
<1>2. n >= 1 /\ x[1] = s /\ s >= 1 /\ s <= l BY DEF Joined
<1>3. l = x[n] /\ l \in Nat BY <1>1, <1>2 DEF LastPiece
<1>4. /\ Len(y) = n + 1 /\ y[n + 1] = p + 1 /\ \A k \in 1 .. n : y[k] = x[k]
  BY DEF Longer
<1>5. DOMAIN y = 1 .. n + 1 /\ DOMAIN x = 1 .. n /\ y \in Seq(Nat) BY <1>1, <1>4, ChildFields
<1>6. LastPiece(d) = p + 1 BY <1>4 DEF LastPiece
<1>7. /\ \A k \in 1 .. n : x[k] \in s .. l
      /\ \A k \in 1 .. n - 1 : /\ lines[x[k]].last = MeantEscape
                               /\ \A i \in x[k] + 1 .. x[k + 1] - 1 : Silent(i)
      /\ \A i \in s .. l : i \in PiecesOf(c) \/ Silent(i)
  BY <1>5 DEF Joined
<1>8. lines[l].last = MeantEscape /\ l <= p /\ \A i \in l + 1 .. p : Silent(i) OBVIOUS
<1>9. PiecesOf(c) = {x[k] : k \in 1 .. n} /\ PiecesOf(d) = {y[k] : k \in 1 .. n + 1}
  BY <1>5 DEF PiecesOf
<1>10. d.start = s OBVIOUS
<1> HIDE DEF n, x, y, l, s
<1>11. y[1] = s /\ s >= 1 /\ s <= p + 1 BY <1>1, <1>2, <1>3, <1>4, <1>8
<1>12. ASSUME NEW k \in 1 .. n + 1 PROVE y[k] \in s .. p + 1
  <2>1. CASE k = n + 1 BY <1>1, <1>4, <1>11, <2>1
  <2>2. CASE k # n + 1
    <3>1. k \in 1 .. n BY <1>1, <2>2
    <3> QED BY <1>1, <1>3, <1>4, <1>5, <1>7, <1>8, <3>1
  <2> QED BY <2>1, <2>2
<1>13. ASSUME NEW k \in 1 .. n
       PROVE  lines[y[k]].last = MeantEscape /\ \A i \in y[k] + 1 .. y[k + 1] - 1 : Silent(i)
  <2>1. CASE k = n
    <3>1. y[k] = l /\ y[k + 1] - 1 = p BY <1>1, <1>3, <1>4, <1>5, <2>1
    <3> QED BY <1>8, <3>1
  <2>2. CASE k # n
    <3>1. k \in 1 .. n - 1 /\ k + 1 \in 1 .. n BY <1>1, <2>2
    <3> QED BY <1>4, <1>7, <3>1
  <2> QED BY <2>1, <2>2
<1>14. ASSUME NEW i \in s .. p + 1 PROVE i \in PiecesOf(d) \/ Silent(i)
  <2>1. CASE i = p + 1
    <3>1. n + 1 \in 1 .. n + 1 BY <1>1
    <3> QED BY <1>4, <1>9, <2>1, <3>1
  <2>2. CASE i \in l + 1 .. p BY <1>8, <2>2
  <2>3. CASE i \in s .. l
    <3>1. i \in PiecesOf(c) \/ Silent(i) BY <1>7, <2>3
    <3>2. \A k \in 1 .. n : k \in 1 .. n + 1 /\ y[k] = x[k] BY <1>1, <1>4
    <3> QED BY <1>9, <3>1, <3>2
  <2> QED BY <1>1, <1>3, <2>1, <2>2, <2>3
<1>15. Len(y) - 1 = n /\ Len(y) >= 1 BY <1>1, <1>2, <1>4
<1> QED BY <1>5, <1>6, <1>10, <1>11, <1>12, <1>13, <1>14, <1>15 DEF Joined, y

\* Where the instruction and its heredocs end.
LEMMA MadeTyped ==
    ASSUME lines \in Seq(Line), NEW c \in Child, Joined(c)
    PROVE  Made(c) \in Nat /\ LastPiece(c) \in 1 .. Made(c) /\ Made(c) <= Len(lines)
<1>1. Len(lines) \in Nat /\ c.pieces \in Seq(Nat) /\ Len(c.pieces) \in Nat BY ChildFields
<1>2. Len(c.pieces) >= 1 /\ c.start >= 1 /\ c.start <= LastPiece(c) /\ LastPiece(c) <= Len(lines)
  BY DEF Joined
<1>3. LastPiece(c) \in Nat BY <1>1, <1>2 DEF LastPiece
<1>4. c.start \in Nat BY ChildFields
<1>5. LastPiece(c) >= 1 BY <1>2, <1>3, <1>4
<1> QED BY <1>1, <1>2, <1>3, <1>5 DEF Made

\* An instruction that does not go on.
LEMMA InstructionEnds ==
    ASSUME lines \in Seq(Line), NEW c \in Child, Joined(c),
           \/ lines[LastPiece(c)].last # MeantEscape
           \/ \A i \in LastPiece(c) + 1 .. Len(lines) : Silent(i)
    PROVE  Instruction(c)
<1>1. LastPiece(c) \in Nat BY MadeTyped
<1>2. CASE lines[LastPiece(c)].last # MeantEscape
  <2>1. Made(c) = LastPiece(c) BY <1>2 DEF Made
  <2>2. LastPiece(c) + 1 .. Made(c) = {} BY <1>1, <2>1
  <2> QED BY <2>2 DEF Instruction
<1>3. CASE lines[LastPiece(c)].last = MeantEscape
  BY <1>3 DEF Made, Instruction
<1> QED BY <1>2, <1>3

-----------------------------------------------------------------------------
\* No heredoc is read at first.
LEMMA BeginReading ==
    ASSUME lines \in Seq(Line), NEW c \in Child, Instruction(c), c.bodies = <<>>, c.ends = <<>>
    PROVE  Reading(c, c.docs, Made(c))
<1>1. Made(c) \in Nat BY MadeTyped DEF Instruction
<1>2. Len(c.docs) \in Nat BY ChildFields
<1>3. Len(c.bodies) = 0 /\ Len(c.ends) = 0 /\ DOMAIN c.bodies = {} /\ DOMAIN c.ends = {} OBVIOUS
<1>4. BodyLinesOf(c) = {} /\ EndsOf(c) = {} BY <1>3 DEF BodyLinesOf, EndsOf
<1>5. Made(c) + 1 .. Made(c) = {} BY <1>1
<1>6. Split(c, Made(c)) BY <1>4, <1>5 DEF Split
<1>7. Before(c, 1) = Made(c) BY DEF Before
<1>8. \A k \in DOMAIN c.docs : c.docs[k] = c.docs[0 + k] BY <1>2
<1> QED BY <1>1, <1>2, <1>3, <1>6, <1>7, <1>8 DEF Reading

\* What is read of the next heredoc.
CurrentBody(c) == IF Len(c.bodies) = Len(c.ends) THEN <<>> ELSE c.bodies[Len(c.bodies)]
Elements(s) == {s[j] : j \in DOMAIN s}
EarlierBodies(c, n) == UNION {Elements(c.bodies[k]) : k \in 1 .. n}

LEMMA Successor ==
    ASSUME NEW n \in Nat
    PROVE  /\ 1 .. n + 1 = (1 .. n) \cup {n + 1} /\ n + 1 \notin 1 .. n /\ n + 1 \in 1 .. n + 1
           /\ \A k \in 1 .. n : k \in 1 .. n + 1 /\ k # n + 1
  OBVIOUS

LEMMA BodiesGrow ==
    ASSUME NEW c, NEW n \in Nat
    PROVE  EarlierBodies(c, n + 1) = EarlierBodies(c, n) \cup Elements(c.bodies[n + 1])
<1>1. 1 .. n + 1 = (1 .. n) \cup {n + 1} BY Successor
<1> QED BY <1>1 DEF EarlierBodies

LEMMA AllBodies ==
    ASSUME NEW c \in Child
    PROVE  BodyLinesOf(c) = EarlierBodies(c, Len(c.bodies))
<1>1. DOMAIN c.bodies = 1 .. Len(c.bodies) BY ChildFields
<1> QED BY <1>1 DEF BodyLinesOf, EarlierBodies, Elements

LEMMA AppendElements ==
    ASSUME NEW s \in Seq(Nat), NEW a \in Seq(Nat), Len(a) = Len(s) + 1, \A j \in 1 .. Len(s) : a[j] = s[j]
    PROVE  Elements(a) = Elements(s) \cup {a[Len(s) + 1]}
<1>1. Len(s) \in Nat /\ DOMAIN s = 1 .. Len(s) /\ DOMAIN a = 1 .. Len(s) + 1 OBVIOUS
<1>2. 1 .. Len(s) + 1 = (1 .. Len(s)) \cup {Len(s) + 1} BY <1>1, Successor
<1> QED BY <1>1, <1>2 DEF Elements

LEMMA NextBody ==
    ASSUME lines \in Seq(Line), NEW c \in Child, NEW t \in Seq(Doc), t # <<>>, NEW p \in Nat, Reading(c, t, p)
    PROVE  /\ Len(c.ends) \in Nat /\ Len(c.ends) + 1 <= Len(c.docs) /\ t[1] = c.docs[Len(c.ends) + 1]
           /\ Before(c, Len(c.ends) + 1) \in Nat /\ CurrentBody(c) \in Seq(Nat)
           /\ p = Before(c, Len(c.ends) + 1) + Len(CurrentBody(c))
           /\ CurrentBody(c) = [j \in 1 .. Len(CurrentBody(c)) |-> Before(c, Len(c.ends) + 1) + j]
           /\ \A j \in DOMAIN CurrentBody(c) :
                /\ CurrentBody(c)[j] \in DOMAIN lines
                /\ ~Ends(lines[CurrentBody(c)[j]], c.docs[Len(c.ends) + 1])
           /\ BodyLinesOf(c) = EarlierBodies(c, Len(c.ends)) \cup Elements(CurrentBody(c))
<1> DEFINE e == Len(c.ends)
           B == CurrentBody(c)
<1>1. /\ e \in Nat /\ Len(c.bodies) \in Nat /\ Len(c.docs) \in Nat /\ c.ends \in Seq(Nat)
      /\ c.bodies \in Seq(Seq(Nat))
  BY ChildFields
<1>2. Len(c.bodies) \in {e, e + 1} /\ Len(t) = Len(c.docs) - e /\ \A k \in DOMAIN t : t[k] = c.docs[e + k]
  BY DEF Reading
<1>3. e + 1 <= Len(c.docs) /\ t[1] = c.docs[e + 1]
  <2>1. Len(t) \in Nat /\ Len(t) # 0 OBVIOUS
  <2>2. 1 \in DOMAIN t BY <2>1
  <2> QED BY <1>1, <1>2, <2>1, <2>2
<1>4. Before(c, e + 1) \in Nat
  <2>1. CASE e = 0
    <3>1. Made(c) \in Nat BY MadeTyped DEF Reading, Instruction
    <3> QED BY <2>1, <3>1 DEF Before
  <2>2. CASE e # 0
    <3>1. e \in 1 .. Len(c.ends) BY <1>1, <2>2
    <3>2. c.ends[e] \in Nat BY <1>1, <3>1
    <3>3. e + 1 # 1 /\ e + 1 - 1 = e BY <1>1, <2>2
    <3> QED BY <3>2, <3>3 DEF Before
  <2> QED BY <2>1, <2>2
<1>5. CASE Len(c.bodies) = e
  <2>1. B = <<>> /\ B \in Seq(Nat) /\ Len(B) = 0 /\ DOMAIN B = {} BY <1>5 DEF CurrentBody
  <2>2. p = Before(c, e + 1) BY <1>5 DEF Reading
  <2>3. B = [j \in 1 .. Len(B) |-> Before(c, e + 1) + j]
    <3>1. 1 .. Len(B) = {} BY <2>1
    <3> QED BY <2>1, <3>1
  <2>4. p = Before(c, e + 1) + Len(B) BY <1>4, <2>1, <2>2
  <2>5. BodyLinesOf(c) = EarlierBodies(c, e) \cup Elements(B)
    <3>1. Elements(B) = {} BY <2>1 DEF Elements
    <3> QED BY <1>5, <3>1, AllBodies
  <2>6. \A j \in DOMAIN B : B[j] \in DOMAIN lines /\ ~Ends(lines[B[j]], c.docs[e + 1]) BY <2>1
  <2>7. B \in Seq(Nat) BY <2>1
  <2> QED BY <1>1, <1>3, <1>4, <2>3, <2>4, <2>5, <2>6, <2>7
<1>6. CASE Len(c.bodies) = e + 1
  <2>1. e + 1 # e /\ e + 1 \in 1 .. e + 1 BY <1>1
  <2>2. B = c.bodies[e + 1] BY <1>6, <2>1 DEF CurrentBody
  <2>3. B \in Seq(Nat) BY <1>1, <1>6, <2>1, <2>2
  <2>4. p = Before(c, e + 1) + Len(B) BY <1>6, <2>1, <2>2 DEF Reading
  <2>5. BodyRead(c, e + 1) BY <1>6, <2>1 DEF Reading
  <2>6. B = [j \in 1 .. Len(B) |-> Before(c, e + 1) + j] BY <2>2, <2>5 DEF BodyRead
  <2>7. \A j \in DOMAIN B : B[j] \in DOMAIN lines /\ ~Ends(lines[B[j]], c.docs[e + 1])
    BY <2>2, <2>5 DEF BodyRead
  <2>8. BodyLinesOf(c) = EarlierBodies(c, e) \cup Elements(B)
    BY <1>1, <1>6, <2>2, AllBodies, BodiesGrow
  <2> QED BY <1>1, <1>3, <1>4, <2>3, <2>4, <2>6, <2>7, <2>8
<1> QED BY <1>2, <1>5, <1>6

\* Nodes that agree on a heredoc.
LEMMA SameBody ==
    ASSUME NEW c, NEW d, NEW k, d.docs = c.docs, d.bodies[k] = c.bodies[k], Before(d, k) = Before(c, k)
    PROVE  /\ BodyRead(c, k) => BodyRead(d, k)
           /\ d.ends[k] = c.ends[k] /\ BodyEnded(c, k) => BodyEnded(d, k)
<1>1. BodyRead(c, k) => BodyRead(d, k) BY DEF BodyRead
<1>2. d.ends[k] = c.ends[k] /\ BodyEnded(c, k) => BodyEnded(d, k) BY DEF BodyEnded
<1> QED BY <1>1, <1>2

\* One more line of a heredoc.
LEMMA HeredocGoes ==
    ASSUME lines \in Seq(Line), NEW c \in Child, NEW t \in Seq(Doc), t # <<>>, NEW p \in Nat, Reading(c, t, p),
           p + 1 \in DOMAIN lines, ~Ends(lines[p + 1], t[1]),
           NEW d \in Child, d.pieces = c.pieces, d.start = c.start, d.docs = c.docs, d.ends = c.ends,
           Len(d.bodies) = Len(c.ends) + 1, Longer(d.bodies[Len(c.ends) + 1], CurrentBody(c), p + 1),
           \A k \in 1 .. Len(c.ends) : d.bodies[k] = c.bodies[k]
    PROVE  Reading(d, t, p + 1)
<1> DEFINE e == Len(c.ends)
           B == CurrentBody(c)
           n == Len(B)
           F == Before(c, e + 1)
           A == d.bodies[e + 1]
<1>1. /\ e \in Nat /\ e + 1 <= Len(c.docs) /\ t[1] = c.docs[e + 1]
      /\ F \in Nat /\ B \in Seq(Nat) /\ p = F + n
      /\ B = [j \in 1 .. n |-> F + j]
      /\ \A j \in DOMAIN B : B[j] \in DOMAIN lines /\ ~Ends(lines[B[j]], c.docs[e + 1])
      /\ BodyLinesOf(c) = EarlierBodies(c, e) \cup Elements(B)
  BY NextBody
<1>2. n \in Nat /\ Made(d) = Made(c) /\ Instruction(d)
  <2>1. n \in Nat BY <1>1
  <2> QED BY <2>1, SamePieces DEF Reading
<1>3. \A k : Before(d, k) = Before(c, k) BY <1>2 DEF Before
<1>a. Len(d.bodies) = e + 1 /\ d.bodies[e + 1] = A /\ \A k \in 1 .. e : d.bodies[k] = c.bodies[k]
  OBVIOUS
<1>4. /\ Len(A) = n + 1 /\ DOMAIN A = 1 .. n + 1 /\ A[n + 1] = p + 1 /\ \A j \in 1 .. n : A[j] = B[j]
      /\ Elements(A) = Elements(B) \cup {p + 1} /\ DOMAIN B = 1 .. n /\ A \in Seq(Nat)
  <2>1. p + 1 \in Nat /\ B \in Seq(Nat) /\ Longer(A, B, p + 1) BY <1>1
  <2> HIDE DEF B, A
  <2>2. /\ Len(A) = n + 1 /\ DOMAIN A = 1 .. n + 1 /\ A[n + 1] = p + 1 /\ \A j \in 1 .. n : A[j] = B[j]
        /\ DOMAIN B = 1 .. n /\ A \in Seq(Nat)
    BY <2>1 DEF Longer
  <2>3. Elements(A) = Elements(B) \cup {A[n + 1]} BY <2>1, <2>2, AppendElements
  <2> QED BY <2>2, <2>3
<1> HIDE DEF A, B, n, F, e
<1>5. BodyRead(d, e + 1)
  <2>1. A = [j \in 1 .. n + 1 |-> F + j]
    <3>1. \A j \in 1 .. n : A[j] = F + j BY <1>1, <1>4
    <3>2. A[n + 1] = F + (n + 1) BY <1>1, <1>2, <1>4
    <3>3. \A j \in 1 .. n + 1 : A[j] = F + j BY <1>2, <3>1, <3>2
    <3> QED BY <1>4, <3>3
  <2>2. ASSUME NEW j \in 1 .. n + 1 PROVE A[j] \in DOMAIN lines /\ ~Ends(lines[A[j]], d.docs[e + 1])
    <3>1. CASE j = n + 1 BY <1>1, <1>4, <3>1
    <3>2. CASE j # n + 1
      <4>1. j \in 1 .. n BY <1>2, <3>2
      <4> QED BY <1>1, <1>4, <4>1
    <3> QED BY <3>1, <3>2
  <2> QED BY <1>a, <1>3, <1>4, <2>1, <2>2 DEF BodyRead, F
<1>6. ASSUME NEW k \in 1 .. e PROVE BodyRead(d, k) /\ BodyEnded(d, k)
  <2>1. k \in 1 .. Len(c.bodies)
    <3>1. Len(c.bodies) \in {e, e + 1} BY DEF Reading, e
    <3>2. e \in Nat BY <1>1
    <3> QED BY <3>1, <3>2
  <2>2. BodyRead(c, k) /\ BodyEnded(c, k) BY <2>1 DEF Reading, e
  <2>3. d.bodies[k] = c.bodies[k] /\ Before(d, k) = Before(c, k) BY <1>a, <1>3
  <2> QED BY <2>2, <2>3, SameBody
<1>7. \A k \in 1 .. e + 1 : BodyRead(d, k) BY <1>1, <1>5, <1>6
<1>8. Made(d) \in Nat /\ p >= Made(c) /\ p + 1 >= Made(d)
  <2>1. Made(d) \in Nat BY <1>2, MadeTyped DEF Instruction
  <2>2. p >= Made(c) BY DEF Reading
  <2> QED BY <1>2, <2>1, <2>2
<1>9. BodyLinesOf(d) = BodyLinesOf(c) \cup {p + 1}
  <2>1. EarlierBodies(d, e) = EarlierBodies(c, e) BY <1>a DEF EarlierBodies
  <2>2. BodyLinesOf(d) = EarlierBodies(d, e) \cup Elements(A)
    BY <1>1, <1>a, AllBodies, BodiesGrow
  <2> QED BY <1>1, <1>4, <2>1, <2>2
<1>10. Split(d, p + 1)
  <2>1. BodyLinesOf(c) \cup EndsOf(c) = Made(c) + 1 .. p /\ BodyLinesOf(c) \cap EndsOf(c) = {}
    BY DEF Reading, Split
  <2>2. EndsOf(d) = EndsOf(c) BY DEF EndsOf
  <2>3. p + 1 \notin Made(c) + 1 .. p OBVIOUS
  <2>4. Made(c) + 1 .. p + 1 = (Made(c) + 1 .. p) \cup {p + 1} BY <1>2, <1>8
  <2>5. p + 1 \notin EndsOf(c) BY <2>1, <2>3
  <2> QED BY <1>2, <1>9, <2>1, <2>2, <2>4, <2>5 DEF Split
<1>11. e + 1 # e /\ p + 1 = Before(d, e + 1) + Len(d.bodies[e + 1])
  <2>1. Len(d.bodies[e + 1]) = n + 1 /\ Before(d, e + 1) = F BY <1>a, <1>3, <1>4 DEF F
  <2> QED BY <1>1, <1>2, <2>1
<1>12. Len(t) = Len(d.docs) - e /\ \A k \in DOMAIN t : t[k] = d.docs[e + k] BY DEF Reading, e
<1>13. Len(d.ends) = e BY DEF e
<1> QED BY <1>1, <1>2, <1>a, <1>6, <1>7, <1>8, <1>10, <1>11, <1>12, <1>13 DEF Reading

\* The line that ends it.
LEMMA HeredocEnds ==
    ASSUME lines \in Seq(Line), NEW c \in Child, NEW t \in Seq(Doc), t # <<>>, NEW p \in Nat, Reading(c, t, p),
           p + 1 \in DOMAIN lines, Ends(lines[p + 1], t[1]),
           NEW d \in Child, d.pieces = c.pieces, d.start = c.start, d.docs = c.docs,
           Longer(d.ends, c.ends, p + 1), Len(d.bodies) = Len(c.ends) + 1,
           d.bodies[Len(c.ends) + 1] = CurrentBody(c),
           \A k \in 1 .. Len(c.ends) : d.bodies[k] = c.bodies[k],
           NEW u \in Seq(Doc), Rest(u, t)
    PROVE  Reading(d, u, p + 1)
<1> DEFINE e == Len(c.ends)
           B == CurrentBody(c)
           n == Len(B)
           F == Before(c, e + 1)
<1>1. /\ e \in Nat /\ e + 1 <= Len(c.docs) /\ t[1] = c.docs[e + 1]
      /\ F \in Nat /\ B \in Seq(Nat) /\ p = F + n
      /\ B = [j \in 1 .. n |-> F + j]
      /\ \A j \in DOMAIN B : B[j] \in DOMAIN lines /\ ~Ends(lines[B[j]], c.docs[e + 1])
      /\ BodyLinesOf(c) = EarlierBodies(c, e) \cup Elements(B)
  BY NextBody
<1>2. n \in Nat /\ Made(d) = Made(c) /\ Instruction(d)
  <2>1. n \in Nat BY <1>1
  <2> QED BY <2>1, SamePieces DEF Reading
<1>a. Len(d.bodies) = e + 1 /\ d.bodies[e + 1] = B /\ \A k \in 1 .. e : d.bodies[k] = c.bodies[k]
  OBVIOUS
<1>3. /\ Len(d.ends) = e + 1 /\ d.ends[e + 1] = p + 1
      /\ \A k \in 1 .. e : d.ends[k] = c.ends[k]
      /\ EndsOf(d) = EndsOf(c) \cup {p + 1}
  <2>1. c.ends \in Seq(Nat) /\ p + 1 \in Nat /\ Longer(d.ends, c.ends, p + 1) BY ChildFields
  <2> DEFINE x == c.ends
             y == d.ends
             q == p + 1
  <2> HIDE DEF x, y, q
  <2>2. x \in Seq(Nat) /\ q \in Nat /\ Longer(y, x, q) BY <2>1 DEF x, y, q
  <2>3. /\ Len(y) = Len(x) + 1 /\ \A j \in 1 .. Len(x) : y[j] = x[j]
        /\ y[Len(x) + 1] = q /\ y \in Seq(Nat)
    BY <2>2 DEF Longer
  <2>4. Elements(y) = Elements(x) \cup {q} BY <2>2, <2>3, AppendElements
  <2> QED BY <2>3, <2>4 DEF Elements, EndsOf, x, y, q
<1> HIDE DEF B, n, F, e
<1>4. ASSUME NEW k \in 1 .. e + 1 PROVE Before(d, k) = Before(c, k)
  <2>1. k # 1 => k - 1 \in 1 .. e BY <1>1
  <2> QED BY <1>2, <1>3, <2>1 DEF Before
<1>5. Before(d, e + 1 + 1) = p + 1
  <2>1. e + 1 + 1 # 1 /\ e + 1 + 1 - 1 = e + 1 BY <1>1
  <2> QED BY <1>3, <2>1 DEF Before
<1>6. ASSUME NEW k \in 1 .. e PROVE BodyRead(d, k) /\ BodyEnded(d, k)
  <2>1. k \in 1 .. Len(c.bodies) /\ k \in 1 .. e + 1
    <3>1. Len(c.bodies) \in {e, e + 1} BY DEF Reading, e
    <3>2. e \in Nat BY <1>1
    <3> QED BY <3>1, <3>2
  <2>2. BodyRead(c, k) /\ BodyEnded(c, k) BY <2>1 DEF Reading, e
  <2>3. Before(d, k) = Before(c, k) BY <1>4, <2>1
  <2>4. d.bodies[k] = c.bodies[k] /\ d.ends[k] = c.ends[k] BY <1>a, <1>3
  <2> QED BY <2>2, <2>3, <2>4, SameBody
<1>7. BodyRead(d, e + 1) /\ BodyEnded(d, e + 1)
  <2>1. e + 1 \in 1 .. e + 1 BY <1>1
  <2>2. Before(d, e + 1) = F BY <1>4, <2>1 DEF F
  <2>3. BodyRead(d, e + 1) BY <1>1, <1>a, <2>2 DEF BodyRead, n
  <2>4. d.ends[e + 1] = F + Len(d.bodies[e + 1]) + 1 BY <1>1, <1>a, <1>2, <1>3 DEF n
  <2>5. d.ends[e + 1] \in DOMAIN lines /\ Ends(lines[d.ends[e + 1]], d.docs[e + 1]) BY <1>1, <1>3
  <2>6. BodyEnded(d, e + 1) BY <2>2, <2>4, <2>5 DEF BodyEnded
  <2> QED BY <2>3, <2>6
<1>8. \A k \in 1 .. e + 1 : BodyRead(d, k) /\ BodyEnded(d, k) BY <1>1, <1>6, <1>7
<1>9. Made(d) \in Nat /\ p >= Made(c) /\ p + 1 >= Made(d)
  <2>1. Made(d) \in Nat BY <1>2, MadeTyped DEF Instruction
  <2>2. p >= Made(c) BY DEF Reading
  <2> QED BY <1>2, <2>1, <2>2
<1>10. BodyLinesOf(d) = BodyLinesOf(c)
  <2>1. EarlierBodies(d, e) = EarlierBodies(c, e) BY <1>a DEF EarlierBodies
  <2>2. BodyLinesOf(d) = EarlierBodies(d, e + 1) BY <1>a, AllBodies
  <2>3. EarlierBodies(d, e + 1) = EarlierBodies(d, e) \cup Elements(B)
    <3>1. e \in Nat BY <1>1
    <3>2. EarlierBodies(d, e + 1) = EarlierBodies(d, e) \cup Elements(d.bodies[e + 1]) BY <3>1, BodiesGrow
    <3> QED BY <1>a, <3>2
  <2> QED BY <1>1, <2>1, <2>2, <2>3
<1>12. Split(d, p + 1)
  <2>1. BodyLinesOf(c) \cup EndsOf(c) = Made(c) + 1 .. p /\ BodyLinesOf(c) \cap EndsOf(c) = {}
    BY DEF Reading, Split
  <2>2. p + 1 \notin Made(c) + 1 .. p OBVIOUS
  <2>3. Made(c) + 1 .. p + 1 = (Made(c) + 1 .. p) \cup {p + 1} BY <1>2, <1>9
  <2>4. p + 1 \notin BodyLinesOf(c) BY <2>1, <2>2
  <2> QED BY <1>2, <1>3, <1>10, <2>1, <2>3, <2>4 DEF Split
<1>13. Len(u) = Len(d.docs) - (e + 1) /\ \A k \in DOMAIN u : u[k] = d.docs[e + 1 + k]
  <2>1. /\ Len(t) \in Nat /\ DOMAIN t = 1 .. Len(t)
        /\ DOMAIN u = 1 .. Len(t) - 1 /\ Len(u) = Len(t) - 1
        /\ \A k \in 1 .. Len(t) - 1 : u[k] = t[k + 1]
    BY DEF Rest
  <2>2. Len(t) = Len(c.docs) - e /\ \A k \in DOMAIN t : t[k] = c.docs[e + k] BY DEF Reading, e
  <2>3. Len(c.docs) \in Nat BY ChildFields
  <2>4. ASSUME NEW k \in 1 .. Len(t) - 1 PROVE u[k] = d.docs[e + 1 + k]
    <3> DEFINE j == k + 1
    <3>1. j \in DOMAIN t /\ e + j = e + 1 + k BY <1>1, <2>1
    <3>2. u[k] = t[j] BY <2>1
    <3> HIDE DEF j
    <3>3. t[j] = c.docs[e + j] BY <2>2, <3>1
    <3>4. c.docs[e + j] = d.docs[e + 1 + k] BY <3>1
    <3> QED BY <3>2, <3>3, <3>4, Zenon
  <2>5. Len(u) = Len(d.docs) - (e + 1) BY <1>1, <2>1, <2>2, <2>3
  <2> QED BY <2>1, <2>4, <2>5
<1> DEFINE m == e + 1
<1>14. /\ Len(d.ends) = m /\ Len(d.bodies) = m /\ m <= Len(d.docs)
       /\ Len(u) = Len(d.docs) - m /\ \A k \in DOMAIN u : u[k] = d.docs[m + k]
       /\ \A k \in 1 .. m : BodyRead(d, k) /\ BodyEnded(d, k)
       /\ p + 1 = Before(d, m + 1)
  BY <1>1, <1>a, <1>3, <1>5, <1>8, <1>13
<1> HIDE DEF m
<1>15. Instruction(d) /\ p + 1 >= Made(d) /\ Split(d, p + 1) BY <1>2, <1>9, <1>12
<1> DEFINE r == p + 1
<1> HIDE DEF r
<1>16. p + 1 = r BY DEF r
<1>17. Reading(d, u, r) BY <1>14, <1>15, <1>16 DEF Reading
<1> QED BY <1>16, <1>17

-----------------------------------------------------------------------------
\* What a line after a continuation token does to the node.
LEMMA ContinuationChild ==
    ASSUME TypeInv, Continuation
    PROVE  /\ child' \in Child /\ child'.start = child.start /\ child'.comments = child.comments
           /\ child'.docs = child.docs /\ child'.bodies = child.bodies /\ child'.ends = child.ends
           /\ Token.kind = "text" => Longer(child'.pieces, child.pieces, pos + 1)
           /\ Token.kind # "text" => child'.pieces = child.pieces
<1>1. child \in Child /\ pos \in Nat BY DEF TypeInv
<1>2. child.pieces \in Seq(Nat) BY <1>1, ChildFields
<1>3. CASE Token.kind = "text"
  <2> DEFINE a == Append(child.pieces, pos + 1)
  <2>1. a \in Seq(Nat) /\ Longer(a, child.pieces, pos + 1) BY <1>1, <1>2 DEF Longer
  <2>2. child' = [child EXCEPT !.pieces = a] BY <1>3 DEF Continuation
  <2> HIDE DEF a
  <2> QED BY <1>1, <1>3, <2>1, <2>2, WithPieces
<1>4. CASE Token.kind # "text"
  <2>1. child' = [child EXCEPT !.warned = TRUE] \/ child' = child BY <1>4 DEF Continuation
  <2> QED BY <1>1, <1>4, <2>1, WithWarned
<1> QED BY <1>3, <1>4

\* The node made of the instruction has its heredocs to read.
LEMMA NodeChild ==
    ASSUME TypeInv, MakeNode
    PROVE  /\ child' \in Child /\ child'.start = child.start /\ child'.pieces = child.pieces
           /\ child'.bodies = child.bodies /\ child'.ends = child.ends
           /\ child'.docs = todo' /\ child'.comments = comments
<1>1. child \in Child /\ comments \in Seq(Nat) BY DEF TypeInv
<1>2. HeredocsOf \in Seq(Doc) BY HeredocsTyped
<1>3. child' = [child EXCEPT !.comments = comments, !.docs = HeredocsOf] /\ todo' = HeredocsOf
  BY DEF MakeNode
<1> DEFINE h == HeredocsOf
<1> HIDE DEF h
<1>4. h \in Seq(Doc) /\ child' = [child EXCEPT !.comments = comments, !.docs = h] /\ todo' = h
  BY <1>2, <1>3 DEF h
<1> QED BY <1>1, <1>4 DEF Child

\* What is read of the node's heredocs after one more line.
LEMMA ReadingStep ==
    ASSUME TypeInv, UNCHANGED lines, Reading(child, todo, pos), HeredocLine
    PROVE  Reading(child', todo', pos')
<1>1. /\ lines \in Seq(Line) /\ pos \in Nat /\ pos' = pos + 1 /\ pos + 1 \in DOMAIN lines
      /\ Token = lines[pos + 1] /\ child \in Child /\ todo \in Seq(Doc) /\ todo # <<>>
      /\ Len(child.bodies) \in {Len(child.ends), Len(child.ends) + 1}
  <2>1. pos + 1 \in DOMAIN lines BY Position DEF HeredocLine, Scans
  <2> QED BY <2>1, Position, ScanStep DEF HeredocLine, TypeInv
<1>2. /\ child.bodies \in Seq(Seq(Nat)) /\ child.ends \in Seq(Nat)
      /\ Len(child.bodies) \in Nat /\ Len(child.ends) \in Nat
  BY <1>1, ChildFields
<1>3. /\ child' \in Child /\ child'.pieces = child.pieces /\ child'.start = child.start
      /\ child'.docs = child.docs
      /\ Ends(Token, Head(todo)) => child'.bodies = Bodies(Body) /\ child'.ends = Append(child.ends, pos + 1)
      /\ ~Ends(Token, Head(todo)) =>
           child'.bodies = Bodies(Append(Body, pos + 1)) /\ child'.ends = child.ends
  BY HeredocChild
<1>4. Body = CurrentBody(child) BY DEF Body, CurrentBody
<1>5. Body \in Seq(Nat) BY <1>1, <1>4, NextBody
<1>6. ASSUME NEW b \in Seq(Nat)
      PROVE  /\ Len(Bodies(b)) = Len(child.ends) + 1 /\ Bodies(b)[Len(child.ends) + 1] = b
             /\ \A k \in 1 .. Len(child.ends) : Bodies(b)[k] = child.bodies[k]
  <2>1. CASE ~Reads
    <3>1. Len(child.bodies) = Len(child.ends) BY <2>1 DEF Reads
    <3>2. /\ Len(Bodies(b)) = Len(child.bodies) + 1 /\ Bodies(b)[Len(child.bodies) + 1] = b
          /\ \A k \in 1 .. Len(child.bodies) : Bodies(b)[k] = child.bodies[k]
      BY <1>1, <2>1, BodiesTyped
    <3> QED BY <3>1, <3>2
  <2>2. CASE Reads
    <3>1. Len(child.bodies) = Len(child.ends) + 1 BY <1>1, <2>2 DEF Reads
    <3>2. Len(child.bodies) - 1 = Len(child.ends) BY <1>2, <3>1
    <3>3. /\ Len(Bodies(b)) = Len(child.bodies) /\ Bodies(b)[Len(child.bodies)] = b
          /\ \A k \in 1 .. Len(child.bodies) - 1 : Bodies(b)[k] = child.bodies[k]
      BY <1>1, <2>2, BodiesTyped
    <3> QED BY <3>1, <3>2, <3>3
  <2> QED BY <2>1, <2>2
<1>7. Head(todo) = todo[1] BY <1>1
<1>8. CASE ~Ends(Token, Head(todo))
  <2> DEFINE b == Append(Body, pos + 1)
  <2>1. b \in Seq(Nat) /\ Longer(b, Body, pos + 1) BY <1>1, <1>5 DEF Longer
  <2>2. child'.bodies = Bodies(b) /\ child'.ends = child.ends BY <1>3, <1>8
  <2>3. todo' = todo BY <1>8 DEF HeredocLine
  <2> HIDE DEF b
  <2>4. /\ Len(child'.bodies) = Len(child.ends) + 1
        /\ Longer(child'.bodies[Len(child.ends) + 1], CurrentBody(child), pos + 1)
        /\ \A k \in 1 .. Len(child.ends) : child'.bodies[k] = child.bodies[k]
    BY <1>4, <1>6, <2>1, <2>2
  <2>5. ~Ends(lines[pos + 1], todo[1]) BY <1>1, <1>7, <1>8
  <2>6. Reading(child', todo, pos + 1) BY <1>1, <1>3, <2>2, <2>4, <2>5, HeredocGoes
  <2> QED BY <1>1, <2>3, <2>6
<1>9. CASE Ends(Token, Head(todo))
  <2> DEFINE a == Append(child.ends, pos + 1)
             u == Tail(todo)
  <2>1. Longer(a, child.ends, pos + 1) BY <1>1, <1>2 DEF Longer
  <2>2. u \in Seq(Doc) /\ Rest(u, todo) BY <1>1 DEF Rest
  <2>3. todo' = u BY <1>9 DEF HeredocLine
  <2>4. child'.bodies = Bodies(Body) /\ child'.ends = a BY <1>3, <1>9
  <2> HIDE DEF a, u
  <2>5. /\ Len(child'.bodies) = Len(child.ends) + 1
        /\ child'.bodies[Len(child.ends) + 1] = CurrentBody(child)
        /\ \A k \in 1 .. Len(child.ends) : child'.bodies[k] = child.bodies[k]
    BY <1>4, <1>5, <1>6, <2>4
  <2>6. Ends(lines[pos + 1], todo[1]) BY <1>1, <1>7, <1>9
  <2>7. Reading(child', u, pos + 1) BY <1>1, <1>3, <2>1, <2>2, <2>4, <2>5, <2>6, HeredocEnds
  <2> QED BY <1>1, <2>3, <2>7
<1> QED BY <1>8, <1>9

LEMMA ChildStep ==
    ASSUME TypeInv, HeadInv, ChildInv, [Next]_vars, Good'
    PROVE  ChildInv'
<1>0. /\ UNCHANGED lines /\ lines \in Seq(Line) /\ pos \in Nat /\ pos <= Len(lines) /\ Len(lines) \in Nat
      /\ child \in Child
      /\ phase \in {"first", "end", "done"} \cup Making
  <2>1. UNCHANGED lines BY DEF Next, vars
  <2> QED BY <2>1, Position DEF TypeInv
<1>g. outcome # "directive" /\ scan' = "ok" /\ outcome' \in {"running", "parsed"}
  BY GoodStep DEF Good
<1>e. done => escape = MeantEscape BY <1>g, HeadRead
<1>d. phase \in Making => done BY <1>g DEF HeadInv
<1>s. /\ MeantEscape' = MeantEscape /\ \A i : Silent(i) <=> Silent(i)'
      /\ LastPiece(child') = LastPiece(child)' /\ Made(child') = Made(child)'
      /\ Joined(child') <=> Joined(child)'
      /\ Instruction(child') <=> Instruction(child)'
      /\ Reading(child', todo', pos') <=> Reading(child, todo, pos)'
  BY <1>0, SameLines, SameNodes
<1>1. CASE phase' \notin Making BY <1>1 DEF ChildInv, Making
<1>2. CASE BeginInstruction
  <2>1. /\ pos' = pos + 1 /\ Token = lines[pos + 1] /\ pos + 1 \in 1 .. Len(lines)
        /\ Scans /\ Token.kind = "text" /\ phase' = IF Token.last = escape THEN "continuation" ELSE "node"
    <3>1. pos + 1 \in 1 .. Len(lines) BY <1>0, <1>2 DEF BeginInstruction, Scans
    <3> QED BY <1>0, <1>2, <3>1, ScanStep DEF BeginInstruction, Continues
  <2>2. escape = MeantEscape BY <1>g, <2>1, HeadRead
  <2>3. /\ child' \in Child /\ child'.start = pos + 1 /\ child'.pieces = <<pos + 1>>
        /\ child'.docs = <<>> /\ child'.bodies = <<>> /\ child'.ends = <<>>
    BY <1>2, BeginChild
  <2>4. Joined(child') /\ LastPiece(child') = pos + 1 BY <1>0, <2>1, <2>3, BeginJoined
  <2>5. CASE Token.last = escape
    <3>1. pos + 1 + 1 .. pos + 1 = {} BY <1>0
    <3> QED BY <1>0, <1>s, <2>1, <2>2, <2>3, <2>4, <2>5, <3>1 DEF ChildInv
  <2>6. CASE Token.last # escape
    <3>1. lines[LastPiece(child')].last # MeantEscape BY <2>1, <2>2, <2>4, <2>6
    <3>2. Instruction(child') BY <1>0, <2>3, <2>4, <3>1, InstructionEnds
    <3>3. Made(child') = pos + 1 BY <2>4, <3>1 DEF Made
    <3> QED BY <1>s, <2>1, <2>3, <2>6, <3>2, <3>3 DEF ChildInv
  <2> QED BY <2>5, <2>6
<1>3. CASE Continuation
  <2>1. /\ pos' = pos + 1 /\ Token = lines[pos + 1] /\ pos + 1 <= Len(lines)
        /\ phase = "continuation"
        /\ phase' = IF Token.kind = "text" /\ Token.last # escape THEN "node" ELSE "continuation"
    <3>1. pos + 1 <= Len(lines) BY <1>0, <1>3 DEF Continuation, Scans
    <3> QED BY <1>0, <1>3, <3>1, ScanStep DEF Continuation, Continues
  <2>2. escape = MeantEscape BY <1>d, <1>e, <2>1 DEF Making
  <2>3. /\ Joined(child) /\ lines[LastPiece(child)].last = MeantEscape
        /\ \A i \in LastPiece(child) + 1 .. pos : Silent(i)
        /\ child.docs = <<>> /\ child.bodies = <<>> /\ child.ends = <<>>
    BY <2>1 DEF ChildInv
  <2>4. LastPiece(child) \in 1 .. pos
    <3>1. child.pieces \in Seq(Nat) /\ Len(child.pieces) \in Nat /\ Len(child.pieces) >= 1
      BY <1>0, <2>3, ChildFields DEF Joined
    <3>2. Len(child.pieces) \in DOMAIN child.pieces BY <3>1
    <3> QED BY <3>2 DEF TypeInv, LastPiece
  <2>5. /\ child' \in Child /\ child'.start = child.start
        /\ child'.docs = <<>> /\ child'.bodies = <<>> /\ child'.ends = <<>>
        /\ Token.kind = "text" => Longer(child'.pieces, child.pieces, pos + 1)
        /\ Token.kind # "text" => child'.pieces = child.pieces
    BY <1>3, <2>3, ContinuationChild
  <2>6. CASE Token.kind = "text"
    <3>1. LastPiece(child) <= pos BY <1>0, <2>4
    <3>2. Joined(child') /\ LastPiece(child') = pos + 1
      BY <1>0, <2>1, <2>3, <2>5, <2>6, <3>1, AppendJoined
    <3>3. CASE Token.last = escape
      <4>1. pos + 1 + 1 .. pos + 1 = {} BY <1>0
      <4> QED BY <1>0, <1>s, <2>1, <2>2, <2>5, <3>2, <3>3, <4>1 DEF ChildInv
    <3>4. CASE Token.last # escape
      <4>1. lines[LastPiece(child')].last # MeantEscape BY <2>1, <2>2, <3>2, <3>4
      <4>2. Instruction(child') BY <1>0, <2>5, <3>2, <4>1, InstructionEnds
      <4>3. Made(child') = pos + 1 BY <3>2, <4>1 DEF Made
      <4> QED BY <1>s, <2>1, <2>5, <2>6, <3>4, <4>2, <4>3 DEF ChildInv
    <3> QED BY <3>3, <3>4
  <2>7. CASE Token.kind # "text"
    <3>1. Joined(child') /\ LastPiece(child') = LastPiece(child) BY <2>3, <2>5, <2>7, SamePieces
    <3>2. Silent(pos + 1) BY <2>1, <2>7 DEF Silent
    <3>3. \A i \in LastPiece(child) + 1 .. pos + 1 : Silent(i)
      <4>1. \A i \in LastPiece(child) + 1 .. pos + 1 : i = pos + 1 \/ i \in LastPiece(child) + 1 .. pos
        BY <1>0, <2>4
      <4> QED BY <2>3, <3>2, <4>1
    <3>4. phase' = "continuation" BY <2>1, <2>7
    <3> QED BY <1>0, <1>s, <2>1, <2>3, <2>5, <3>1, <3>3, <3>4 DEF ChildInv
  <2> QED BY <2>6, <2>7
<1>4. CASE NoContinuation
  <2>1. UNCHANGED <<pos, child>> /\ pos = Len(lines) /\ phase = "continuation" /\ phase' = "node"
    BY <1>0, <1>g, <1>4, FailStep DEF NoContinuation
  <2>2. /\ Joined(child) /\ lines[LastPiece(child)].last = MeantEscape
        /\ \A i \in LastPiece(child) + 1 .. pos : Silent(i)
        /\ child.docs = <<>> /\ child.bodies = <<>> /\ child.ends = <<>>
    BY <2>1 DEF ChildInv
  <2>3. Instruction(child) BY <1>0, <2>1, <2>2, InstructionEnds
  <2>4. Made(child) = pos BY <2>1, <2>2 DEF Made
  <2> QED BY <1>s, <2>1, <2>2, <2>3, <2>4 DEF ChildInv
<1>5. CASE MakeNode
  <2>1. /\ phase = "node" /\ phase' = "heredoc" /\ UNCHANGED pos
        /\ Instruction(child) /\ pos = Made(child) /\ child.bodies = <<>> /\ child.ends = <<>>
    BY <1>5 DEF MakeNode, ChildInv
  <2>2. /\ child' \in Child /\ child'.start = child.start /\ child'.pieces = child.pieces
        /\ child'.bodies = <<>> /\ child'.ends = <<>> /\ child'.docs = todo'
    BY <1>5, <2>1, NodeChild
  <2>3. Instruction(child') /\ Made(child') = pos BY <2>1, <2>2, SamePieces
  <2>4. Reading(child', todo', pos') BY <1>0, <2>1, <2>2, <2>3, BeginReading
  <2> QED BY <1>s, <2>1, <2>4 DEF ChildInv
<1>6. CASE HeredocLine
  <2>1. phase = "heredoc" /\ phase' = "heredoc" /\ Reading(child, todo, pos)
    BY <1>6 DEF HeredocLine, ChildInv
  <2>2. Reading(child', todo', pos') BY <1>0, <1>6, <2>1, ReadingStep
  <2>3. phase' = "heredoc" /\ Reading(child, todo, pos)' BY <1>s, <2>1, <2>2
  <2> QED BY <2>3 DEF ChildInv
<1>7. CASE UNCHANGED vars
  <2>1. UNCHANGED <<phase, pos, child, todo>> BY <1>7 DEF vars
  <2>2. /\ LastPiece(child)' = LastPiece(child) /\ Made(child)' = Made(child)
        /\ Joined(child)' <=> Joined(child)
        /\ Instruction(child)' <=> Instruction(child)
        /\ Reading(child, todo, pos)' <=> Reading(child, todo, pos)
    BY <1>s, <2>1
  <2> QED BY <1>0, <1>s, <2>1, <2>2 DEF ChildInv
<1>8. CASE RefuseDirective \/ BadInstruction \/ Unterminated
  BY <1>1, <1>8 DEF RefuseDirective, BadInstruction, Unterminated, Fail, Making
<1>9. CASE PassLine \/ EndOfFile \/ AddChild \/ Finish
  BY <1>1, <1>9 DEF PassLine, EndOfFile, AddChild, Finish, Making
<1> QED
  BY <1>2, <1>3, <1>4, <1>5, <1>6, <1>7, <1>8, <1>9 DEF Next

-----------------------------------------------------------------------------
\* Where the nodes so far end, and where the next one may begin.
LEMMA Ending ==
    ASSUME TypeInv
    PROVE  /\ children \in Seq(Child) /\ Len(children) \in Nat /\ LastEnd \in Nat
           /\ DOMAIN children = 1 .. Len(children)
           /\ children = <<>> => LastEnd = 0
           /\ children # <<>> => Len(children) \in 1 .. Len(children) /\ LastEnd = children[Len(children)].end
<1>1. children \in Seq(Child) BY DEF TypeInv
<1>2. Len(children) \in Nat /\ DOMAIN children = 1 .. Len(children) BY <1>1
<1>3. CASE children = <<>> BY <1>1, <1>2, <1>3 DEF LastEnd
<1>4. CASE children # <<>>
  <2>1. Len(children) \in 1 .. Len(children) BY <1>1, <1>4
  <2>2. children[Len(children)] \in Child BY <1>1, <2>1
  <2>3. children[Len(children)].end \in Nat BY <2>2, ChildFields
  <2> QED BY <1>1, <1>2, <1>4, <2>1, <2>3 DEF LastEnd
<1> QED BY <1>3, <1>4

\* A step that leaves the next instruction's beginning.
LEMMA GapKeeps ==
    ASSUME TypeInv, GapInv, UNCHANGED <<lines, children, comments>>, Begin' = Begin,
           pos' \in Nat, pos <= pos', phase' \in Making => Begin <= pos',
           phase' = "heredoc" => child'.comments = comments
    PROVE  GapInv'
<1>1. LastEnd' = LastEnd /\ LastEnd \in Nat BY Ending DEF LastEnd
<1>2. pos \in Nat BY Position
<1>3. Begin \in Nat
  <2>1. child.start \in Nat BY ChildFields DEF TypeInv
  <2> QED BY <1>2, <2>1 DEF Begin
<1>4. \A i : Silent(i) <=> Silent(i)' BY SameLines
<1>5. /\ LastEnd < Begin /\ Begin <= pos + 1
      /\ \A i \in LastEnd + 1 .. Begin - 1 : Silent(i)
      /\ \A k \in DOMAIN comments : comments[k] \in LastEnd + 1 .. Begin - 1
  BY DEF GapInv
<1>6. Begin <= pos' + 1 BY <1>2, <1>3, <1>5
<1> QED BY <1>1, <1>4, <1>5, <1>6 DEF GapInv

LEMMA GapStep ==
    ASSUME TypeInv, GapInv, [Next]_vars, Good'
    PROVE  GapInv'
<1>0. /\ UNCHANGED lines /\ lines \in Seq(Line) /\ pos \in Nat /\ pos <= Len(lines) /\ Len(lines) \in Nat
      /\ child \in Child /\ comments \in Seq(Nat)
  <2>1. UNCHANGED lines BY DEF Next, vars
  <2> QED BY <2>1, Position DEF TypeInv
<1>g. scan' = "ok" /\ outcome' \in {"running", "parsed"} BY DEF Good
<1>l. LastEnd \in Nat BY Ending
<1>i. /\ LastEnd < Begin /\ Begin <= pos + 1 /\ (phase \in Making => Begin <= pos)
      /\ \A i \in LastEnd + 1 .. Begin - 1 : Silent(i)
      /\ \A k \in DOMAIN comments : comments[k] \in LastEnd + 1 .. Begin - 1
      /\ phase = "heredoc" => child.comments = comments
  BY DEF GapInv
<1>s. \A i : Silent(i) <=> Silent(i)' BY <1>0, SameLines
<1>b. child.start \in Nat /\ Begin \in Nat
  <2>1. child.start \in Nat BY <1>0, ChildFields
  <2> QED BY <1>0, <2>1 DEF Begin
<1>1. CASE PassLine
  <2>1. /\ pos' = pos + 1 /\ Token = lines[pos + 1] /\ Token.kind # "text"
        /\ phase = "first" /\ phase' = "first" /\ UNCHANGED children
    BY <1>0, <1>1, ScanStep DEF PassLine
  <2>2. Begin = pos + 1 /\ Begin' = pos + 1 + 1 /\ LastEnd' = LastEnd
    BY <2>1 DEF Begin, LastEnd, Making
  <2>3. Silent(pos + 1) BY <2>1 DEF Silent
  <2>4. \A i \in LastEnd + 1 .. pos + 1 : Silent(i) BY <1>0, <1>l, <1>i, <2>2, <2>3
  <2>5. \A k \in DOMAIN comments : comments[k] \in LastEnd + 1 .. pos + 1
    BY <1>0, <1>l, <1>i, <2>2
  <2>6. \A k \in DOMAIN comments' : comments'[k] \in LastEnd + 1 .. pos + 1
    <3>1. comments' = <<>> \/ comments' = comments \/ comments' = Append(comments, pos + 1)
      BY <1>1 DEF PassLine, Commented
    <3>2. CASE comments' = Append(comments, pos + 1)
      <4>1. /\ Len(comments) \in Nat /\ DOMAIN comments = 1 .. Len(comments)
            /\ DOMAIN comments' = 1 .. Len(comments) + 1
            /\ comments'[Len(comments) + 1] = pos + 1
            /\ \A k \in 1 .. Len(comments) : comments'[k] = comments[k]
        BY <1>0, <3>2
      <4>2. 1 .. Len(comments) + 1 = (1 .. Len(comments)) \cup {Len(comments) + 1} BY <4>1, Successor
      <4>3. pos + 1 \in LastEnd + 1 .. pos + 1 BY <1>0, <1>l, <1>i, <2>2
      <4> QED BY <2>5, <4>1, <4>2, <4>3
    <3> QED BY <2>5, <3>1, <3>2
  <2>7. pos + 1 + 1 - 1 = pos + 1 BY <1>0
  <2>8. LastEnd' < Begin' /\ Begin' <= pos' + 1 BY <1>0, <1>l, <1>i, <2>1, <2>2
  <2> QED BY <1>s, <2>1, <2>2, <2>4, <2>6, <2>7, <2>8 DEF GapInv, Making
<1>2. CASE BeginInstruction
  <2>1. /\ pos' = pos + 1 /\ phase = "first" /\ phase' \in {"continuation", "node"}
        /\ UNCHANGED <<children, comments>>
    BY <1>0, <1>2, ScanStep DEF BeginInstruction
  <2>2. child'.start = pos + 1 BY <1>2, BeginChild
  <2>3. Begin' = Begin /\ Begin = pos + 1 BY <2>1, <2>2 DEF Begin, Making
  <2> QED BY <1>0, <2>1, <2>3, GapKeeps DEF Making
<1>3. CASE EndOfFile
  <2>1. UNCHANGED <<pos, children, comments>> /\ phase = "first" /\ phase' = "end"
    BY <1>0, <1>3, FailStep DEF EndOfFile
  <2>2. Begin' = Begin BY <2>1 DEF Begin, Making
  <2> QED BY <1>0, <2>1, <2>2, GapKeeps DEF Making
<1>4. CASE Continuation
  <2>1. /\ pos' = pos + 1 /\ phase = "continuation" /\ phase' \in {"continuation", "node"}
        /\ UNCHANGED <<children, comments>> /\ child'.start = child.start
    BY <1>0, <1>4, ScanStep, ContinuationChild DEF Continuation
  <2>2. Begin' = Begin BY <2>1 DEF Begin, Making
  <2>3. Begin <= pos' BY <1>0, <1>b, <1>i, <2>1 DEF Making
  <2> QED BY <1>0, <2>1, <2>2, <2>3, GapKeeps DEF Making
<1>5. CASE NoContinuation
  <2>1. UNCHANGED <<pos, children, comments, child>> /\ phase = "continuation" /\ phase' = "node"
    BY <1>0, <1>5, FailStep DEF NoContinuation
  <2>2. Begin' = Begin BY <2>1 DEF Begin, Making
  <2> QED BY <1>0, <1>i, <2>1, <2>2, GapKeeps DEF Making
<1>6. CASE MakeNode
  <2>1. /\ UNCHANGED <<pos, children, comments>> /\ phase = "node" /\ phase' = "heredoc"
        /\ child'.start = child.start /\ child'.comments = comments
    BY <1>6, NodeChild DEF MakeNode
  <2>2. Begin' = Begin BY <2>1 DEF Begin, Making
  <2> QED BY <1>0, <1>i, <2>1, <2>2, GapKeeps DEF Making
<1>7. CASE HeredocLine
  <2>1. /\ pos' = pos + 1 /\ phase = "heredoc" /\ phase' = "heredoc"
        /\ UNCHANGED <<children, comments>>
        /\ child'.start = child.start /\ child'.comments = child.comments
    BY <1>0, <1>7, ScanStep, HeredocChild DEF HeredocLine
  <2>2. Begin' = Begin BY <2>1 DEF Begin, Making
  <2>3. Begin <= pos' BY <1>0, <1>b, <1>i, <2>1 DEF Making
  <2> QED BY <1>0, <1>i, <2>1, <2>2, <2>3, GapKeeps DEF Making
<1>8. CASE AddChild
  <2>1. /\ UNCHANGED pos /\ phase' = "first" /\ comments' = <<>>
        /\ children' = Append(children, [child EXCEPT !.end = pos])
    BY <1>8 DEF AddChild
  <2> DEFINE c == [child EXCEPT !.end = pos]
  <2>2. c \in Child /\ c.end = pos BY <1>0 DEF Child
  <2> HIDE DEF c
  <2>3. children \in Seq(Child) /\ children' = Append(children, c) BY <2>1, Ending DEF c
  <2>4. children' # <<>> /\ children'[Len(children')] = c BY <2>2, <2>3
  <2>5. LastEnd' = pos /\ Begin' = pos + 1 BY <2>1, <2>2, <2>4 DEF LastEnd, Begin, Making
  <2>6. pos + 1 .. pos + 1 - 1 = {} BY <1>0
  <2>7. DOMAIN comments' = {} BY <2>1
  <2>8. pos < pos + 1 /\ pos + 1 <= pos' + 1 BY <1>0, <2>1
  <2> QED BY <2>1, <2>5, <2>6, <2>7, <2>8 DEF GapInv, Making
<1>9. CASE Finish
  <2>1. UNCHANGED <<pos, children, comments>> /\ phase = "end" /\ phase' = "done" BY <1>9 DEF Finish
  <2>2. Begin' = Begin BY <2>1 DEF Begin, Making
  <2> QED BY <1>0, <2>1, <2>2, GapKeeps DEF Making
<1>10. CASE UNCHANGED vars
  <2>1. UNCHANGED <<pos, children, comments, child, phase>> BY <1>10 DEF vars
  <2>2. Begin' = Begin BY <2>1 DEF Begin, Making
  <2> QED BY <1>0, <1>i, <2>1, <2>2, GapKeeps DEF Making
<1>11. CASE RefuseDirective \/ BadInstruction \/ Unterminated
  BY <1>g, <1>11 DEF RefuseDirective, BadInstruction, Unterminated, Fail
<1> QED
  BY <1>1, <1>2, <1>3, <1>4, <1>5, <1>6, <1>7, <1>8, <1>9, <1>10, <1>11 DEF Next

-----------------------------------------------------------------------------
\* A node whose heredocs are all read is whole.
LEMMA ReadWhole ==
    ASSUME lines \in Seq(Line), NEW c \in Child, NEW t, Len(t) = 0, NEW p \in Nat, Reading(c, t, p),
           NEW d \in Child, d.pieces = c.pieces, d.start = c.start, d.docs = c.docs,
           d.bodies = c.bodies, d.ends = c.ends, d.end = p
    PROVE  Whole(d)
<1> DEFINE b == Len(c.bodies)
           e == Len(c.ends)
           n == Len(c.docs)
<1>1. b \in Nat /\ e \in Nat /\ n \in Nat BY ChildFields
<1>2. b \in {e, e + 1} /\ b <= n /\ 0 = n - e BY DEF Reading
<1>3. e = n /\ b = n BY <1>1, <1>2
<1>4. Made(d) = Made(c) /\ Instruction(d) BY SamePieces DEF Reading
<1>5. \A k : Before(d, k) = Before(c, k) BY <1>4 DEF Before
<1>6. ASSUME NEW k \in DOMAIN d.docs PROVE BodyRead(d, k) /\ BodyEnded(d, k)
  <2>1. k \in 1 .. Len(c.bodies) /\ k \in 1 .. Len(c.ends) BY <1>3, ChildFields
  <2>2. BodyRead(c, k) /\ BodyEnded(c, k) BY <2>1 DEF Reading
  <2>3. Before(d, k) = Before(c, k) BY <1>5
  <2> QED BY <2>2, <2>3, SameBody
<1>7. p = Before(c, n + 1) /\ p >= Made(c) /\ Split(c, p) BY <1>3 DEF Reading
<1>8. Split(d, p)
  <2>1. BodyLinesOf(d) = BodyLinesOf(c) BY DEF BodyLinesOf
  <2>2. EndsOf(d) = EndsOf(c) BY DEF EndsOf
  <2> QED BY <1>4, <1>7, <2>1, <2>2 DEF Split
<1>9. Len(d.ends) = Len(d.docs) /\ Len(d.bodies) = Len(d.docs) BY <1>3
<1>10. d.end = Before(d, Len(d.docs) + 1) BY <1>5, <1>7
<1>11. d.end >= Made(d) /\ Split(d, d.end) BY <1>4, <1>7, <1>8
<1> QED BY <1>4, <1>6, <1>9, <1>10, <1>11 DEF Whole

\* A whole node's lines.
LEMMA WholeLines ==
    ASSUME lines \in Seq(Line), NEW c \in Child, Whole(c)
    PROVE  c.start \in Nat /\ c.start >= 1 /\ c.end \in Nat /\ c.start <= c.end
<1>1. Joined(c) /\ c.end >= Made(c) BY DEF Whole, Instruction
<1>2. Made(c) \in Nat /\ LastPiece(c) \in 1 .. Made(c) BY <1>1, MadeTyped
<1>3. c.start \in Nat /\ c.end \in Nat BY ChildFields
<1>4. c.start >= 1 /\ c.start <= LastPiece(c) BY <1>1 DEF Joined
<1> QED BY <1>1, <1>2, <1>3, <1>4

LEMMA ChildrenStep ==
    ASSUME TypeInv, ChildInv, GapInv, ChildrenInv, [Next]_vars, Good'
    PROVE  ChildrenInv'
<1>0. /\ UNCHANGED lines /\ lines \in Seq(Line) /\ pos \in Nat
      /\ child \in Child /\ comments \in Seq(Nat) /\ todo \in Seq(Doc)
  <2>1. UNCHANGED lines BY DEF Next, vars
  <2> QED BY <2>1, Position DEF TypeInv
<1>s. \A i : Silent(i) <=> Silent(i)' BY <1>0, SameLines
<1>w. \A c : Whole(c) <=> Whole(c)' BY <1>0, SameNodes
<1>1. CASE UNCHANGED children
  <2>1. LastEnd' = LastEnd BY <1>1 DEF LastEnd
  <2> QED BY <1>s, <1>w, <1>1, <2>1 DEF ChildrenInv, LinesOf
<1>2. CASE AddChild
  <2> DEFINE c == [child EXCEPT !.end = pos]
             n == Len(children)
             s == children
             z == children'
  <2>1. /\ c \in Child /\ c.pieces = child.pieces /\ c.start = child.start /\ c.end = pos
        /\ c.docs = child.docs /\ c.bodies = child.bodies /\ c.ends = child.ends
        /\ c.comments = child.comments
    BY <1>0, WithEnd
  <2>2. phase = "heredoc" /\ todo = <<>> /\ z = Append(s, c) BY <1>2 DEF AddChild
  <2> HIDE DEF c
  <2>3. /\ s \in Seq(Child) /\ n \in Nat /\ DOMAIN s = 1 .. n /\ LastEnd \in Nat
        /\ s = <<>> => LastEnd = 0
        /\ s # <<>> => n \in 1 .. n /\ LastEnd = s[n].end
    BY Ending
  <2>4. /\ DOMAIN z = 1 .. n + 1 /\ z[n + 1] = c /\ \A k \in 1 .. n : z[k] = s[k]
        /\ Len(z) = n + 1 /\ z # <<>>
    BY <2>1, <2>2, <2>3
  <2>5. Reading(child, todo, pos) /\ Len(todo) = 0 BY <2>2 DEF ChildInv
  <2>6. Whole(c) BY <1>0, <2>1, <2>5, ReadWhole
  <2>7. c.start \in Nat /\ c.start >= 1 /\ c.end \in Nat /\ c.start <= c.end
    BY <1>0, <2>1, <2>6, WholeLines
  <2>8. LastEnd' = pos BY <2>1, <2>4 DEF LastEnd
  <2>9. /\ LastEnd < c.start
        /\ \A i \in LastEnd + 1 .. c.start - 1 : Silent(i)
        /\ \A k \in DOMAIN c.comments : c.comments[k] \in LastEnd + 1 .. c.start - 1
    BY <2>1, <2>2 DEF GapInv, Begin, Making
  <2>10. /\ \A k \in 1 .. n : Whole(s[k])
         /\ \A k, l \in 1 .. n : k < l => s[k].end < s[l].start
         /\ \A i \in 1 .. LastEnd : Silent(i) \/ \E k \in 1 .. n : i \in s[k].start .. s[k].end
         /\ \A k \in 1 .. n : \A j \in DOMAIN s[k].comments :
              /\ s[k].comments[j] \in 1 .. s[k].start - 1
              /\ k > 1 => s[k].comments[j] > s[k - 1].end
    BY <2>3 DEF ChildrenInv, LinesOf
  <2> HIDE DEF n, s, z
  <2>11. \A k \in 1 .. n + 1 : k \in 1 .. n \/ k = n + 1 BY <2>3
  <2>12. \A k \in 1 .. n + 1 : Whole(z[k]) BY <2>4, <2>6, <2>10, <2>11
  <2>13. ASSUME NEW k \in 1 .. n PROVE s[k].end \in Nat /\ s[k].end <= LastEnd
    <3>1. s[k] \in Child BY <2>3
    <3>2. s[k].end \in Nat BY <3>1, ChildFields
    <3>3. s # <<>> /\ n \in 1 .. n BY <2>3
    <3>4. CASE k = n BY <2>3, <3>2, <3>3, <3>4
    <3>5. CASE k # n
      <4>1. k < n BY <2>3, <3>5
      <4>2. s[k].end < s[n].start BY <2>10, <3>3, <4>1
      <4>3. s[n] \in Child /\ Whole(s[n]) BY <2>3, <2>10, <3>3
      <4>4. s[n].start \in Nat /\ s[n].end \in Nat /\ s[n].start <= s[n].end
        BY <1>0, <4>3, WholeLines
      <4> QED BY <2>3, <3>2, <3>3, <4>2, <4>4
    <3> QED BY <3>4, <3>5
  <2>14. ASSUME NEW k \in 1 .. n + 1, NEW l \in 1 .. n + 1, k < l PROVE z[k].end < z[l].start
    <3>1. k \in 1 .. n BY <2>3, <2>14
    <3>2. CASE l = n + 1 BY <2>3, <2>4, <2>7, <2>9, <2>13, <3>1, <3>2
    <3>3. CASE l # n + 1
      <4>1. l \in 1 .. n BY <2>11, <3>3
      <4> QED BY <2>4, <2>10, <2>14, <3>1, <4>1
    <3> QED BY <3>2, <3>3
  <2>15. ASSUME NEW i \in 1 .. pos
         PROVE  Silent(i) \/ \E k \in 1 .. n + 1 : i \in z[k].start .. z[k].end
    <3>1. CASE i \in 1 .. LastEnd
      <4>1. CASE \E k \in 1 .. n : i \in s[k].start .. s[k].end
        <5>1. PICK k \in 1 .. n : i \in s[k].start .. s[k].end BY <4>1
        <5>2. k \in 1 .. n + 1 /\ z[k] = s[k] BY <2>3, <2>4
        <5> QED BY <5>1, <5>2
      <4> QED BY <2>10, <3>1, <4>1
    <3>2. CASE i \in LastEnd + 1 .. c.start - 1 BY <2>9, <3>2
    <3>3. CASE i \in c.start .. pos
      <4>1. n + 1 \in 1 .. n + 1 /\ i \in z[n + 1].start .. z[n + 1].end BY <2>1, <2>3, <2>4, <3>3
      <4> QED BY <4>1
    <3> QED BY <1>0, <2>3, <2>7, <3>1, <3>2, <3>3
  <2>16. ASSUME NEW k \in 1 .. n + 1, NEW j \in DOMAIN z[k].comments
         PROVE  /\ z[k].comments[j] \in 1 .. z[k].start - 1
                /\ k > 1 => z[k].comments[j] > z[k - 1].end
    <3>1. CASE k = n + 1
      <4>1. z[k] = c /\ z[k].comments[j] \in LastEnd + 1 .. c.start - 1 BY <2>4, <2>9, <3>1
      <4>2. z[k].comments[j] \in 1 .. z[k].start - 1 BY <2>3, <2>7, <4>1
      <4>3. ASSUME k > 1 PROVE z[k].comments[j] > z[k - 1].end
        <5>1. n \in 1 .. n /\ k - 1 = n BY <2>3, <3>1, <4>3
        <5>2. z[k - 1].end \in Nat /\ z[k - 1].end <= LastEnd BY <2>4, <2>13, <5>1
        <5> QED BY <2>3, <2>7, <4>1, <5>2
      <4> QED BY <4>2, <4>3
    <3>2. CASE k # n + 1
      <4>1. k \in 1 .. n /\ z[k] = s[k] BY <2>4, <2>11, <3>2
      <4>2. k > 1 => k - 1 \in 1 .. n BY <2>3, <4>1
      <4> QED BY <2>4, <2>10, <4>1, <4>2
    <3> QED BY <3>1, <3>2
  <2> QED BY <1>s, <1>w, <2>4, <2>8, <2>12, <2>14, <2>15, <2>16 DEF ChildrenInv, LinesOf, z
<1>3. ~AddChild => UNCHANGED children
  BY DEF Next, vars, RefuseDirective, PassLine, BeginInstruction, EndOfFile, Continuation,
     NoContinuation, MakeNode, BadInstruction, HeredocLine, Unterminated, Finish, Fail
<1> QED BY <1>1, <1>2, <1>3

-----------------------------------------------------------------------------
\* Only a file that was read to its end is parsed.
LEMMA ParsedStep ==
    ASSUME TypeInv, Parsed => scan = "ok", [Next]_vars
    PROVE  Parsed' => scan' = "ok"
<1>0. phase = "done" <=> outcome # "running" BY DEF TypeInv
<1> QED
  BY <1>0 DEF Parsed, Next, vars, RefuseDirective, PassLine, BeginInstruction, EndOfFile, Continuation,
     NoContinuation, MakeNode, BadInstruction, HeredocLine, Unterminated, AddChild, Finish, Fail

LEMMA StepInv == IInv /\ [Next]_vars => IInv'
<1> SUFFICES ASSUME IInv, [Next]_vars PROVE IInv' OBVIOUS
<1>1. TypeInv /\ HeadInv /\ (Parsed => scan = "ok") BY DEF IInv
<1>2. TypeInv' BY <1>1, TypeStep
<1>3. HeadInv' BY <1>1, HeadStep
<1>4. Parsed' => scan' = "ok" BY <1>1, ParsedStep
<1>5. ASSUME Good' PROVE FileInv' /\ ChildInv' /\ GapInv' /\ ChildrenInv'
  <2>1. Good BY <1>1, <1>5, GoodStep
  <2>2. FileInv /\ ChildInv /\ GapInv /\ ChildrenInv BY <2>1 DEF IInv
  <2> QED BY <1>1, <1>5, <2>2, FileStep, ChildStep, GapStep, ChildrenStep
<1> QED BY <1>2, <1>3, <1>4, <1>5 DEF IInv

\* In every state of the parser: the directives read, the lines of the node being made, and those
\* of the nodes made.
THEOREM ParserInvariant == Spec => []IInv
  BY InitInv, StepInv, PTL DEF Spec

\* What holds when Parse has returned the nodes.
LEMMA AtEnd ==
    ASSUME IInv, Parsed
    PROVE  /\ lines \in Seq(Line) /\ Len(lines) \in Nat /\ pos = Len(lines) /\ DOMAIN lines = 1 .. pos
           /\ children \in Seq(Child) /\ DOMAIN children = 1 .. Len(children) /\ LastEnd \in Nat
           /\ \A i \in 1 .. pos : ~IsLong(i)
           /\ \A c \in DOMAIN children : children[c] \in Child /\ Whole(children[c])
           /\ GapInv /\ ChildrenInv /\ Begin = pos + 1
<1>1. TypeInv /\ scan = "ok" /\ outcome = "parsed" /\ phase = "done" BY DEF IInv, Parsed, TypeInv
<1>2. FileInv /\ GapInv /\ ChildrenInv BY <1>1 DEF IInv, Good
<1>3. lines \in Seq(Line) /\ Len(lines) \in Nat BY <1>1, Position
<1>4. pos = Len(lines) /\ \A i \in 1 .. pos : ~IsLong(i) BY <1>1, <1>2 DEF FileInv
<1>5. children \in Seq(Child) /\ DOMAIN children = 1 .. Len(children) /\ LastEnd \in Nat
  BY <1>1, Ending
<1>6. Begin = pos + 1 BY <1>1 DEF Begin, Making
<1> QED BY <1>2, <1>3, <1>4, <1>5, <1>6 DEF ChildrenInv

\* Parse joins exactly the lines that end in the escape token the Dockerfile chose, over comments
\* and blank lines, and no directive is given twice or late.
LEMMA ContinuationLemma == IInv => ContinuationIsMeant
<1> SUFFICES ASSUME IInv, Parsed PROVE ContinuationIsMeant BY DEF ContinuationIsMeant
<1>1. /\ lines \in Seq(Line) /\ Len(lines) \in Nat /\ pos = Len(lines)
      /\ \A c \in DOMAIN children : children[c] \in Child /\ Whole(children[c])
  BY AtEnd
<1>2. \A i, j \in Directives : lines[i].key = lines[j].key => i = j
  <2>1. TypeInv /\ HeadInv /\ outcome # "directive" BY DEF IInv, Parsed
  <2> QED BY <1>1, <2>1, HeadRead
<1>3. ASSUME NEW n \in DOMAIN children, NEW c \in Child, c = children[n]
      PROVE  /\ c.pieces[1] = c.start
             /\ \A j \in 1 .. Len(c.pieces) - 1 :
                  /\ lines[c.pieces[j]].last = MeantEscape
                  /\ \A i \in c.pieces[j] + 1 .. c.pieces[j + 1] - 1 : Silent(i)
             /\ lines[c.pieces[Len(c.pieces)]].last = MeantEscape =>
                  \A i \in c.pieces[Len(c.pieces)] + 1 .. Len(lines) : Silent(i)
             /\ c.docs = <<>> /\ lines[c.pieces[Len(c.pieces)]].last # MeantEscape =>
                  c.end = c.pieces[Len(c.pieces)]
  <2>1. Whole(c) BY <1>1, <1>3
  <2>2. Joined(c) /\ \A i \in LastPiece(c) + 1 .. Made(c) : Silent(i) BY <2>1 DEF Whole, Instruction
  <2>3. LastPiece(c) = c.pieces[Len(c.pieces)] BY DEF LastPiece
  <2>4. c.docs = <<>> => c.end = Made(c)
    <3>1. c.docs = <<>> => Len(c.docs) = 0 /\ 0 + 1 = 1 OBVIOUS
    <3> QED BY <2>1, <3>1 DEF Whole, Before
  <2> QED BY <2>2, <2>3, <2>4 DEF Joined, Made
<1> QED BY <1>1, <1>2, <1>3 DEF ContinuationIsMeant

\* In every finished parse, each instruction has the lines the escape token of the directives joins.
THEOREM ContinuationTheorem == Spec => []ContinuationIsMeant
  BY ParserInvariant, ContinuationLemma, PTL

\* A heredoc's body is the lines after the instruction, or after the heredoc before it, up to the
\* first that is its delimiter.
LEMMA HeredocLemma == IInv => HeredocIsVerbatim
<1> SUFFICES ASSUME IInv, Parsed PROVE HeredocIsVerbatim BY DEF HeredocIsVerbatim
<1>1. /\ lines \in Seq(Line) /\ Len(lines) \in Nat /\ DOMAIN lines = 1 .. Len(lines)
      /\ \A c \in DOMAIN children : children[c] \in Child /\ Whole(children[c])
  BY AtEnd
<1> DEFINE before(c, k) == IF k = 1 THEN c.pieces[Len(c.pieces)] ELSE c.ends[k - 1]
<1>2. ASSUME NEW n \in DOMAIN children, NEW c \in Child, c = children[n]
      PROVE  /\ Len(c.ends) = Len(c.docs) /\ Len(c.bodies) = Len(c.docs)
             /\ \A k \in DOMAIN c.docs :
                  /\ c.bodies[k] = [j \in 1 .. Len(c.bodies[k]) |-> before(c, k) + j]
                  /\ c.ends[k] = before(c, k) + Len(c.bodies[k]) + 1
                  /\ lines[c.ends[k]].word = c.docs[k].name
                  /\ lines[c.ends[k]].indent => c.docs[k].chomp
                  /\ \A j \in DOMAIN c.bodies[k] :
                       LET t == lines[c.bodies[k][j]]
                       IN  t.kind = "text" /\ t.word = c.docs[k].name => t.indent /\ ~c.docs[k].chomp
             /\ c.docs # <<>> => c.end = c.ends[Len(c.ends)]
  <2>1. Whole(c) BY <1>1, <1>2
  <2>2. Joined(c) BY <2>1 DEF Whole, Instruction
  <2>3. /\ Len(c.ends) = Len(c.docs) /\ Len(c.bodies) = Len(c.docs)
        /\ \A k \in DOMAIN c.docs : BodyRead(c, k) /\ BodyEnded(c, k)
        /\ c.end = Before(c, Len(c.docs) + 1)
    BY <2>1 DEF Whole
  <2>4. Len(c.docs) \in Nat /\ DOMAIN c.docs = 1 .. Len(c.docs) /\ c.bodies \in Seq(Seq(Nat)) BY ChildFields
  <2>5. ASSUME NEW k \in DOMAIN c.docs PROVE Before(c, k) = before(c, k)
    <3>1. CASE k = 1
      <4>1. c.ends[1] = Made(c) + Len(c.bodies[1]) + 1 /\ c.ends[1] \in DOMAIN lines
        BY <2>3, <3>1 DEF BodyEnded, Before
      <4>2. 1 \in 1 .. Len(c.bodies) BY <2>3, <2>4, <3>1
      <4>3. c.bodies[1] \in Seq(Nat) BY <2>4, <4>2
      <4>4. Len(c.bodies[1]) \in Nat BY <4>3
      <4>5. Made(c) \in Nat BY <1>1, <2>2, MadeTyped
      <4>6. Made(c) # Len(lines) BY <1>1, <4>1, <4>4, <4>5
      <4>7. Made(c) = LastPiece(c) BY <4>6 DEF Made
      <4> QED BY <3>1, <4>7 DEF Before, LastPiece
    <3>2. CASE k # 1 BY <3>2 DEF Before
    <3> QED BY <3>1, <3>2
  <2>6. ASSUME NEW k \in DOMAIN c.docs
        PROVE  /\ c.bodies[k] = [j \in 1 .. Len(c.bodies[k]) |-> before(c, k) + j]
               /\ c.ends[k] = before(c, k) + Len(c.bodies[k]) + 1
               /\ lines[c.ends[k]].word = c.docs[k].name
               /\ lines[c.ends[k]].indent => c.docs[k].chomp
               /\ \A j \in DOMAIN c.bodies[k] :
                    LET t == lines[c.bodies[k][j]]
                    IN  t.kind = "text" /\ t.word = c.docs[k].name => t.indent /\ ~c.docs[k].chomp
    <3>1. BodyRead(c, k) /\ BodyEnded(c, k) /\ Before(c, k) = before(c, k) BY <2>3, <2>5
    <3> HIDE DEF before
    <3>2. c.bodies[k] = [j \in 1 .. Len(c.bodies[k]) |-> before(c, k) + j] BY <3>1 DEF BodyRead
    <3>3. c.ends[k] = before(c, k) + Len(c.bodies[k]) + 1 BY <3>1 DEF BodyEnded
    <3>4. lines[c.ends[k]].word = c.docs[k].name /\ (lines[c.ends[k]].indent => c.docs[k].chomp)
      BY <3>1 DEF BodyEnded, Ends
    <3>5. ASSUME NEW j \in DOMAIN c.bodies[k], lines[c.bodies[k][j]].kind = "text",
                 lines[c.bodies[k][j]].word = c.docs[k].name
          PROVE  lines[c.bodies[k][j]].indent /\ ~c.docs[k].chomp
      BY <3>1, <3>5 DEF BodyRead, Ends
    <3> QED BY <3>2, <3>3, <3>4, <3>5
  <2>7. c.docs # <<>> => c.end = c.ends[Len(c.ends)]
    <3>1. c.docs # <<>> => Len(c.docs) + 1 # 1 /\ Len(c.docs) + 1 - 1 = Len(c.docs) BY <2>4
    <3> QED BY <2>3, <3>1 DEF Before
  <2> HIDE DEF before
  <2> QED BY <2>3, <2>6, <2>7
<1> QED BY <1>1, <1>2 DEF HeredocIsVerbatim

\* In every finished parse, the bodies of heredocs are what lies between an instruction and the
\* delimiters, verbatim.
THEOREM HeredocTheorem == Spec => []HeredocIsVerbatim
  BY ParserInvariant, HeredocLemma, PTL

\* Every line is in one node, in one part of it, or is blank or a comment; the nodes follow each
\* other, each with the comments right before it.
LEMMA LinesLemma == IInv => LinesAccounted
<1> SUFFICES ASSUME IInv, Parsed PROVE LinesAccounted BY DEF LinesAccounted
<1>1. /\ lines \in Seq(Line) /\ pos \in Nat /\ DOMAIN lines = 1 .. pos
      /\ DOMAIN children = 1 .. Len(children) /\ LastEnd \in Nat
      /\ \A i \in 1 .. pos : ~IsLong(i)
      /\ \A c \in DOMAIN children : children[c] \in Child /\ Whole(children[c])
      /\ GapInv /\ ChildrenInv /\ Begin = pos + 1
  BY AtEnd
<1>2. Len(children) \in Nat
  <2>1. children \in Seq(Child) BY AtEnd
  <2> QED BY <2>1
<1> DEFINE owners(i) == {c \in DOMAIN children : i \in children[c].start .. children[c].end}
           parts(i, c) == {p \in {PiecesOf(children[c]), BodyLinesOf(children[c]), EndsOf(children[c])} : i \in p}
<1>3. ASSUME NEW c \in DOMAIN children
      PROVE  children[c].start \in Nat /\ children[c].end \in Nat
  BY <1>1, WholeLines
<1>4. ASSUME NEW i \in 1 .. pos
      PROVE  /\ Cardinality(owners(i)) <= 1 /\ ~IsLong(i)
             /\ owners(i) = {} => Silent(i)
             /\ \A c \in owners(i) : Cardinality(parts(i, c)) = 1 \/ (parts(i, c) = {} /\ Silent(i))
  <2>1. \A c, d \in owners(i) : c = d
    <3> SUFFICES ASSUME NEW c \in owners(i), NEW d \in owners(i), c < d PROVE FALSE
      BY <1>1, <1>2
    <3>1. children[c].end < children[d].start BY <1>1 DEF ChildrenInv
    <3>2. children[c].end \in Nat /\ children[d].start \in Nat BY <1>3
    <3>3. i \in children[c].start .. children[c].end /\ i \in children[d].start .. children[d].end OBVIOUS
    <3> QED BY <1>3, <3>1, <3>2, <3>3
  <2>2. Cardinality(owners(i)) <= 1
    <3>1. CASE owners(i) = {}
      <4>1. Cardinality(owners(i)) = 0 BY <3>1, FS_EmptySet
      <4> QED BY <4>1
    <3>2. CASE owners(i) # {}
      <4>1. PICK c : owners(i) = {c} BY <2>1, <3>2
      <4>2. Cardinality({c}) = 1 BY FS_Singleton
      <4> QED BY <4>1, <4>2
    <3> QED BY <3>1, <3>2
  <2>3. owners(i) = {} => Silent(i)
    <3>1. CASE i \in 1 .. LastEnd BY <1>1, <3>1 DEF ChildrenInv, LinesOf
    <3>2. CASE i \notin 1 .. LastEnd
      <4>1. i \in LastEnd + 1 .. pos + 1 - 1 BY <1>1, <3>2
      <4> QED BY <1>1, <4>1 DEF GapInv
    <3> QED BY <3>1, <3>2
  <2>4. ASSUME NEW o \in owners(i)
        PROVE  Cardinality(parts(i, o)) = 1 \/ (parts(i, o) = {} /\ Silent(i))
    <3> DEFINE c == children[o]
               P == PiecesOf(c)
               B == BodyLinesOf(c)
               E == EndsOf(c)
    <3>1. c \in Child /\ Whole(c) /\ i \in c.start .. c.end BY <1>1
    <3>2. /\ Joined(c) /\ (\A j \in LastPiece(c) + 1 .. Made(c) : Silent(j))
          /\ B \cup E = Made(c) + 1 .. c.end /\ B \cap E = {}
      BY <3>1 DEF Whole, Instruction, Split
    <3>3. Made(c) \in Nat /\ LastPiece(c) \in 1 .. Made(c) BY <1>1, <3>1, <3>2, MadeTyped
    <3>4. c.start \in Nat /\ c.end \in Nat BY <1>3
    <3>5. P \subseteq c.start .. LastPiece(c) /\ \A j \in c.start .. LastPiece(c) : j \in P \/ Silent(j)
      BY <3>2 DEF Joined, PiecesOf
    <3>6. parts(i, o) = {p \in {P, B, E} : i \in p} OBVIOUS
    <3> HIDE DEF c, P, B, E, parts, owners
    <3>7. \/ i \in P /\ i \notin B /\ i \notin E
          \/ i \notin P /\ i \in B /\ i \notin E
          \/ i \notin P /\ i \notin B /\ i \in E
          \/ i \notin P /\ i \notin B /\ i \notin E /\ Silent(i)
      <4>1. CASE i <= LastPiece(c)
        <5>1. i \in c.start .. LastPiece(c) /\ i \notin Made(c) + 1 .. c.end
          BY <3>1, <3>3, <3>4, <4>1
        <5> QED BY <3>2, <3>5, <5>1
      <4>2. CASE i > LastPiece(c) /\ i <= Made(c)
        <5>1. i \in LastPiece(c) + 1 .. Made(c) /\ i \notin Made(c) + 1 .. c.end
              /\ i \notin c.start .. LastPiece(c)
          BY <3>1, <3>3, <3>4, <4>2
        <5> QED BY <3>2, <3>5, <5>1
      <4>3. CASE i > Made(c)
        <5>1. i \in Made(c) + 1 .. c.end /\ i \notin c.start .. LastPiece(c)
          BY <3>1, <3>3, <3>4, <4>3
        <5> QED BY <3>2, <3>5, <5>1
      <4> QED BY <3>3, <4>1, <4>2, <4>3
    <3>8. (\E p : parts(i, o) = {p}) \/ (parts(i, o) = {} /\ Silent(i))
      <4>1. CASE i \in P /\ i \notin B /\ i \notin E
        <5>1. parts(i, o) = {P} BY <3>6, <4>1
        <5> QED BY <5>1
      <4>2. CASE i \notin P /\ i \in B /\ i \notin E
        <5>1. parts(i, o) = {B} BY <3>6, <4>2
        <5> QED BY <5>1
      <4>3. CASE i \notin P /\ i \notin B /\ i \in E
        <5>1. parts(i, o) = {E} BY <3>6, <4>3
        <5> QED BY <5>1
      <4>4. CASE i \notin P /\ i \notin B /\ i \notin E /\ Silent(i)
        <5>1. parts(i, o) = {} BY <3>6, <4>4
        <5> QED BY <4>4, <5>1
      <4> QED BY <3>7, <4>1, <4>2, <4>3, <4>4
    <3> QED BY <3>8, FS_Singleton
  <2> HIDE DEF owners, parts
  <2> QED BY <1>1, <2>2, <2>3, <2>4
<1>5. ASSUME NEW c \in DOMAIN children, NEW after, after = IF c = 1 THEN 0 ELSE children[c - 1].end
      PROVE  /\ children[c].start > after
             /\ \A k \in DOMAIN children[c].comments :
                  children[c].comments[k] \in after + 1 .. children[c].start - 1
  <2>1. \A k \in DOMAIN children[c].comments :
          /\ children[c].comments[k] \in 1 .. children[c].start - 1
          /\ c > 1 => children[c].comments[k] > children[c - 1].end
    BY <1>1 DEF ChildrenInv
  <2>2. children[c].start \in Nat /\ children[c].start >= 1 BY <1>1, WholeLines
  <2>3. CASE c = 1 BY <1>5, <2>1, <2>2, <2>3
  <2>4. CASE c # 1
    <3>1. c - 1 \in DOMAIN children /\ c - 1 < c /\ c > 1 BY <1>1, <1>2, <2>4
    <3>2. after = children[c - 1].end /\ after \in Nat BY <1>3, <1>5, <2>4, <3>1
    <3>3. after < children[c].start BY <1>1, <3>1, <3>2 DEF ChildrenInv
    <3> QED BY <2>1, <2>2, <3>1, <3>2, <3>3
  <2> QED BY <2>3, <2>4
<1> HIDE DEF owners, parts
<1> QED BY <1>1, <1>4, <1>5 DEF LinesAccounted, owners, parts

\* In every finished parse, each line of the file has one place.
THEOREM LinesTheorem == Spec => []LinesAccounted
  BY ParserInvariant, LinesLemma, PTL
=============================================================================
