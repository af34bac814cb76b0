---------------------------- MODULE MCStageGraph ----------------------------
(***************************************************************************)
(* Small Dockerfiles for StageGraph: up to three stages whose names, bases *)
(* and references collide in every way three names allow.                  *)
(***************************************************************************)
EXTENDS StageGraph

MCName == {"a", "b", "A", "img", "scratch"}
MCLower == [n \in MCName |-> IF n = "A" THEN "a" ELSE n]
MCNone == "none"

Copy(n) == [kind |-> "copy", name |-> n]
Index(i) == [kind |-> "index", index |-> i]
Mount(n) == [kind |-> "mount", name |-> n]

StageOf(names, bases, refs) ==
    [name : names, from : bases, refs : refs, steps : {1}, fault : {"none"}]

\* FROM lines that are rejected, or that a named context may save
FaultyStages ==
    [name : {"a", MCNone}, from : {"img", MCNone}, refs : {<<>>}, steps : {0},
     fault : {"none", "expand", "platform"}]

\* every kind of reference alone, and lists that append image states before an index
RefLists == {<<>>, <<Copy("a")>>, <<Copy("A")>>, <<Copy("img")>>,
             <<Index(-1)>>, <<Index(1)>>, <<Index(2)>>,
             <<Mount("b"), Mount(MCNone)>>, <<Copy("img"), Index(2)>>}

TwoStages ==
    {<<s, t>> : s \in StageOf({"a", MCNone}, {"img", "scratch"}, RefLists),
                t \in StageOf({"a", "scratch"}, {"a", "A"}, RefLists)}

ThreeStages ==
    {<<s, t, u>> :
       s \in StageOf({"a"}, {"img"}, {<<>>, <<Copy("b")>>, <<Copy("a")>>, <<Mount(MCNone)>>}),
       t \in StageOf({"a", "b"}, {"a", "img"}, {<<>>, <<Copy("a")>>, <<Index(0)>>}),
       u \in StageOf({"b", MCNone}, {"a", "b"}, {<<>>, <<Copy("b"), Index(3)>>})}

MCDockerfiles == {<<s>> : s \in FaultyStages} \cup TwoStages \cup ThreeStages
MCOverrides == {{}, {"a"}}
MCTargets == {MCNone, "A", "b"}
=============================================================================
