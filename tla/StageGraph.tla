----------------------------- MODULE StageGraph -----------------------------
(***************************************************************************)
(* The stage graph Dockerfile2LLB (dockerfile2llb/convert.go) builds       *)
(* before it resolves or dispatches anything: every stage becomes a        *)
(* dispatch state, the target is picked, every command's sources are       *)
(* looked up, and the dependencies are checked for cycles.                 *)
(*                                                                         *)
(* Dispatch states are numbered by their position in                       *)
(* dispatchStates.states, from 1; 0 stands for a nil *dispatchState.       *)
(***************************************************************************)
EXTENDS Integers, Sequences, FiniteSets, StageDigraph

CONSTANTS
    Name,              \* stage and image names, as they are spelled
    Lower,             \* strings.ToLower on them
    None,              \* the empty string: a stage without AS, a blank base name
    Scratch,           \* emptyImageName, "scratch"
    Dockerfiles,       \* the Dockerfiles considered
    Overrides,         \* sets of stage names a named build context may replace
    Targets            \* values of the target option, None for no option

ASSUME NameAssumption ==
    /\ None \notin Name
    /\ Scratch \in Name
    /\ Lower \in [Name -> Name]
    /\ \A n \in Name : Lower[Lower[n]] = Lower[n]
    /\ Lower[Scratch] = Scratch

(* A reference a command makes to another stage: COPY --from=<number>,     *)
(* COPY --from=<name>, or one per RUN --mount, whose from may be missing.  *)
Ref == [kind : {"index"}, index : Int] \cup [kind : {"copy"}, name : Name]
         \cup [kind : {"mount"}, name : Name \cup {None}]

(* A stage as the instruction parser leaves it: the name it is given, the  *)
(* base name after expansion, the references of its commands in order, the *)
(* number of commands that count as a step (ADD, COPY, RUN and, when they  *)
(* make a layer, WORKDIR), and whether FROM's words expand and parse.      *)
Stage == [name : Name \cup {None}, from : Name \cup {None}, refs : Seq(Ref),
          steps : Nat, fault : {"none", "expand", "platform"}]

ASSUME DockerfileAssumption ==
    /\ \A df \in Dockerfiles : df \in Seq(Stage) /\ df # <<>>
    \* parseBuildStageName lowercases the name it accepts
    /\ \A df \in Dockerfiles : \A i \in DOMAIN df :
         df[i].name # None => Lower[df[i].name] = df[i].name
    \* ContextByName is never asked about "scratch"
    /\ \A o \in Overrides : o \subseteq Name \ {Scratch}
    /\ Targets \subseteq Name \cup {None}

VARIABLES
    dockerfile,        \* the parsed Dockerfile (instructions.Parse)
    overrides,         \* stage names ContextByName has a context for
    targetOpt,         \* opt.Target
    phase,             \* the part of Dockerfile2LLB being executed
    states,            \* allDispatchStates.states
    byName,            \* allDispatchStates.statesByName
    target,            \* the target's dispatch state
    cur,               \* the stage the current loop is at
    err                \* the error returned, "none" so far

inputs == <<dockerfile, overrides, targetOpt>>
vars == <<dockerfile, overrides, targetOpt, phase, states, byName, target, cur, err>>

DispatchState ==
    [name : Name \cup {None},          \* stage.Name
     from : Name \cup {None},          \* stage.BaseName
     base : Nat,                       \* base
     deps : SUBSET Nat,                \* deps
     sources : Seq(Nat),               \* the sources of its commands, in order
     refs : Seq(Ref),                  \* what its commands ask for
     noinit : BOOLEAN, unregistered : BOOLEAN,
     total : Nat]                      \* cmdTotal

Ids == 1 .. Len(states)

Init == /\ dockerfile \in Dockerfiles
        /\ overrides \in Overrides
        /\ targetOpt \in Targets
        /\ phase = "register"
        /\ states = <<>>
        /\ byName = [n \in {} |-> 0]
        /\ target = 0
        /\ cur = 1
        /\ err = "none"

-----------------------------------------------------------------------------
Fail(e) == phase' = "failed" /\ err' = e /\ UNCHANGED <<states, byName, target, cur>>

\* the base addState finds: the key is the base name as it is spelled
BaseOf(from) == IF from \in DOMAIN byName THEN byName[from] ELSE 0

\* mutation of AddState: the first stage of a name keeps it
AddStateKeepsFirst(ds) ==
    /\ states' = Append(states, [ds EXCEPT !.base = BaseOf(ds.from)])
    /\ byName' = IF ds.name = None \/ Lower[ds.name] \in DOMAIN byName THEN byName
                 ELSE [n \in DOMAIN byName \cup {Lower[ds.name]} |->
                         IF n = Lower[ds.name] THEN Len(states) + 1 ELSE byName[n]]

\* dispatchStates.addState
AddState(ds) ==
    /\ states' = Append(states, [ds EXCEPT !.base = BaseOf(ds.from)])
    /\ byName' = IF ds.name = None THEN byName
                 ELSE [n \in DOMAIN byName \cup {Lower[ds.name]} |->
                         IF n = Lower[ds.name] THEN Len(states) + 1 ELSE byName[n]]

NewState == [name |-> None, from |-> None, base |-> 0, deps |-> {}, sources |-> <<>>,
             refs |-> <<>>, noinit |-> FALSE, unregistered |-> FALSE, total |-> 0]

Current == dockerfile[cur]

Registering == phase = "register" /\ cur <= Len(dockerfile)

NextStage == cur' = cur + 1 /\ UNCHANGED <<phase, target, err>>

\* FROM whose base name does not expand, or expands to nothing
BadBase ==
    /\ Registering
    /\ Current.fault = "expand" \/ Current.from = None
    /\ Fail("base name")

\* a named context replaces the stage: its commands are dropped, and since ds.stage is
\* not assigned before addState it is not registered under its name either
OverrideStage ==
    /\ Registering
    /\ Current.fault # "expand" /\ Current.from # None
    /\ Current.name \in overrides
    /\ AddState([NewState EXCEPT !.noinit = TRUE])
    /\ NextStage

\* the named context cannot be loaded
ContextError ==
    /\ Registering
    /\ Current.fault # "expand" /\ Current.from # None
    /\ Current.name \in overrides
    /\ Fail("named context")

BadPlatform ==
    /\ Registering
    /\ Current.fault = "platform" /\ Current.from # None
    /\ Current.name \notin overrides
    /\ Fail("platform")

\* a stage of its own; pulling its base image is a step only if the base is no stage
RegisterStage ==
    /\ Registering
    /\ Current.fault = "none" /\ Current.from # None
    /\ Current.name \notin overrides
    /\ LET pulls == Current.from # Scratch /\ BaseOf(Current.from) = 0
       IN  AddState([NewState EXCEPT !.name = Current.name, !.from = Current.from,
                                     !.refs = Current.refs,
                                     !.total = Current.steps + (IF pulls THEN 1 ELSE 0)])
    /\ NextStage

-----------------------------------------------------------------------------
\* mutation of Found: without strings.ToLower
FoundAsSpelled(n) == n \in DOMAIN byName

Found(n) == Lower[n] \in DOMAIN byName

\* mutation of PickTarget: the default is one off
PickTargetFromZero ==
    /\ phase = "register" /\ cur > Len(dockerfile)
    /\ targetOpt # None => Found(targetOpt)
    /\ target' = IF targetOpt = None THEN Len(states) - 1 ELSE byName[Lower[targetOpt]]
    /\ phase' = "link" /\ cur' = 1
    /\ UNCHANGED <<states, byName, err>>

PickTarget ==
    /\ phase = "register" /\ cur > Len(dockerfile)
    /\ targetOpt # None => Found(targetOpt)
    /\ target' = IF targetOpt = None THEN Len(states) ELSE byName[Lower[targetOpt]]
    /\ phase' = "link" /\ cur' = 1
    /\ UNCHANGED <<states, byName, err>>

NoSuchTarget ==
    /\ phase = "register" /\ cur > Len(dockerfile)
    /\ targetOpt # None /\ ~Found(targetOpt)
    /\ Fail("target")

-----------------------------------------------------------------------------
(* The linking loop: toCommand and detectRunMount find the source of each  *)
(* reference of each command; a name no stage has makes a new, unnamed     *)
(* state that is appended to the list.                                     *)
Linking == /\ phase = "link" /\ cur <= Len(dockerfile)
           /\ Len(states[cur].sources) < Len(states[cur].refs)

NextRef == states[cur].refs[Len(states[cur].sources) + 1]

\* a mount without from has "scratch" for its source
RefName(r) == IF r.kind = "mount" /\ r.name = None THEN Scratch ELSE r.name

\* the states, with s linked as the next source of the current stage
Linked(s) == [states EXCEPT ![cur].sources = Append(@, s), ![cur].deps = @ \cup {s}]

\* findStateByIndex succeeds: the index counts the states appended so far as well
LinkIndex ==
    /\ Linking /\ NextRef.kind = "index"
    /\ NextRef.index \in 0 .. Len(states) - 1
    /\ states' = Linked(NextRef.index + 1)
    /\ UNCHANGED <<phase, byName, target, cur, err>>

BadIndex ==
    /\ Linking /\ NextRef.kind = "index"
    /\ NextRef.index \notin 0 .. Len(states) - 1
    /\ Fail("stage index")

LinkStage ==
    /\ Linking /\ NextRef.kind # "index"
    /\ Found(RefName(NextRef))
    /\ states' = Linked(byName[Lower[RefName(NextRef)]])
    /\ UNCHANGED <<phase, byName, target, cur, err>>

\* mutation of LinkImage: the new state goes to the front of the list
LinkImageInFront ==
    /\ Linking /\ NextRef.kind # "index"
    /\ ~Found(RefName(NextRef))
    /\ states' = <<[NewState EXCEPT !.from = RefName(NextRef), !.unregistered = TRUE]>> \o Linked(1)
    /\ UNCHANGED <<phase, byName, target, cur, err>>

\* no stage has that name: a state for the image of that name, added by addState
LinkImage ==
    /\ Linking /\ NextRef.kind # "index"
    /\ ~Found(RefName(NextRef))
    /\ LET image == [NewState EXCEPT !.from = RefName(NextRef), !.unregistered = TRUE,
                                     !.base = BaseOf(RefName(NextRef))]
       IN  states' = Append(Linked(Len(states) + 1), image)
    /\ UNCHANGED <<phase, byName, target, cur, err>>

NextStageToLink ==
    /\ phase = "link" /\ cur <= Len(dockerfile)
    /\ Len(states[cur].sources) = Len(states[cur].refs)
    /\ cur' = cur + 1
    /\ UNCHANGED <<phase, states, byName, target, err>>

-----------------------------------------------------------------------------
Deps == [d \in Ids |-> states[d].deps]

\* mutation of CheckCircular: every graph is let through
CheckCircularNever ==
    /\ phase = "link" /\ cur > Len(dockerfile)
    /\ phase' = "resolve" /\ UNCHANGED <<states, byName, target, cur, err>>

\* hasCircularDependency, whose answer CircularCheck shows to be exact
CheckCircular ==
    /\ phase = "link" /\ cur > Len(dockerfile)
    /\ IF Cyclic(Deps) THEN Fail("circular")
       ELSE phase' = "resolve" /\ UNCHANGED <<states, byName, target, cur, err>>

Next ==
    /\ \/ BadBase \/ OverrideStage \/ ContextError \/ BadPlatform \/ RegisterStage
       \/ PickTarget \/ NoSuchTarget
       \/ LinkIndex \/ BadIndex \/ LinkStage \/ LinkImage \/ NextStageToLink
       \/ CheckCircular
    /\ UNCHANGED inputs

Spec == Init /\ [][Next]_vars
-----------------------------------------------------------------------------
Errors == {"none", "base name", "named context", "platform", "target", "stage index", "circular"}

TypeOK == /\ dockerfile \in Dockerfiles /\ overrides \in Overrides /\ targetOpt \in Targets
          /\ phase \in {"register", "link", "resolve", "failed"}
          /\ states \in Seq(DispatchState)
          /\ \A d \in Ids : states[d].base \in Ids \cup {0} /\ states[d].deps \subseteq Ids
          /\ DOMAIN byName \subseteq Name /\ byName \in [DOMAIN byName -> Ids]
          /\ target \in Ids \cup {0}
          /\ cur \in 1 .. Len(dockerfile) + 1
          /\ err \in Errors

\* the stages of the Dockerfile registered under a name
StagesNamed(n) ==
    {i \in Ids : n # None /\ states[i].name # None /\ states[i].name = Lower[n]}

\* Base edges and dependency edges together: what isReachable walks along.
Edges == [d \in Ids |-> states[d].deps \cup ({states[d].base} \ {0})]

(* A base is an earlier state of the list, so the dispatch loop, which     *)
(* goes by index, has always finished the base of the stage it is at.      *)
BaseIsEarlier == \A d \in Ids : states[d].base < d

(* FROM names the nearest earlier stage of that name, although statesByName*)
(* keeps only one state per name and later stages overwrite it; the states *)
(* made for COPY --from and RUN --mount images have no base at all.        *)
BaseIsNearest ==
    \A d \in Ids :
        LET earlier == {i \in StagesNamed(states[d].from) : i < d}
            b == states[d].base
        IN  IF b = 0
            THEN states[d].from # None /\ Lower[states[d].from] = states[d].from
                   => earlier = {}
            ELSE b \in earlier /\ \A i \in earlier : i <= b

(* Once the linking is done, COPY --from=name and RUN --mount from=name    *)
(* have for source the last stage of that name in the Dockerfile, whatever *)
(* its case, and a state of their own for the image of that name if there  *)
(* is no such stage.                                                       *)
SourceOf(d, k) == states[d].sources[k]
SourcesAreStages ==
    \A d \in Ids : \A k \in 1 .. Len(states[d].sources) :
        LET r == states[d].refs[k]
            named == StagesNamed(RefName(r))
        IN  r.kind # "index" =>
              IF named # {}
              THEN SourceOf(d, k) \in named /\ \A i \in named : i <= SourceOf(d, k)
              ELSE states[SourceOf(d, k)].unregistered /\ states[SourceOf(d, k)].from = RefName(r)

(* The dependency set the cycle check and the reachability walk see is     *)
(* the set of sources the dispatch will read, and the check has seen all   *)
(* of them.                                                                *)
DepsAreSources ==
    /\ \A d \in Ids : states[d].deps = {SourceOf(d, k) : k \in 1 .. Len(states[d].sources)}
    /\ phase = "resolve" => \A d \in Ids : Len(states[d].sources) = Len(states[d].refs)

(* The step total shown in "[stage n/total]" counts the pull of a base     *)
(* image exactly for the stages that will pull one.                        *)
TotalCountsPull ==
    \A d \in 1 .. Len(dockerfile) \cap Ids :
        ~states[d].noinit =>
            states[d].total = dockerfile[d].steps
              + (IF states[d].base = 0 /\ states[d].from # Scratch THEN 1 ELSE 0)

(* The target is the stage --target names, the last one of that name, and  *)
(* the last stage of the Dockerfile when it names none; the states made    *)
(* for images are never built as targets.                                  *)
TargetIsStage ==
    phase \in {"link", "resolve"} =>
        /\ target \in 1 .. Len(dockerfile)
        /\ targetOpt = None => target = Len(dockerfile)
        /\ targetOpt # None => target \in StagesNamed(targetOpt)
                               /\ \A i \in StagesNamed(targetOpt) : i <= target

(* A cycle the check lets through goes through a FROM and comes back by a  *)
(* reference to a later stage: Dockerfiles whose sources are all earlier   *)
(* stages have none.                                                       *)
CyclesGoForward ==
    phase = "resolve" =>
        \A S \in SUBSET Ids : Recurrent(S, Edges) =>
            \E d \in S : (\E s \in states[d].deps \cap S : s > d) /\ \E b \in S : states[b].base \in S

(* Registered states keep their number and what was decided about them:    *)
(* COPY --from=<number> and the dispatch loop go by position.              *)
PositionsStable ==
    [][\A d \in Ids :
         /\ d \in DOMAIN states'
         /\ states'[d].name = states[d].name /\ states'[d].from = states[d].from
         /\ states'[d].base = states[d].base /\ states'[d].total = states[d].total
         /\ states[d].deps \subseteq states'[d].deps]_states

(* "Stage name is case-insensitive by design" (parser/instructions/        *)
(* commands.go): FROM of a stage's name in another case is that stage.     *)
FromIgnoresCase ==
    \A d \in Ids : (\E i \in StagesNamed(states[d].from) : i < d) => states[d].base # 0

(* "circular dependency detected on stage" (dockerfile2llb/convert_test.go:*)
(* multiple stages with circular dependency): a Dockerfile that is         *)
(* accepted has no circular dependency.                                    *)
AcceptedIsAcyclic == phase = "resolve" => ~Cyclic(Edges)
=============================================================================
