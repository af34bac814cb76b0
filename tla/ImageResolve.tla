---------------------------- MODULE ImageResolve ----------------------------
(***************************************************************************)
(* The concurrent part of Dockerfile2LLB (dockerfile2llb/convert.go): one  *)
(* goroutine per stage that has no base among the stages parses the base   *)
(* image's name, asks for a named context of that name, and, if the target *)
(* needs the stage, asks the registry for the image's config.  The main    *)
(* thread starts them in list order and waits for all of them.             *)
(***************************************************************************)
EXTENDS Integers, FiniteSets

CONSTANTS N,                   \* number of dispatch states
          Inputs,              \* what a state may look like when the loop gets to it
          NoError              \* a nil error

ASSUME NAssumption == N \in Nat \ {0}

Node == 1 .. N

(* kind:     "based" has a base among the stages, "override" was replaced  *)
(*           by a named context, "scratch" is FROM scratch, "image" is     *)
(*           any other base name                                           *)
(* reachable: isReachable(target, d)                                       *)
(* explicit: the stage has a --platform                                    *)
(* badName:  the base name is no image reference                           *)
(* context:  what ContextByName has for the base name: nothing, a state    *)
(*           with or without an image config, or an error                  *)
Input == [kind : {"based", "override", "scratch", "image"},
          reachable : BOOLEAN, explicit : BOOLEAN, badName : BOOLEAN,
          context : {"nothing", "state", "state and config", "error"}]

ASSUME InputAssumption == Inputs \subseteq Input

\* the errors a goroutine returns
Errors == {"bad name", "context", "registry", "bad config", "cancelled"}

ASSUME ErrorAssumption == NoError \notin Errors

VARIABLES stage,               \* the input of every state
          implicitTarget,      \* no target platform was asked for
          main,                \* where the main thread is: "loop", "wait", "dispatch", "failed"
          next,                \* index of the loop
          pc,                  \* where the goroutine of a state is
          group,               \* the errgroup
          buildCancelled,      \* the context of the whole build is cancelled
          asked,               \* states whose image config was asked for
          image, state, platform,   \* what a state was given
          buildInfo,           \* states recorded as build dependencies
          cmdIndex             \* steps counted by prefixCommand

inputs == <<stage, implicitTarget>>
results == <<image, state, platform, buildInfo, cmdIndex>>
vars == <<stage, implicitTarget, main, next, pc, group, buildCancelled, asked,
          image, state, platform, buildInfo, cmdIndex>>

EG == INSTANCE ErrGroup

Init == /\ stage \in [Node -> Inputs]
        /\ implicitTarget \in BOOLEAN
        /\ main = "loop" /\ next = 1
        /\ pc = [d \in Node |-> "none"]
        /\ group = EG!NewGroup
        /\ buildCancelled = FALSE
        /\ asked = {}
        /\ image = [d \in Node |-> "unset"]
        /\ state = [d \in Node |-> "unset"]
        /\ platform = [d \in Node |-> IF stage[d].explicit THEN "explicit" ELSE "unset"]
        /\ buildInfo = {}
        /\ cmdIndex = [d \in Node |-> 0]

-----------------------------------------------------------------------------
Looping == main = "loop" /\ next <= N

\* d.base != nil || d.noinit
PassOver ==
    /\ Looping /\ stage[next].kind \in {"based", "override"}
    /\ next' = next + 1
    /\ UNCHANGED <<main, pc, group, buildCancelled, asked, results>>

\* FROM scratch needs no goroutine
SetScratch ==
    /\ Looping /\ stage[next].kind = "scratch"
    /\ state' = [state EXCEPT ![next] = "scratch"]
    /\ image' = [image EXCEPT ![next] = "empty"]
    /\ next' = next + 1
    /\ UNCHANGED <<main, pc, group, buildCancelled, asked, platform, buildInfo, cmdIndex>>

\* eg.Go
StartResolve ==
    /\ Looping /\ stage[next].kind = "image"
    /\ group' = EG!Started(group, next)
    /\ pc' = [pc EXCEPT ![next] = "parse"]
    /\ next' = next + 1
    /\ UNCHANGED <<main, buildCancelled, asked, results>>

StartWait ==
    /\ main = "loop" /\ next > N
    /\ main' = "wait"
    /\ UNCHANGED <<next, pc, group, buildCancelled, asked, results>>

\* mutations of WaitReturns: it returns at the first error, or drops it
WaitReturnsOnError ==
    /\ main = "wait" /\ (EG!Joined(group) \/ group.err # NoError)
    /\ main' = IF group.err = NoError THEN "dispatch" ELSE "failed"
    /\ UNCHANGED <<next, pc, group, buildCancelled, asked, results>>
WaitDropsError ==
    /\ main = "wait" /\ EG!Joined(group)
    /\ main' = "dispatch"
    /\ UNCHANGED <<next, pc, group, buildCancelled, asked, results>>

\* eg.Wait returns
WaitReturns ==
    /\ main = "wait" /\ EG!Joined(group)
    /\ main' = IF group.err = NoError THEN "dispatch" ELSE "failed"
    /\ UNCHANGED <<next, pc, group, buildCancelled, asked, results>>

-----------------------------------------------------------------------------
Return(d, e) == /\ group' = EG!Returned(group, d, e)
                /\ pc' = [pc EXCEPT ![d] = "done"]

Cancelled == group.cancelled \/ buildCancelled

\* the platform a stage has when nothing is detected
WantedPlatform(d) == IF stage[d].explicit THEN "explicit" ELSE "target"

\* mutation of ParseName: the goroutine of a bad name never counts as returned
ParseNameForgets(d) ==
    /\ pc[d] = "parse"
    /\ pc' = [pc EXCEPT ![d] = IF stage[d].badName THEN "done" ELSE "context"]
    /\ UNCHANGED <<main, next, group, buildCancelled, asked, results>>

\* reference.ParseNormalizedNamed, of unreachable stages too
ParseName(d) ==
    /\ pc[d] = "parse"
    /\ IF stage[d].badName THEN Return(d, "bad name")
       ELSE pc' = [pc EXCEPT ![d] = "context"] /\ UNCHANGED group
    /\ UNCHANGED <<main, next, buildCancelled, asked, results>>

\* mutation of UseContext: a context without a config leaves the stage without one
UseContextWithoutImage(d) ==
    /\ pc[d] = "context" /\ stage[d].context \in {"state", "state and config"}
    /\ image' = IF stage[d].context = "state" THEN image ELSE [image EXCEPT ![d] = "context"]
    /\ state' = [state EXCEPT ![d] = "context"]
    /\ platform' = [platform EXCEPT ![d] = WantedPlatform(d)]
    /\ Return(d, NoError)
    /\ UNCHANGED <<main, next, buildCancelled, asked, buildInfo, cmdIndex>>

\* opt.ContextByName finds the base name among the named contexts
UseContext(d) ==
    /\ pc[d] = "context" /\ stage[d].context \in {"state", "state and config"}
    /\ image' = [image EXCEPT ![d] = IF stage[d].context = "state" THEN "empty" ELSE "context"]
    /\ state' = [state EXCEPT ![d] = "context"]
    /\ platform' = [platform EXCEPT ![d] = WantedPlatform(d)]
    /\ Return(d, NoError)
    /\ UNCHANGED <<main, next, buildCancelled, asked, buildInfo, cmdIndex>>

\* llb.Image, with the step label prefixCommand counts
ImageState(d) ==
    /\ state' = [state EXCEPT ![d] = "image"]
    /\ cmdIndex' = [cmdIndex EXCEPT ![d] = @ + 1]

\* no context has that name: an unreachable stage is done without any metadata
NoContext(d) ==
    /\ pc[d] = "context" /\ stage[d].context = "nothing"
    /\ IF stage[d].reachable
       THEN /\ pc' = [pc EXCEPT ![d] = "resolve"]
            /\ asked' = asked \cup {d}
            /\ UNCHANGED <<group, results>>
       ELSE /\ ImageState(d)
            /\ platform' = [platform EXCEPT ![d] = WantedPlatform(d)]
            /\ Return(d, NoError)
            /\ UNCHANGED <<asked, image, buildInfo>>
    /\ UNCHANGED <<main, next, buildCancelled>>

\* the lookup of the named context fails, or is cut short by a cancellation
ContextError(d) ==
    /\ pc[d] = "context"
    /\ \/ stage[d].context = "error" /\ Return(d, "context")
       \/ Cancelled /\ Return(d, "cancelled")
    /\ UNCHANGED <<main, next, buildCancelled, asked, results>>

(* ResolveImageConfig answers.  A config without layers is taken for an    *)
(* empty image, unless its history says it has some (schema 1).            *)
UseConfig(d) ==
    /\ pc[d] = "resolve"
    /\ image' = [image EXCEPT ![d] = "config"]
    /\ \E layers \in {"none", "unlisted", "listed"} :
         IF layers = "none"
         THEN /\ state' = [state EXCEPT ![d] = "scratch"]
              /\ UNCHANGED <<cmdIndex, buildInfo>>
         ELSE /\ ImageState(d)
              /\ buildInfo' = buildInfo \cup {d}
    /\ \E p \in IF ~stage[d].explicit /\ implicitTarget THEN {"target", "detected"}
                ELSE {WantedPlatform(d)} :
         platform' = [platform EXCEPT ![d] = p]
    /\ Return(d, NoError)
    /\ UNCHANGED <<main, next, buildCancelled, asked>>

\* the registry fails, or answers with something that is no config or no digest
ConfigError(d) ==
    /\ pc[d] = "resolve"
    /\ \E e \in {"registry", "bad config"} \cup (IF Cancelled THEN {"cancelled"} ELSE {}) :
         Return(d, e)
    /\ UNCHANGED <<main, next, buildCancelled, asked, results>>

Goroutine(d) == \/ ParseName(d) \/ UseContext(d) \/ NoContext(d) \/ ContextError(d)
                \/ UseConfig(d) \/ ConfigError(d)

\* another platform of the same build fails, or the client goes away
CancelBuild ==
    /\ ~buildCancelled /\ main \in {"loop", "wait"}
    /\ buildCancelled' = TRUE
    /\ UNCHANGED <<main, next, pc, group, asked, results>>

Main == PassOver \/ SetScratch \/ StartResolve \/ StartWait \/ WaitReturns

Next == (Main \/ (\E d \in Node : Goroutine(d)) \/ CancelBuild) /\ UNCHANGED inputs

(* The scheduler runs every goroutine that can run, and the calls to the   *)
(* daemon return, with an answer or an error.                              *)
Spec == /\ Init /\ [][Next]_vars
        /\ WF_vars(Main /\ UNCHANGED inputs)
        /\ \A d \in Node : WF_vars(Goroutine(d) /\ UNCHANGED inputs)

-----------------------------------------------------------------------------
TypeOK == /\ stage \in [Node -> Inputs] /\ implicitTarget \in BOOLEAN
          /\ main \in {"loop", "wait", "dispatch", "failed"}
          /\ next \in 1 .. N + 1
          /\ pc \in [Node -> {"none", "parse", "context", "resolve", "done"}]
          /\ group \in [running : SUBSET Node, err : Errors \cup {NoError}, cancelled : BOOLEAN]
          /\ buildCancelled \in BOOLEAN
          /\ asked \in SUBSET Node /\ buildInfo \in SUBSET Node
          /\ image \in [Node -> {"unset", "empty", "context", "config"}]
          /\ state \in [Node -> {"unset", "scratch", "context", "image"}]
          /\ platform \in [Node -> {"unset", "explicit", "target", "detected"}]
          /\ cmdIndex \in [Node -> Nat]

Over == main \in {"dispatch", "failed"}

(* The dispatch loop starts only when every stage the target needs has its *)
(* filesystem and its image config, whatever the order the goroutines      *)
(* ended in.                                                               *)
DispatchIsReady ==
    main = "dispatch" =>
        \A d \in Node : stage[d].kind \in {"scratch", "image"} /\ stage[d].reachable =>
            state[d] # "unset" /\ image[d] # "unset"

(* No goroutine is left when eg.Wait has returned, with an error or not:   *)
(* none writes to a dispatch state while, or after, the main thread reads  *)
(* it.                                                                     *)
NoLateWrites == [][Over => UNCHANGED <<results, asked>>]_vars

(* The wait ends. *)
Terminates == <>Over

(* The goroutines implement the all-or-nothing promise of ImageMetadata. *)
Needed == {d \in Node : stage[d].kind \in {"scratch", "image"}}
Abstract == INSTANCE ImageMetadata WITH
    needed <- Needed,
    ready <- {d \in Node : state[d] # "unset"},
    outcome <- IF main = "dispatch" THEN "ready" ELSE IF main = "failed" THEN "failed" ELSE "pending"
ImplementsMetadata == Abstract!Spec
=============================================================================
