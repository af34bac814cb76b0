------------------------ MODULE ImageResolve_proofs ------------------------
(***************************************************************************)
(* For any number of stages of any kind, in whatever order the goroutines  *)
(* run, fail or are cancelled: the dispatch loop finds what it needs,      *)
(* nobody writes behind its back, and the goroutines implement             *)
(* ImageMetadata.                                                          *)
(***************************************************************************)
EXTENDS ImageResolve, TLAPS

Waiting(d) == pc[d] \in {"parse", "context", "resolve"}

\* the group knows who is running, and there is a goroutine for each image the loop has passed
GroupInv ==
    /\ group.running = {d \in Node : Waiting(d)}
    /\ \A d \in Node : pc[d] # "none" <=> stage[d].kind = "image" /\ d < next

\* a goroutine that has returned has failed the group or done its work
DoneInv ==
    group.err = NoError =>
        \A d \in Node : pc[d] = "done" => /\ state[d] # "unset"
                                          /\ stage[d].reachable => image[d] # "unset"

ScratchInv ==
    \A d \in Node : d < next /\ stage[d].kind = "scratch" => state[d] # "unset" /\ image[d] # "unset"

NeededInv == \A d \in Node : state[d] # "unset" => d \in Needed

MainInv ==
    /\ main # "loop" => next = N + 1
    /\ Over => group.running = {}
    /\ main = "dispatch" => group.err = NoError

IInv == TypeOK /\ GroupInv /\ DoneInv /\ ScratchInv /\ NeededInv /\ MainInv

-----------------------------------------------------------------------------
\* Returning an error or nil keeps the group's types, and takes the goroutine out of it.
LEMMA ReturnGroup ==
    ASSUME TypeOK, NEW d \in Node, NEW e \in Errors \cup {NoError}, Return(d, e)
    PROVE  /\ group' \in [running : SUBSET Node, err : Errors \cup {NoError}, cancelled : BOOLEAN]
           /\ group'.running = group.running \ {d}
           /\ group'.err = NoError => group.err = NoError /\ e = NoError
           /\ pc' = [pc EXCEPT ![d] = "done"]
  BY ErrorAssumption DEF TypeOK, Return, EG!Returned

\* In the initial states nothing has started.
LEMMA InitInv == Init => IInv
<1> SUFFICES ASSUME Init PROVE IInv
  OBVIOUS
<1>1. TypeOK
  <2>1. stage \in [Node -> Inputs] /\ implicitTarget \in BOOLEAN
    BY DEF Init
  <2>2. main \in {"loop", "wait", "dispatch", "failed"} /\ next \in 1 .. N + 1
    BY NAssumption DEF Init
  <2> QED BY <2>1, <2>2 DEF Init, TypeOK, EG!NewGroup
<1>2. GroupInv /\ DoneInv /\ ScratchInv /\ NeededInv /\ MainInv
  BY NAssumption DEF Init, GroupInv, DoneInv, ScratchInv, NeededInv, MainInv, Over, Waiting, EG!NewGroup, Node
<1> QED BY <1>1, <1>2 DEF IInv

\* What a step of the goroutine of d changes: its own entries, and the group.
OwnEntries(d) ==
    /\ \A k \in Node \ {d} : state'[k] = state[k] /\ image'[k] = image[k] /\ pc'[k] = pc[k]
    /\ UNCHANGED <<inputs, main, next, buildCancelled>>

\* A goroutine keeps the invariant if it returns, with an error or with its work done.
LEMMA ReturnInv ==
    ASSUME IInv, NEW d \in Node, NEW e \in Errors \cup {NoError}, Waiting(d), Return(d, e),
           TypeOK', OwnEntries(d),
           e = NoError => state'[d] # "unset" /\ (stage[d].reachable => image'[d] # "unset")
    PROVE  IInv'
<1>1. /\ group'.running = group.running \ {d} /\ pc' = [pc EXCEPT ![d] = "done"]
      /\ group'.err = NoError => group.err = NoError /\ e = NoError
  BY ReturnGroup DEF IInv
<1>2. pc \in [Node -> {"none", "parse", "context", "resolve", "done"}] /\ UNCHANGED <<stage, main, next>>
  BY DEF IInv, TypeOK, OwnEntries, inputs
<1>3. stage[d].kind = "image" /\ d < next
  BY <1>2 DEF IInv, GroupInv, Waiting
<1>4. GroupInv'
  BY <1>1, <1>2, <1>3 DEF IInv, GroupInv, Waiting
<1>5. DoneInv'
  BY <1>1, <1>2 DEF IInv, DoneInv, OwnEntries
<1>6. ScratchInv'
  BY <1>2, <1>3 DEF IInv, ScratchInv, OwnEntries
<1>7. NeededInv'
  BY <1>2, <1>3 DEF IInv, NeededInv, Needed, OwnEntries
<1>8. ~Over
  BY DEF IInv, MainInv, GroupInv
<1>9. MainInv'
  BY <1>2, <1>8 DEF IInv, MainInv, Over
<1> QED BY <1>4, <1>5, <1>6, <1>7, <1>9 DEF IInv

\* A goroutine keeps the invariant if it only gets to its next call.
LEMMA CallInv ==
    ASSUME IInv, NEW d \in Node, NEW p \in {"context", "resolve"}, Waiting(d),
           pc' = [pc EXCEPT ![d] = p], TypeOK',
           UNCHANGED <<inputs, main, next, group, state, image>>
    PROVE  IInv'
<1>1. pc \in [Node -> {"none", "parse", "context", "resolve", "done"}] /\ UNCHANGED <<stage, implicitTarget>>
  BY DEF IInv, TypeOK, inputs
<1>2. GroupInv'
  BY <1>1 DEF IInv, GroupInv, Waiting
<1>3. DoneInv' /\ ScratchInv' /\ NeededInv' /\ MainInv'
  BY <1>1 DEF IInv, DoneInv, ScratchInv, NeededInv, Needed, MainInv, Over
<1> QED BY <1>2, <1>3 DEF IInv

\* Every step of a goroutine keeps the invariant.
LEMMA GoroutineInv ==
    ASSUME IInv, NEW d \in Node, Goroutine(d), UNCHANGED inputs
    PROVE  IInv'
<1> USE DEF IInv
<1>t. /\ TypeOK /\ stage[d] \in Input /\ UNCHANGED <<stage, implicitTarget>>
      /\ NoError \in Errors \cup {NoError}
  BY InputAssumption DEF TypeOK, inputs
<1>1. CASE ParseName(d)
  <2>1. Waiting(d)
    BY <1>1 DEF ParseName, Waiting
  <2>2. CASE stage[d].badName
    <3>1. Return(d, "bad name") /\ "bad name" \in Errors /\ UNCHANGED <<main, next, buildCancelled, asked, results>>
      BY <1>1, <2>2 DEF ParseName, Errors
    <3>2. TypeOK'
      BY <1>t, <3>1, ReturnGroup DEF TypeOK, results
    <3>3. OwnEntries(d)
      <4>1. pc' = [pc EXCEPT ![d] = "done"] BY <3>1 DEF Return
      <4> QED BY ONLY <1>t, <3>1, <4>1 DEF TypeOK, OwnEntries, results, inputs
    <3> QED BY ONLY IInv, <2>1, <3>1, <3>2, <3>3, ReturnInv, ErrorAssumption
  <2>3. CASE ~stage[d].badName
    <3>1. pc' = [pc EXCEPT ![d] = "context"] /\ UNCHANGED <<main, next, group, buildCancelled, asked, results>>
      BY <1>1, <2>3 DEF ParseName
    <3>2. TypeOK'
      BY <1>t, <3>1 DEF TypeOK, results
    <3> QED BY <2>1, <3>1, <3>2, CallInv DEF results
  <2> QED BY <2>2, <2>3
<1>2. CASE UseContext(d)
  <2>1. Waiting(d) /\ Return(d, NoError) /\ UNCHANGED <<main, next, buildCancelled, asked, buildInfo, cmdIndex>>
    BY <1>2 DEF UseContext, Waiting
  <2>2. /\ image' = [image EXCEPT ![d] = IF stage[d].context = "state" THEN "empty" ELSE "context"]
        /\ state' = [state EXCEPT ![d] = "context"]
        /\ platform' = [platform EXCEPT ![d] = WantedPlatform(d)]
    BY <1>2 DEF UseContext
  <2>3. TypeOK'
    BY <1>t, <2>1, <2>2, ReturnGroup DEF TypeOK, WantedPlatform
  <2>4. OwnEntries(d)
    BY <1>t, <2>1, <2>2, ReturnGroup DEF TypeOK, OwnEntries, inputs
  <2>5. state'[d] # "unset" /\ image'[d] # "unset"
    BY <1>t, <2>2 DEF TypeOK
  <2> QED BY ONLY IInv, <1>t, <2>1, <2>3, <2>4, <2>5, ReturnInv
<1>3. CASE NoContext(d)
  <2>1. Waiting(d) /\ UNCHANGED <<main, next, buildCancelled>>
    BY <1>3 DEF NoContext, Waiting
  <2>2. CASE stage[d].reachable
    <3>1. /\ pc' = [pc EXCEPT ![d] = "resolve"] /\ asked' = asked \cup {d}
          /\ UNCHANGED <<group, results>>
      BY <1>3, <2>2 DEF NoContext
    <3>2. TypeOK'
      BY <1>t, <2>1, <3>1 DEF TypeOK, results
    <3> QED BY <2>1, <3>1, <3>2, CallInv DEF results
  <2>3. CASE ~stage[d].reachable
    <3>1. /\ state' = [state EXCEPT ![d] = "image"] /\ cmdIndex' = [cmdIndex EXCEPT ![d] = @ + 1]
          /\ platform' = [platform EXCEPT ![d] = WantedPlatform(d)]
          /\ Return(d, NoError) /\ UNCHANGED <<asked, image, buildInfo>>
      BY <1>3, <2>3 DEF NoContext, ImageState
    <3>2. TypeOK'
      BY <1>t, <2>1, <3>1, ReturnGroup DEF TypeOK, WantedPlatform
    <3>3. OwnEntries(d)
      BY <1>t, <2>1, <3>1, ReturnGroup DEF TypeOK, OwnEntries, inputs
    <3>4. state'[d] # "unset"
      BY <1>t, <3>1 DEF TypeOK
    <3> QED BY ONLY IInv, <1>t, <2>1, <2>3, <3>1, <3>2, <3>3, <3>4, ReturnInv
  <2> QED BY <2>2, <2>3
<1>4. CASE ContextError(d)
  <2>1. PICK e \in {"context", "cancelled"} : Return(d, e)
    BY <1>4 DEF ContextError
  <2>2. Waiting(d) /\ e \in Errors /\ UNCHANGED <<main, next, buildCancelled, asked, results>>
    BY <1>4 DEF ContextError, Waiting, Errors
  <2>3. TypeOK'
    BY <1>t, <2>1, <2>2, ReturnGroup DEF TypeOK, results
  <2>4. OwnEntries(d)
    <3>1. pc' = [pc EXCEPT ![d] = "done"] BY <2>1 DEF Return
    <3> QED BY ONLY <1>t, <2>2, <3>1 DEF TypeOK, OwnEntries, results, inputs
  <2> QED BY ONLY IInv, <2>1, <2>2, <2>3, <2>4, ReturnInv, ErrorAssumption
<1>5. CASE UseConfig(d)
  <2>1. Waiting(d) /\ Return(d, NoError) /\ UNCHANGED <<main, next, buildCancelled, asked>>
    BY <1>5 DEF UseConfig, Waiting
  <2>2. image' = [image EXCEPT ![d] = "config"]
    BY <1>5 DEF UseConfig
  <2>3. PICK s \in {"scratch", "image"} : state' = [state EXCEPT ![d] = s]
    BY <1>5 DEF UseConfig, ImageState
  <2>4. /\ cmdIndex' = cmdIndex \/ cmdIndex' = [cmdIndex EXCEPT ![d] = @ + 1]
        /\ buildInfo' \in {buildInfo, buildInfo \cup {d}}
        /\ \E p \in {"target", "detected", "explicit"} : platform' = [platform EXCEPT ![d] = p]
    BY <1>5 DEF UseConfig, ImageState, WantedPlatform
  <2>5. TypeOK'
    BY <1>t, <2>1, <2>2, <2>3, <2>4, ReturnGroup DEF TypeOK
  <2>6. OwnEntries(d)
    BY <1>t, <2>1, <2>2, <2>3, ReturnGroup DEF TypeOK, OwnEntries, inputs
  <2>7. state'[d] # "unset" /\ image'[d] # "unset"
    BY <1>t, <2>2, <2>3 DEF TypeOK
  <2> QED BY ONLY IInv, <1>t, <2>1, <2>5, <2>6, <2>7, ReturnInv
<1>6. CASE ConfigError(d)
  <2>1. PICK e \in {"registry", "bad config", "cancelled"} : Return(d, e)
    BY <1>6 DEF ConfigError
  <2>2. Waiting(d) /\ e \in Errors /\ UNCHANGED <<main, next, buildCancelled, asked, results>>
    BY <1>6 DEF ConfigError, Waiting, Errors
  <2>3. TypeOK'
    BY <1>t, <2>1, <2>2, ReturnGroup DEF TypeOK, results
  <2>4. OwnEntries(d)
    <3>1. pc' = [pc EXCEPT ![d] = "done"] BY <2>1 DEF Return
    <3> QED BY ONLY <1>t, <2>2, <3>1 DEF TypeOK, OwnEntries, results, inputs
  <2> QED BY ONLY IInv, <2>1, <2>2, <2>3, <2>4, ReturnInv, ErrorAssumption
<1> QED BY ONLY <1>1, <1>2, <1>3, <1>4, <1>5, <1>6, Goroutine(d) DEF Goroutine

\* Every step of the main thread keeps the invariant.
LEMMA LoopInv ==
    ASSUME IInv, Main, UNCHANGED inputs
    PROVE  IInv'
<1>t. /\ TypeOK /\ stage \in [Node -> Input] /\ UNCHANGED <<stage, implicitTarget>>
      /\ N \in Nat /\ next \in 1 .. N + 1
      /\ GroupInv /\ DoneInv /\ ScratchInv /\ NeededInv /\ MainInv
  BY InputAssumption, NAssumption DEF IInv, TypeOK, inputs
<1>1. CASE PassOver
  <2>1. /\ main = "loop" /\ next \in Node /\ stage[next].kind \in {"based", "override"} /\ next' = next + 1
        /\ UNCHANGED <<main, pc, group, buildCancelled, asked, image, state, platform, buildInfo, cmdIndex>>
    BY <1>t, <1>1 DEF PassOver, Looping, results, Node
  <2>2. TypeOK'
    BY <1>t, <2>1 DEF TypeOK, Node
  <2>3. GroupInv' /\ ScratchInv'
    BY <1>t, <2>1 DEF GroupInv, ScratchInv, Waiting, Node
  <2>4. DoneInv' /\ NeededInv' /\ MainInv'
    BY <1>t, <2>1 DEF DoneInv, NeededInv, Needed, MainInv, Over
  <2> QED BY ONLY <2>2, <2>3, <2>4 DEF IInv
<1>2. CASE SetScratch
  <2>1. /\ main = "loop" /\ next \in Node /\ stage[next].kind = "scratch" /\ next' = next + 1
        /\ state' = [state EXCEPT ![next] = "scratch"] /\ image' = [image EXCEPT ![next] = "empty"]
        /\ UNCHANGED <<main, pc, group, buildCancelled, asked, platform, buildInfo, cmdIndex>>
    BY <1>t, <1>2 DEF SetScratch, Looping, Node
  <2>2. TypeOK'
    BY <1>t, <2>1 DEF TypeOK, Node
  <2>3. /\ state'[next] = "scratch" /\ image'[next] = "empty"
        /\ \A k \in Node \ {next} : state'[k] = state[k] /\ image'[k] = image[k]
    BY <1>t, <2>1 DEF TypeOK
  <2>4. GroupInv'
    BY <1>t, <2>1 DEF GroupInv, Waiting, Node
  <2>5. ScratchInv'
    BY <1>t, <2>1, <2>3 DEF ScratchInv, Node
  <2>6. DoneInv' /\ NeededInv'
    BY <1>t, <2>1, <2>3 DEF DoneInv, NeededInv, Needed
  <2>7. MainInv'
    BY <1>t, <2>1 DEF MainInv, Over
  <2> QED BY ONLY <2>2, <2>4, <2>5, <2>6, <2>7 DEF IInv
<1>3. CASE StartResolve
  <2>1. /\ main = "loop" /\ next \in Node /\ stage[next].kind = "image" /\ next' = next + 1
        /\ group' = [group EXCEPT !.running = @ \cup {next}] /\ pc' = [pc EXCEPT ![next] = "parse"]
        /\ UNCHANGED <<main, buildCancelled, asked, image, state, platform, buildInfo, cmdIndex>>
    BY <1>t, <1>3 DEF StartResolve, Looping, EG!Started, results, Node
  <2>2. TypeOK'
    <3>1. group' \in [running : SUBSET Node, err : Errors \cup {NoError}, cancelled : BOOLEAN]
      BY <1>t, <2>1 DEF TypeOK
    <3>2. pc' \in [Node -> {"none", "parse", "context", "resolve", "done"}] /\ next' \in 1 .. N + 1
      BY <1>t, <2>1 DEF TypeOK, Node
    <3> QED BY <1>t, <2>1, <3>1, <3>2 DEF TypeOK
  <2>3. group'.running = group.running \cup {next} /\ group'.err = group.err
    BY <1>t, <2>1 DEF TypeOK
  <2>4. pc'[next] = "parse" /\ \A k \in Node \ {next} : pc'[k] = pc[k]
    BY <1>t, <2>1 DEF TypeOK
  <2>5. group'.running = {d \in Node : Waiting(d)'}
    BY <1>t, <2>1, <2>3, <2>4 DEF GroupInv, Waiting
  <2>6. \A d \in Node : pc'[d] # "none" <=> stage'[d].kind = "image" /\ d < next'
    BY <1>t, <2>1, <2>4 DEF GroupInv, Node
  <2>7. DoneInv' /\ ScratchInv' /\ NeededInv'
    BY <1>t, <2>1, <2>3, <2>4 DEF DoneInv, ScratchInv, NeededInv, Needed, Node
  <2>8. MainInv'
    BY <1>t, <2>1 DEF MainInv, Over
  <2> QED BY ONLY <2>2, <2>5, <2>6, <2>7, <2>8 DEF IInv, GroupInv
<1>4. CASE StartWait
  <2>1. /\ next = N + 1 /\ main' = "wait"
        /\ UNCHANGED <<next, pc, group, buildCancelled, asked, image, state, platform, buildInfo, cmdIndex>>
    BY <1>t, <1>4 DEF StartWait, results
  <2>2. TypeOK'
    BY <1>t, <2>1 DEF TypeOK
  <2>3. GroupInv' /\ DoneInv' /\ ScratchInv' /\ NeededInv' /\ MainInv'
    BY <1>t, <2>1 DEF GroupInv, Waiting, DoneInv, ScratchInv, NeededInv, Needed, MainInv, Over
  <2> QED BY ONLY <2>2, <2>3 DEF IInv
<1>5. CASE WaitReturns
  <2>1. /\ main = "wait" /\ group.running = {}
        /\ main' = IF group.err = NoError THEN "dispatch" ELSE "failed"
        /\ UNCHANGED <<next, pc, group, buildCancelled, asked, image, state, platform, buildInfo, cmdIndex>>
    BY <1>t, <1>5 DEF WaitReturns, EG!Joined, results
  <2>2. TypeOK'
    BY <1>t, <2>1 DEF TypeOK
  <2>3. GroupInv' /\ DoneInv' /\ ScratchInv' /\ NeededInv' /\ MainInv'
    BY <1>t, <2>1 DEF GroupInv, Waiting, DoneInv, ScratchInv, NeededInv, Needed, MainInv, Over
  <2> QED BY ONLY <2>2, <2>3 DEF IInv
<1> QED BY <1>1, <1>2, <1>3, <1>4, <1>5 DEF Main

\* The invariant holds in every reachable state.
THEOREM Invariance == Spec => []IInv
<1>1. IInv /\ [Next]_vars => IInv'
  <2> SUFFICES ASSUME IInv, [Next]_vars PROVE IInv'
    OBVIOUS
  <2>1. CASE Main /\ UNCHANGED inputs
    BY <2>1, LoopInv
  <2>2. CASE (\E d \in Node : Goroutine(d)) /\ UNCHANGED inputs
    BY <2>2, GoroutineInv
  <2>3. CASE CancelBuild /\ UNCHANGED inputs
    <3>1. buildCancelled' = TRUE /\ UNCHANGED <<stage, implicitTarget, main, next, pc, group, asked, image, state, platform, buildInfo, cmdIndex>>
      BY <2>3 DEF CancelBuild, inputs, results
    <3> QED BY <3>1 DEF IInv, TypeOK, GroupInv, Waiting, DoneInv, ScratchInv, NeededInv, Needed, MainInv, Over
  <2>4. CASE UNCHANGED vars
    BY <2>4 DEF vars, IInv, TypeOK, GroupInv, Waiting, DoneInv, ScratchInv, NeededInv, Needed, MainInv, Over
  <2> QED BY <2>1, <2>2, <2>3, <2>4 DEF Next
<1> QED BY InitInv, <1>1, PTL DEF Spec

-----------------------------------------------------------------------------
\* The dispatch loop finds a filesystem and a config for every stage the target needs.
THEOREM DispatchReady == Spec => []DispatchIsReady
<1>1. IInv => DispatchIsReady
  <2> SUFFICES ASSUME IInv, main = "dispatch",
                      NEW d \in Node, stage[d].kind \in {"scratch", "image"}, stage[d].reachable
               PROVE  state[d] # "unset" /\ image[d] # "unset"
    BY DEF DispatchIsReady
  <2>1. next = N + 1 /\ group.running = {} /\ group.err = NoError
    BY DEF IInv, MainInv, Over
  <2>2. d < next
    BY <2>1, NAssumption DEF Node
  <2>3. CASE stage[d].kind = "scratch"
    BY <2>2, <2>3 DEF IInv, ScratchInv
  <2>4. CASE stage[d].kind = "image"
    <3>1. pc[d] # "none" /\ ~Waiting(d)
      BY <2>1, <2>2, <2>4 DEF IInv, GroupInv
    <3>2. pc[d] = "done"
      BY <3>1 DEF IInv, TypeOK, Waiting
    <3> QED BY <2>1, <3>2 DEF IInv, DoneInv
  <2> QED BY <2>3, <2>4
<1> QED BY <1>1, Invariance, PTL

\* Once the wait is over, nothing can step.
LEMMA NothingRuns ==
    ASSUME IInv, Over, Next
    PROVE  FALSE
<1>1. main \in {"dispatch", "failed"} /\ \A d \in Node : ~Waiting(d)
  BY DEF IInv, MainInv, GroupInv, Over
<1>2. ~Main
  BY <1>1 DEF Main, PassOver, SetScratch, StartResolve, StartWait, WaitReturns, Looping
<1>3. \A d \in Node : ~Goroutine(d)
  BY <1>1 DEF Waiting, Goroutine, ParseName, UseContext, NoContext, ContextError, UseConfig, ConfigError
<1>4. ~CancelBuild
  BY <1>1 DEF CancelBuild
<1> QED BY <1>2, <1>3, <1>4 DEF Next

\* No goroutine writes to a dispatch state once the wait is over.
THEOREM NoLate == Spec => NoLateWrites
<1>1. IInv /\ [Next]_vars => [Over => UNCHANGED <<results, asked>>]_vars
  BY NothingRuns
<1> QED BY <1>1, Invariance, PTL DEF Spec, NoLateWrites

-----------------------------------------------------------------------------
Ready == {d \in Node : state[d] # "unset"}
Outcome == IF main = "dispatch" THEN "ready" ELSE IF main = "failed" THEN "failed" ELSE "pending"

\* A goroutine gives a base to its own state or to none, and only while the build is pending.
LEMMA GoroutineRefines ==
    ASSUME IInv, NEW d \in Node, Goroutine(d), UNCHANGED inputs
    PROVE  Abstract!Resolve(d) \/ UNCHANGED <<Needed, Ready, Outcome>>
<1>1. ~Over /\ d \in Needed /\ UNCHANGED <<main, stage>>
  <2>1. Waiting(d)
    BY DEF Waiting, Goroutine, ParseName, UseContext, NoContext, ContextError, UseConfig, ConfigError
  <2>2. ~Over
    BY <2>1 DEF IInv, MainInv, GroupInv
  <2>3. d \in Needed
    BY <2>1 DEF IInv, GroupInv, Waiting, Needed
  <2>4. UNCHANGED <<main, stage>>
    BY DEF Goroutine, ParseName, UseContext, NoContext, ContextError, UseConfig, ConfigError, inputs
  <2> QED BY <2>2, <2>3, <2>4
<1>2. state' = state \/ \E s \in {"context", "image", "scratch"} : state' = [state EXCEPT ![d] = s]
  BY DEF Goroutine, ParseName, UseContext, NoContext, ContextError, UseConfig, ConfigError, ImageState, results
<1>3. Needed' = Needed /\ Outcome = "pending" /\ Outcome' = Outcome
  BY <1>1 DEF Needed, Outcome, Over
<1>4. CASE state' = state
  BY <1>3, <1>4 DEF Ready
<1>5. ASSUME NEW s \in {"context", "image", "scratch"}, state' = [state EXCEPT ![d] = s]
      PROVE  Abstract!Resolve(d) \/ UNCHANGED <<Needed, Ready, Outcome>>
  <2>1. Ready' = Ready \cup {d}
    BY <1>5 DEF Ready, IInv, TypeOK
  <2> QED BY <1>1, <1>3, <2>1 DEF Abstract!Resolve, Ready, Outcome
<1> QED BY <1>2, <1>4, <1>5

\* A step of the main thread is one of ImageMetadata, or a stutter.
LEMMA MainRefines ==
    ASSUME IInv, Main, UNCHANGED inputs
    PROVE  Abstract!Next \/ UNCHANGED <<Needed, Ready, Outcome>>
<1>1. UNCHANGED stage /\ Needed' = Needed
  BY DEF inputs, Needed
<1>2. CASE PassOver \/ StartResolve \/ StartWait
  <2>1. UNCHANGED state /\ main \in {"loop", "wait"} /\ main' \in {"loop", "wait"}
    BY <1>2 DEF PassOver, StartResolve, StartWait, Looping, results
  <2> QED BY <1>1, <2>1 DEF Ready, Outcome
<1>3. CASE SetScratch
  <2>1. /\ main = "loop" /\ main' = main /\ next \in Node /\ stage[next].kind = "scratch"
        /\ state' = [state EXCEPT ![next] = "scratch"]
    BY <1>3 DEF SetScratch, Looping, IInv, TypeOK, Node
  <2>2. next \in Needed /\ Ready' = Ready \cup {next}
    BY <2>1 DEF Needed, Ready, IInv, TypeOK
  <2>3. PICK d \in Node : d = next
    BY <2>1
  <2>4. Abstract!Resolve(d) \/ UNCHANGED <<Needed, Ready, Outcome>>
    BY <1>1, <2>1, <2>2, <2>3 DEF Abstract!Resolve, Ready, Outcome
  <2> QED BY <2>4 DEF Abstract!Next
<1>4. CASE WaitReturns
  <2>1. /\ main = "wait" /\ group.running = {} /\ UNCHANGED state
        /\ main' = IF group.err = NoError THEN "dispatch" ELSE "failed"
    BY <1>4 DEF WaitReturns, EG!Joined, results
  <2>2. Ready' = Ready /\ Outcome = "pending"
    BY <2>1 DEF Ready, Outcome
  <2>3. CASE group.err # NoError
    BY <1>1, <2>1, <2>2, <2>3 DEF Abstract!Next, Abstract!Fail, Ready, Outcome
  <2>4. CASE group.err = NoError
    <3>1. ASSUME NEW d \in Needed PROVE d \in Ready
      <4>1. d \in Node /\ d < next
        BY <2>1, NAssumption DEF IInv, MainInv, Needed, Node
      <4>2. CASE stage[d].kind = "scratch"
        BY <4>1, <4>2 DEF IInv, ScratchInv, Ready
      <4>3. CASE stage[d].kind = "image"
        <5>1. pc[d] = "done"
          BY <2>1, <4>1, <4>3 DEF IInv, TypeOK, GroupInv, Waiting
        <5> QED BY <2>4, <4>1, <5>1 DEF IInv, DoneInv, Ready
      <4> QED BY <4>2, <4>3 DEF Needed
    <3>2. Ready = Needed
      BY <3>1 DEF IInv, NeededInv, Ready
    <3>3. Outcome' = "ready"
      BY <2>1, <2>4 DEF Outcome
    <3> QED BY <1>1, <2>2, <3>2, <3>3 DEF Abstract!Next, Abstract!Succeed, Ready, Outcome
  <2> QED BY <2>3, <2>4
<1> QED BY <1>2, <1>3, <1>4 DEF Main

\* The goroutines and their errgroup implement the all-or-nothing promise of ImageMetadata.
THEOREM Refinement == Spec => ImplementsMetadata
<1>1. Init => Abstract!Init
  BY DEF Init, Abstract!Init, Needed
<1>2. IInv /\ [Next]_vars => [Abstract!Next]_<<Needed, Ready, Outcome>>
  <2> SUFFICES ASSUME IInv, [Next]_vars
               PROVE  Abstract!Next \/ UNCHANGED <<Needed, Ready, Outcome>>
    OBVIOUS
  <2>1. CASE Main /\ UNCHANGED inputs
    BY <2>1, MainRefines
  <2>2. CASE (\E d \in Node : Goroutine(d)) /\ UNCHANGED inputs
    BY <2>2, GoroutineRefines DEF Abstract!Next
  <2>3. CASE CancelBuild /\ UNCHANGED inputs
    BY <2>3 DEF CancelBuild, inputs, results, Needed, Ready, Outcome
  <2>4. CASE UNCHANGED vars
    BY <2>4 DEF vars, Needed, Ready, Outcome
  <2> QED BY <2>1, <2>2, <2>3, <2>4 DEF Next
<1> QED BY <1>1, <1>2, Invariance, PTL DEF Spec, ImplementsMetadata, Abstract!Spec, Ready, Outcome
=============================================================================
