------------------------ MODULE BuildFrontend_proofs ------------------------
(***************************************************************************)
(* For any requests, sources and number of platforms: Build fails with the *)
(* error that stopped the others, honours the capabilities, hands a build  *)
(* over at most once, builds what is meant, and gives a whole result.      *)
(***************************************************************************)
EXTENDS BuildFrontend, FiniteSetTheorems, TLAPS

Groups == [running : SUBSET Tasks, err : Errors \cup {NoError}, cancelled : BOOLEAN]

\* a goroutine sees its context cancelled only after an error or when the client is gone
CauseInv ==
    /\ group \in Groups /\ buildCancelled \in BOOLEAN
    /\ group.cancelled => group.err # NoError
    /\ group.err = "cancelled" => buildCancelled
    /\ outcome = "cancelled" => buildCancelled

\* the goroutine of t goes on, or returns "cancelled" only if it sees its context cancelled
Places == {"solve", "read", "read lower case", "read ignore", "store config", "store ref"}
Spots == Places \cup {"none", "convert", "done"}
GroupStep(t) ==
    \/ \E to \in Places : Go(t, to)
    \/ \E e \in Errors \cup {NoError} : Return(t, e) /\ (e = "cancelled" => Cancelled)

-----------------------------------------------------------------------------
\* What a return does to the group.
LEMMA ReturnGroup ==
    ASSUME group \in Groups, NEW t \in Tasks, NEW e \in Errors \cup {NoError}, Return(t, e)
    PROVE  /\ group' \in Groups
           /\ group'.running = group.running \ {t}
           /\ group'.err = IF group.err = NoError THEN e ELSE group.err
           /\ group'.cancelled => group.cancelled \/ e # NoError
           /\ group.cancelled => group'.cancelled
           /\ pc' = [pc EXCEPT ![t] = "done"]
  BY DEF Groups, Return, EG!Returned

\* A read fails as cancelled only in a cancelled context.
LEMMA ReadErrorsAre ==
    ASSUME NEW f, NEW e \in ReadErrors(f)
    PROVE  e \in Errors /\ (e = "cancelled" => Cancelled)
  BY DEF ReadErrors, CallError, Errors

\* The first error of two failed reads is one of the reads.
LEMMA LowerCaseError ==
    ASSUME ReadLowerCaseFails
    PROVE  \E e \in Errors : Return(ForDockerfile, e) /\ (e = "cancelled" => Cancelled)
<1>1. CASE "Dockerfile" \in lost
  <2>1. Return(ForDockerfile, "daemon")
    BY <1>1 DEF ReadLowerCaseFails
  <2>2. "daemon" \in Errors /\ "daemon" # "cancelled"
    BY DEF Errors
  <2> QED BY <2>1, <2>2
<1>2. CASE "Dockerfile" \notin lost
  <2>1. PICK e \in ReadErrors(Filename) : Return(ForDockerfile, e)
    BY <1>2 DEF ReadLowerCaseFails
  <2> QED BY <2>1, ReadErrorsAre
<1> QED BY <1>1, <1>2

\* The goroutines that load.
LEMMA LoadStep ==
    ASSUME NEW t \in Tasks, Load(t)
    PROVE  /\ main = "load" /\ GroupStep(t)
           /\ UNCHANGED <<main, buildCancelled, forwards, result, outcome>>
<1>1. main = "load" /\ UNCHANGED <<main, buildCancelled, forwards, result, outcome>>
  BY DEF Load, SolveSource, SolveSourceFails, InLoad, ReadDockerfile,
         ReadDockerfileFails, ReadLowerCase, ReadLowerCaseFails, ReadIgnore, ReadIgnoreFails,
         ReadDefaultIgnore, ReadDefaultIgnoreFails
<1> SUFFICES GroupStep(t)
  BY <1>1
<1>2. CASE SolveSource(t)
  BY <1>2 DEF SolveSource, GroupStep, Places
<1>3. CASE SolveSourceFails(t)
  <2>1. CallError(Cancelled) \in Errors /\ (CallError(Cancelled) = "cancelled" => Cancelled)
    BY DEF CallError, Errors
  <2>2. Return(t, CallError(Cancelled))
    BY <1>3 DEF SolveSourceFails
  <2> QED BY <2>1, <2>2 DEF GroupStep, Return
<1>4. CASE t = ForDockerfile /\ (ReadDockerfile \/ ReadLowerCase)
  BY <1>4 DEF ReadDockerfile, ReadLowerCase, GroupStep, Places
<1>5. CASE t = ForDockerfile /\ ReadDockerfileFails
  <2>1. PICK e \in ReadErrors(Filename) :
           IF Filename = "Dockerfile" THEN Go(ForDockerfile, "read lower case") ELSE Return(ForDockerfile, e)
    BY <1>5 DEF ReadDockerfileFails
  <2>2. CASE Filename = "Dockerfile"
    BY <1>5, <2>1, <2>2 DEF GroupStep, Places
  <2>3. CASE Filename # "Dockerfile"
    BY <1>5, <2>1, <2>3, ReadErrorsAre DEF GroupStep
  <2> QED BY <2>2, <2>3
<1>6. CASE t = ForDockerfile /\ ReadLowerCaseFails
  BY <1>6, LowerCaseError DEF GroupStep
<1>7. CASE t = ForDockerfile /\ (ReadIgnore \/ ReadIgnoreFails)
  <2>1. Return(t, NoError)
    BY <1>7 DEF ReadIgnore, ReadIgnoreFails
  <2> QED BY <2>1, ErrorAssumption DEF GroupStep, Errors
<1>8. CASE t = ForDefaultIgnore /\ (ReadDefaultIgnore \/ ReadDefaultIgnoreFails)
  <2>1. Return(t, NoError)
    BY <1>8 DEF ReadDefaultIgnore, ReadDefaultIgnoreFails
  <2> QED BY <2>1, ErrorAssumption DEF GroupStep, Errors
<1> QED BY <1>2, <1>3, <1>4, <1>5, <1>6, <1>7, <1>8 DEF Load

\* The goroutines of the platforms.
LEMMA PlatformStep ==
    ASSUME NEW t \in Tasks, Platforms(t)
    PROVE  /\ main = "platforms" /\ t \in Targets /\ GroupStep(t)
           /\ UNCHANGED <<main, buildCancelled, forwards, loads, outcome>>
<1>1. /\ main = "platforms" /\ t \in Targets
      /\ UNCHANGED <<main, buildCancelled, forwards, loads, outcome>>
  BY DEF Platforms, Convert, ConvertFails, SolvePlatform, SolvePlatformFails, StoreConfig, StoreRef, InBuild
<1> SUFFICES GroupStep(t)
  BY <1>1
<1>2. CASE Convert(t) \/ SolvePlatform(t) \/ StoreConfig(t)
  BY <1>2 DEF Convert, SolvePlatform, StoreConfig, GroupStep, Places
<1>3. CASE ConvertFails(t)
  <2>1. PICK e \in {"conversion"} \cup (IF Cancelled THEN {"cancelled"} ELSE {}) : Return(t, e)
    BY <1>3 DEF ConvertFails
  <2> QED BY <2>1 DEF GroupStep, Errors, Return
<1>4. CASE SolvePlatformFails(t)
  <2>1. CallError(Cancelled) \in Errors /\ (CallError(Cancelled) = "cancelled" => Cancelled)
    BY DEF CallError, Errors
  <2>2. Return(t, CallError(Cancelled))
    BY <1>4 DEF SolvePlatformFails
  <2> QED BY <2>1, <2>2 DEF GroupStep, Return
<1>5. CASE StoreRef(t)
  BY <1>5, ErrorAssumption DEF StoreRef, GroupStep, Errors, Return
<1> QED BY <1>2, <1>3, <1>4, <1>5 DEF Platforms

-----------------------------------------------------------------------------
\* the request changes only when the build is handed over, and that is the last time
OptsInv == /\ opts \in Request /\ src \in Source
           /\ forwards = 0 \/ (forwards = 1 /\ opts.cmdline)

\* The steps of the main thread that do not hand the build over.
Stays == Same(\/ ValidateOptions \/ FindContext \/ FindContextFails \/ Loaded \/ ChooseIgnore
              \/ ForwardGatewayFails \/ StayHere \/ RefuseCaps \/ AnswerSubrequest
              \/ StartPlatforms \/ Finish)

\* The request stays a request.
LEMMA Opts == Spec => []OptsInv
<1>1. Init => OptsInv
  BY InputAssumption DEF Init, OptsInv
<1>2. OptsInv /\ [Next]_vars => OptsInv'
  <2> SUFFICES ASSUME OptsInv, [Next]_vars PROVE OptsInv'
    OBVIOUS
  <2>1. CASE ForwardGateway
    <3>1. ~opts.cmdline /\ forwards' = forwards + 1 /\ opts' = [opts EXCEPT !.cmdline = TRUE] /\ src' = src
      BY <2>1 DEF ForwardGateway, WantsOtherFrontend
    <3>2. opts' \in Request /\ opts'.cmdline
      BY <3>1 DEF OptsInv, Request
    <3> QED BY <3>1, <3>2 DEF OptsInv
  <2>2. CASE Stays
    <3>1. UNCHANGED <<opts, src, forwards>>
      BY <2>2 DEF Stays, Same, ValidateOptions, FindContext, FindContextFails, Loaded, ChooseIgnore,
           ForwardGatewayFails, StayHere, RefuseCaps, AnswerSubrequest, StartPlatforms, Finish, Leave, Advance
    <3> QED BY <3>1 DEF OptsInv
  <2>3. CASE \E t \in Tasks : Goroutine(t)
    <3>1. UNCHANGED <<opts, src, forwards>>
      BY <2>3, LoadStep, PlatformStep DEF Goroutine, Same
    <3> QED BY <3>1 DEF OptsInv
  <2>4. CASE Same(CancelBuild) \/ UNCHANGED vars
    BY <2>4 DEF Same, CancelBuild, vars, OptsInv
  <2> QED BY <2>1, <2>2, <2>3, <2>4 DEF Next, Main, Stays
<1> QED BY <1>1, <1>2, PTL DEF Spec

\* A build is handed over at most once, because the next frontend is told.
THEOREM Once == Spec => []HandedOverOnce
<1>1. OptsInv => HandedOverOnce
  BY DEF OptsInv, HandedOverOnce
<1> QED BY <1>1, Opts, PTL

\* There is a task for each target platform.
LEMMA TargetsAreTasks ==
    ASSUME opts \in Request
    PROVE  Targets \in SUBSET Tasks
<1>1. PICK n \in 0 .. MaxPlatforms : opts.platforms \in [1 .. n -> Platform]
  BY DEF Request
<1>2. Len(opts.platforms) = n
  BY BoundAssumption, <1>1
<1> QED BY BoundAssumption, <1>1, <1>2 DEF Targets, Tasks

-----------------------------------------------------------------------------
\* A goroutine keeps the cause of the failure.
LEMMA GoroutineCause ==
    ASSUME CauseInv, NEW t \in Tasks, Goroutine(t)
    PROVE  CauseInv'
<1>1. GroupStep(t) /\ UNCHANGED <<buildCancelled, outcome>>
  BY LoadStep, PlatformStep DEF Goroutine, Same
<1>2. CASE \E to \in Places : Go(t, to)
  BY <1>1, <1>2 DEF Go, CauseInv
<1>3. ASSUME NEW e \in Errors \cup {NoError}, Return(t, e), e = "cancelled" => Cancelled PROVE CauseInv'
  <2>1. group \in Groups
    BY DEF CauseInv
  <2>2. /\ group' \in Groups
        /\ group'.err = IF group.err = NoError THEN e ELSE group.err
        /\ group'.cancelled => group.cancelled \/ e # NoError
    BY <1>3, <2>1, ReturnGroup
  <2> QED BY <1>1, <1>3, <2>2 DEF CauseInv, Cancelled
<1> QED BY <1>1, <1>2, <1>3 DEF GroupStep

\* The main thread keeps it: its calls fail as cancelled only when the client is gone.
LEMMA MainCause ==
    ASSUME CauseInv, OptsInv, Main
    PROVE  CauseInv'
<1>1. UNCHANGED buildCancelled
  BY DEF Main, Same, ValidateOptions, FindContext, FindContextFails, Loaded, ChooseIgnore, ForwardGateway,
         ForwardGatewayFails, StayHere, RefuseCaps, AnswerSubrequest, StartPlatforms, Finish, Leave, Advance
<1>2. \/ UNCHANGED group
      \/ \E r \in SUBSET Tasks : group' = [running |-> r, err |-> NoError, cancelled |-> FALSE]
  <2>1. LoadTasks \in SUBSET Tasks /\ Targets \in SUBSET Tasks
    <3>1. LoadTasks \in SUBSET Tasks
      BY BoundAssumption DEF LoadTasks, Tasks, ForDockerfile, ForDefaultIgnore
    <3>2. Targets \in SUBSET Tasks
      BY TargetsAreTasks DEF OptsInv
    <3> QED BY <3>1, <3>2
  <2>2. CASE ForwardGateway
    BY <2>2 DEF ForwardGateway, EG!NewGroup
  <2>3. CASE FindContext
    BY <2>1, <2>3 DEF FindContext, EG!NewGroup
  <2>4. CASE StartPlatforms
    BY <2>1, <2>4 DEF StartPlatforms, EG!NewGroup, Leave
  <2> QED BY <2>2, <2>3, <2>4 DEF Main, Same, ValidateOptions, FindContextFails, Loaded, ChooseIgnore,
         ForwardGatewayFails, StayHere, RefuseCaps, AnswerSubrequest, Finish, Leave, Advance
<1>3. outcome' = "cancelled" => outcome = "cancelled" \/ buildCancelled \/ group.err = "cancelled"
  BY DEF Main, Same, ValidateOptions, FindContext, FindContextFails, Loaded, ChooseIgnore, ForwardGateway,
         ForwardGatewayFails, StayHere, RefuseCaps, AnswerSubrequest, StartPlatforms, Finish, Leave, Advance, CallError
<1>4. group' \in Groups /\ (group'.cancelled => group'.err # NoError) /\ (group'.err = "cancelled" => buildCancelled)
  <2>1. CASE UNCHANGED group
    BY <2>1 DEF CauseInv
  <2>2. ASSUME NEW r \in SUBSET Tasks, group' = [running |-> r, err |-> NoError, cancelled |-> FALSE]
        PROVE  group' \in Groups /\ ~group'.cancelled /\ group'.err # "cancelled"
    BY ONLY <2>2, ErrorAssumption DEF Groups, Errors
  <2> QED BY <1>2, <2>1, <2>2
<1> QED BY <1>1, <1>3, <1>4 DEF CauseInv

\* In every reachable state an error "cancelled" comes from the client.
LEMMA Cause == Spec => []CauseInv
<1>1. Init => CauseInv
  <2> SUFFICES ASSUME Init PROVE CauseInv
    OBVIOUS
  <2>1. group = [running |-> {}, err |-> NoError, cancelled |-> FALSE] /\ ~buildCancelled /\ outcome = "pending"
        /\ buildCancelled \in BOOLEAN
    BY DEF Init, EG!NewGroup
  <2>2. group \in Groups
    BY ONLY <2>1 DEF Groups
  <2>3. group.err # "cancelled" /\ ~group.cancelled
    BY ONLY <2>1, ErrorAssumption DEF Errors
  <2> QED BY ONLY <2>1, <2>2, <2>3 DEF CauseInv
<1>2. CauseInv /\ OptsInv /\ [Next]_vars => CauseInv'
  <2> SUFFICES ASSUME CauseInv, OptsInv, [Next]_vars PROVE CauseInv'
    OBVIOUS
  <2>1. CASE Main
    BY <2>1, MainCause
  <2>2. CASE \E t \in Tasks : Goroutine(t)
    BY <2>2, GoroutineCause
  <2>3. CASE CancelBuild
    BY <2>3 DEF CancelBuild, CauseInv
  <2>4. CASE UNCHANGED vars
    BY <2>4 DEF vars, CauseInv
  <2> QED BY <2>1, <2>2, <2>3, <2>4 DEF Next, Same
<1> QED BY <1>1, <1>2, Opts, PTL DEF Spec

\* Build reports "cancelled" only to a client that went away.
THEOREM CauseReported == Spec => []ErrorIsCause
<1>1. CauseInv => ErrorIsCause
  BY DEF CauseInv, ErrorIsCause
<1> QED BY <1>1, Cause, PTL


-----------------------------------------------------------------------------
CapsInv == /\ opts.caps = "unsupported" => main \in {"start", "done"} /\ group = EG!NewGroup
           /\ opts.caps # "known" => outcome # "described" /\ main # "platforms"

\* Every step honours the capabilities.
LEMMA CapsStep ==
    ASSUME CapsInv, OptsInv, CauseInv, [Next]_vars
    PROVE  CapsInv'
<1>1. CASE ForwardGateway
  <2>1. main = "forward" /\ main' = "start" /\ outcome' = outcome /\ opts' = [opts EXCEPT !.cmdline = TRUE]
    BY <1>1 DEF ForwardGateway
  <2>2. opts'.caps = opts.caps
    BY <2>1 DEF OptsInv, Request
  <2> QED BY <2>1, <2>2 DEF CapsInv
<1>2. CASE \E t \in Tasks : Goroutine(t)
  <2>1. main \in {"load", "platforms"} /\ UNCHANGED <<opts, main, outcome>>
    BY <1>2, LoadStep, PlatformStep DEF Goroutine, Same
  <2> QED BY <2>1 DEF CapsInv
<1>3. CASE Same(CancelBuild) \/ UNCHANGED vars
  <2>1. UNCHANGED <<opts, main, group, outcome>>
    BY <1>3 DEF Same, CancelBuild, vars
  <2> QED BY <2>1 DEF CapsInv
<1>4. CASE Stays
  <2>1. UNCHANGED opts
    BY <1>4 DEF Stays, Same
  <2>2. CASE opts.caps = "unsupported"
    <3>1. main \in {"start", "done"} /\ outcome # "described"
      BY <2>2 DEF CapsInv
    <3>2. ValidateOptions
      BY <1>4, <3>1 DEF Stays, Same, FindContext, FindContextFails, Loaded, ChooseIgnore,
           ForwardGatewayFails, StayHere, RefuseCaps, AnswerSubrequest, StartPlatforms, Finish
    <3>3. main' = "done" /\ outcome' = "caps" /\ UNCHANGED group
      BY <2>2, <3>2 DEF ValidateOptions, Leave
    <3> QED BY <2>1, <2>2, <3>3 DEF CapsInv
  <2>3. CASE opts.caps = "forwardable"
    <3>1. main # "platforms" /\ outcome # "described"
      BY <2>3 DEF CapsInv
    <3>2. ~AnswerSubrequest /\ ~StartPlatforms /\ ~Finish
      BY <2>3, <3>1 DEF AnswerSubrequest, StartPlatforms, Finish
    <3>3. main' # "platforms" /\ outcome' # "described"
      <4>1. CASE Loaded
        <5>1. group.err \in Errors \cup {NoError}
          BY DEF CauseInv, Groups
        <5>2. group.err # NoError => group.err # "described"
          BY ONLY <5>1 DEF Errors
        <5> QED BY <3>1, <4>1, <5>2 DEF Loaded, Leave, Advance
      <4>2. CASE ValidateOptions \/ FindContext \/ FindContextFails
        BY <3>1, <4>2 DEF ValidateOptions, FindContext, FindContextFails, Leave, Advance, CallError
      <4>3. CASE ChooseIgnore \/ ForwardGatewayFails \/ StayHere \/ RefuseCaps
        BY <3>1, <4>3 DEF ChooseIgnore, ForwardGatewayFails, StayHere, RefuseCaps, Leave, Advance, CallError
      <4> QED BY <1>4, <3>2, <4>1, <4>2, <4>3 DEF Stays, Same
    <3> QED BY ONLY <2>1, <2>3, <3>3 DEF CapsInv
  <2>4. CASE opts.caps = "known"
    BY <2>1, <2>4 DEF CapsInv
  <2> QED BY <2>2, <2>3, <2>4 DEF OptsInv, Request
<1> QED BY <1>1, <1>2, <1>3, <1>4 DEF Next, Main, Stays

\* With an unknown capability nothing is described or built here, and nothing is loaded
\* unless another frontend may know it.
THEOREM Caps == Spec => []CapsHonoured
<1>1. Init => CapsInv
  BY DEF Init, CapsInv
<1>2. CapsInv /\ OptsInv /\ CauseInv /\ [Next]_vars => CapsInv'
  BY CapsStep
<1>3. CapsInv => CapsHonoured
  BY DEF CapsInv, CapsHonoured
<1> QED BY <1>1, <1>2, <1>3, Opts, Cause, PTL DEF Spec

-----------------------------------------------------------------------------
\* the Dockerfile and the rules the request is about: a file gives way when it is not
\* there or the daemon failed to read it
Meant == {f \in Readable : \/ f = Filename
                           \/ /\ Filename = "Dockerfile" /\ f = "dockerfile"
                              /\ Filename \notin Readable \/ "Dockerfile" \in lost}
FoundIgnore == Contents(src.ignore) \cup (IF "ignore" \in lost THEN {"none"} ELSE {})
FoundDefault == Contents(src.default) \cup (IF "default" \in lost THEN {"none"} ELSE {})
DefaultThere == IF IsNotLocalContext THEN {"none"} ELSE FoundDefault
Chosen(own, other) == IF own # "none" THEN "ignore" ELSE IF other # "none" THEN "default" ELSE "none"
Wanted == {Chosen(own, other) : own \in FoundIgnore, other \in DefaultThere}

\* what has been read, once the goroutine of t is past it
DockerfileInv ==
    /\ pc[ForDockerfile] = "read lower case" =>
           /\ Filename = "Dockerfile"
           /\ Cancelled \/ Filename \notin Readable \/ "Dockerfile" \in lost
    /\ pc[ForDockerfile] = "read ignore" => text \in Meant
    /\ pc[ForDockerfile] = "done" /\ group.err = NoError =>
           text \in Meant /\ (buildCancelled \/ ignore \in FoundIgnore)

DefaultInv ==
    IF IsNotLocalContext THEN default = "none"
    ELSE pc[ForDefaultIgnore] = "done" /\ group.err = NoError => buildCancelled \/ default \in FoundDefault

\* a platform that is solved was solved by a build nobody had cancelled
SolvedInv ==
    \A i \in Targets :
        pc[i] \in {"store config", "store ref"} \/ (pc[i] = "done" /\ group.err = NoError) => excludes \in Wanted

\* the tasks of S have been started, and those that have not returned are running
RunningInv(S) ==
    \A t \in Tasks : IF t \in S THEN t \in group.running \/ pc[t] = "done" ELSE pc[t] = "none"

FileInv ==
    /\ pc \in [Tasks -> Spots]
    /\ main \in {"start", "context"} => default = "none"
    /\ main = "load" => RunningInv(LoadTasks) /\ DockerfileInv /\ DefaultInv
    /\ main = "loaded" => text \in Meant /\ (buildCancelled \/ (ignore \in FoundIgnore /\ default \in DefaultThere))
    /\ main \in {"forward", "gate", "platforms"} => text \in Meant /\ (buildCancelled \/ excludes \in Wanted)
    /\ main = "platforms" => RunningInv(Targets) /\ SolvedInv
    /\ Built => main = "done" /\ text \in Meant /\ excludes \in Wanted

\* What depends on the request and the source only.
LEMMA SameRequest ==
    ASSUME UNCHANGED <<opts, src>>
    PROVE  /\ Targets' = Targets /\ LoadTasks' = LoadTasks
           /\ Filename' = Filename /\ Readable' = Readable
           /\ IsNotLocalContext' = IsNotLocalContext
  BY DEF Targets, LoadTasks, Filename, Readable, IsNotLocalContext

\* What depends on the files that could not be read, too.
LEMMA SameMeant ==
    ASSUME UNCHANGED <<opts, src, lost>>
    PROVE  /\ Meant' = Meant /\ DefaultThere' = DefaultThere /\ Wanted' = Wanted
           /\ FoundIgnore' = FoundIgnore
           /\ FoundDefault' = FoundDefault
  BY SameRequest DEF Meant, DefaultThere, Wanted, FoundIgnore, FoundDefault

\* The more could not be read, the more may be taken for what is meant.
LEMMA MeantGrows ==
    ASSUME UNCHANGED <<opts, src>>, lost \subseteq lost'
    PROVE  /\ Meant \subseteq Meant'
           /\ FoundIgnore \subseteq FoundIgnore'
           /\ FoundDefault \subseteq FoundDefault'
  BY SameRequest DEF Meant, FoundIgnore, FoundDefault

\* The two loading tasks are tasks.
LEMMA LoadingTasks ==
    /\ ForDockerfile \in Tasks /\ ForDefaultIgnore \in Tasks /\ ForDockerfile # ForDefaultIgnore
    /\ ForDockerfile \in LoadTasks
    /\ ForDefaultIgnore \in LoadTasks <=> ~IsNotLocalContext
  BY BoundAssumption DEF Tasks, ForDockerfile, ForDefaultIgnore, LoadTasks

\* the goroutine of t is at "to" now
Moves(t, to) == /\ pc' = [pc EXCEPT ![t] = to]
                /\ IF to = "done" THEN group'.running = group.running \ {t} ELSE group' = group

\* A goroutine that returns is no longer running, any other is where it was.
LEMMA RunningStep ==
    ASSUME group \in Groups, pc \in [Tasks -> Spots], NEW S, NEW t \in Tasks, RunningInv(S),
           pc[t] # "done", pc[t] # "none", NEW to \in Spots, Moves(t, to)
    PROVE  /\ pc' \in [Tasks -> Spots] /\ t \in S
           /\ \A k \in Tasks : IF k \in S THEN k \in group'.running \/ pc'[k] = "done" ELSE pc'[k] = "none"
<1>1. t \in S /\ t \in group.running
  BY DEF RunningInv
<1>2. pc' \in [Tasks -> Spots] /\ pc'[t] = to /\ \A k \in Tasks : k # t => pc'[k] = pc[k]
  BY DEF Moves
<1>3. /\ \A k \in Tasks : k # t /\ k \in group.running => k \in group'.running
      /\ to = "done" \/ t \in group'.running
  <2>1. CASE to = "done"
    BY <2>1 DEF Moves
  <2>2. CASE to # "done"
    BY <1>1, <2>2 DEF Moves
  <2> QED BY <2>1, <2>2
<1> QED BY ONLY <1>1, <1>2, <1>3, RunningInv(S) DEF RunningInv

\* Where a goroutine that loads may be before and after a step of it.
LEMMA LoadMoves ==
    ASSUME group \in Groups, pc \in [Tasks -> Spots], NEW t \in Tasks, Load(t)
    PROVE  /\ pc[t] # "done" /\ pc[t] # "none"
           /\ \E to \in Spots : Moves(t, to)
<1>1. pc[t] # "done" /\ pc[t] # "none"
  BY DEF Load, SolveSource, SolveSourceFails, InLoad, ReadDockerfile,
         ReadDockerfileFails, ReadLowerCase, ReadLowerCaseFails, ReadIgnore, ReadIgnoreFails,
         ReadDefaultIgnore, ReadDefaultIgnoreFails
<1>2. GroupStep(t)
  BY LoadStep
<1>3. ASSUME NEW to \in Places, Go(t, to) PROVE \E x \in Spots : Moves(t, x)
  <2>1. to \in Spots /\ to # "done"
    BY DEF Places, Spots
  <2> QED BY <1>3, <2>1 DEF Go, Moves
<1>4. ASSUME NEW e \in Errors \cup {NoError}, Return(t, e) PROVE \E x \in Spots : Moves(t, x)
  <2>1. pc' = [pc EXCEPT ![t] = "done"] /\ group'.running = group.running \ {t}
    BY <1>4, ReturnGroup
  <2>2. Moves(t, "done") /\ "done" \in Spots
    BY <2>1 DEF Moves, Spots
  <2> QED BY ONLY <2>2
<1> QED BY ONLY <1>1, <1>2, <1>3, <1>4 DEF GroupStep

\* What has been read is there to stay, and an error never goes away.
LEMMA ErrorsStay ==
    ASSUME group \in Groups, NEW t \in Tasks, GroupStep(t), UNCHANGED buildCancelled
    PROVE  /\ group'.err = NoError => group.err = NoError
           /\ Cancelled => Cancelled'
<1>1. CASE UNCHANGED group
  BY <1>1 DEF Cancelled
<1>2. ASSUME NEW e \in Errors \cup {NoError}, Return(t, e)
      PROVE  /\ group'.err = NoError => group.err = NoError
             /\ Cancelled => Cancelled'
  <2>1. /\ group'.err = IF group.err = NoError THEN e ELSE group.err
        /\ group.cancelled => group'.cancelled
    BY <1>2, ReturnGroup
  <2> QED BY <2>1 DEF Cancelled
<1> QED BY <1>1, <1>2 DEF GroupStep, Go

\* A goroutine that returns an error leaves one in the group.
LEMMA ErrorReturned ==
    ASSUME group \in Groups, NEW t \in Tasks, NEW e \in Errors, Return(t, e)
    PROVE  group'.err # NoError /\ pc' = [pc EXCEPT ![t] = "done"]
  BY ReturnGroup, ErrorAssumption

\* The goroutine of t goes on or fails without having read anything.
Reads(t) ==
    /\ UNCHANGED <<text, ignore, default>>
    /\ \/ pc' = [pc EXCEPT ![t] = "read"]
       \/ /\ pc' = [pc EXCEPT ![t] = "read lower case"]
          /\ Filename = "Dockerfile"
          /\ Cancelled \/ Filename \notin Readable \/ "Dockerfile" \in lost'
       \/ pc' = [pc EXCEPT ![t] = "done"] /\ group'.err # NoError

\* The Dockerfile cannot be read.
LEMMA ReadFails ==
    ASSUME group \in Groups, ReadDockerfileFails
    PROVE  lost \subseteq lost' /\ Reads(ForDockerfile)
<1>1. PICK e \in ReadErrors(Filename) :
         /\ lost' = IF e = "daemon" THEN lost \cup {"Dockerfile"} ELSE lost
         /\ IF Filename = "Dockerfile" THEN Go(ForDockerfile, "read lower case") ELSE Return(ForDockerfile, e)
  BY DEF ReadDockerfileFails
<1>2. UNCHANGED <<text, ignore, default>> /\ lost \subseteq lost'
  BY <1>1 DEF ReadDockerfileFails
<1>3. CASE Filename = "Dockerfile"
  <2>1. Cancelled \/ Filename \notin Readable \/ e = "daemon"
    BY <1>1 DEF ReadErrors, CallError
  <2>2. Cancelled \/ Filename \notin Readable \/ "Dockerfile" \in lost'
    BY <1>1, <2>1
  <2> QED BY <1>1, <1>2, <1>3, <2>2 DEF Go, Reads
<1>4. CASE Filename # "Dockerfile"
  <2>1. Return(ForDockerfile, e) /\ e \in Errors
    BY <1>1, <1>4, ReadErrorsAre
  <2> QED BY <1>2, <2>1, ErrorReturned, LoadingTasks DEF Reads
<1> QED BY <1>2, <1>3, <1>4

\* What a step of loading reads.
LEMMA LoadReads ==
    ASSUME group \in Groups, NEW t \in Tasks, Load(t), DockerfileInv
    PROVE  /\ lost \subseteq lost'
           /\ \/ Reads(t)
              \/ t = ForDockerfile /\ UNCHANGED <<ignore, default>> /\ text' \in Meant
                 /\ pc' = [pc EXCEPT ![t] = "read ignore"]
              \/ t = ForDockerfile /\ pc[t] = "read ignore" /\ UNCHANGED <<text, default>>
                 /\ (ignore' \in Contents(src.ignore) \/ Cancelled \/ (ignore' = "none" /\ "ignore" \in lost'))
                 /\ pc' = [pc EXCEPT ![t] = "done"]
              \/ t = ForDefaultIgnore /\ UNCHANGED <<text, ignore>>
                 /\ (default' \in Contents(src.default) \/ Cancelled \/ (default' = "none" /\ "default" \in lost'))
                 /\ pc' = [pc EXCEPT ![t] = "done"]
<1>1. CASE SolveSource(t)
  BY <1>1 DEF SolveSource, Reads, Go, loads
<1>2. CASE SolveSourceFails(t)
  <2>1. CallError(Cancelled) \in Errors
    BY DEF CallError, Errors
  <2>2. Return(t, CallError(Cancelled)) /\ UNCHANGED loads
    BY <1>2 DEF SolveSourceFails
  <2>3. PICK e \in Errors : Return(t, e)
    BY <2>1, <2>2 DEF Return
  <2> QED BY <2>2, <2>3, ErrorReturned DEF Reads, loads
<1>3. CASE t = ForDockerfile /\ ReadDockerfile
  BY <1>3 DEF ReadDockerfile, Go, Meant
<1>4. CASE t = ForDockerfile /\ ReadDockerfileFails
  BY <1>4, ReadFails
<1>5. CASE t = ForDockerfile /\ ReadLowerCase
  <2>1. Filename = "Dockerfile" /\ (Filename \notin Readable \/ "Dockerfile" \in lost)
    BY <1>5 DEF DockerfileInv, ReadLowerCase, InLoad
  <2>2. text' \in Meant
    BY <1>5, <2>1 DEF ReadLowerCase, Meant
  <2> QED BY <1>5, <2>2 DEF ReadLowerCase, Go
<1>6. CASE t = ForDockerfile /\ ReadLowerCaseFails
  <2>1. UNCHANGED loads
    BY <1>6 DEF ReadLowerCaseFails
  <2> QED BY <1>6, <2>1, LowerCaseError, ErrorReturned, LoadingTasks DEF Reads, loads
<1>7. CASE t = ForDockerfile /\ (ReadIgnore \/ ReadIgnoreFails)
  BY <1>7 DEF ReadIgnore, ReadIgnoreFails, Drop, Return, InLoad
<1>8. CASE t = ForDefaultIgnore /\ (ReadDefaultIgnore \/ ReadDefaultIgnoreFails)
  BY <1>8 DEF ReadDefaultIgnore, ReadDefaultIgnoreFails, Drop, Return
<1> QED BY <1>1, <1>2, <1>3, <1>4, <1>5, <1>6, <1>7, <1>8 DEF Load

\* Loading keeps what is meant: a cancelled read is not taken for a file that is not there.
LEMMA LoadFile ==
    ASSUME FileInv, CauseInv, NEW t \in Tasks, Load(t), UNCHANGED <<opts, src>>
    PROVE  FileInv'
<1>0. /\ main = "load" /\ main' = main /\ UNCHANGED <<buildCancelled, outcome>> /\ GroupStep(t)
      /\ group \in Groups /\ pc \in [Tasks -> Spots] /\ (group.cancelled => group.err # NoError)
      /\ RunningInv(LoadTasks) /\ DockerfileInv /\ DefaultInv /\ ~Built
  BY LoadStep DEF FileInv, CauseInv
<1>1. PICK to \in Spots : Moves(t, to)
  BY <1>0, LoadMoves
<1>2. pc[t] # "done" /\ pc[t] # "none"
  BY <1>0, LoadMoves
<1>3. /\ pc' \in [Tasks -> Spots] /\ t \in LoadTasks
      /\ \A k \in Tasks : IF k \in LoadTasks THEN k \in group'.running \/ pc'[k] = "done" ELSE pc'[k] = "none"
  BY ONLY <1>0, <1>1, <1>2, t \in Tasks, RunningStep
<1>4. RunningInv(LoadTasks)'
  BY <1>3, SameRequest DEF RunningInv
<1>5. /\ group'.err = NoError => group.err = NoError
      /\ Cancelled => Cancelled'
  BY ONLY <1>0, t \in Tasks, ErrorsStay
<1>6. /\ Filename' = Filename /\ Readable' = Readable /\ buildCancelled' = buildCancelled
      /\ IsNotLocalContext' = IsNotLocalContext
  BY <1>0, SameRequest
<1>7. group'.err = NoError => (Cancelled <=> buildCancelled)
  BY <1>0, <1>5 DEF Cancelled
<1>8. DockerfileInv' /\ DefaultInv'
  <2> DEFINE D == ForDockerfile
             I == ForDefaultIgnore
  <2>0. lost \subseteq lost'
    BY <1>0, LoadReads
  <2>g. Meant \subseteq Meant' /\ FoundIgnore \subseteq FoundIgnore' /\ FoundDefault \subseteq FoundDefault'
    BY <2>0, MeantGrows
  <2>f. /\ Contents(src.ignore) \subseteq FoundIgnore' /\ ("ignore" \in lost' => "none" \in FoundIgnore')
        /\ Contents(src.default) \subseteq FoundDefault' /\ ("default" \in lost' => "none" \in FoundDefault')
    BY DEF FoundIgnore, FoundDefault
  <2>d. ASSUME pc'[D] = pc[D], UNCHANGED <<text, ignore>> PROVE DockerfileInv'
    <3>1. /\ Filename = "Dockerfile" <=> Filename' = "Dockerfile"
          /\ Filename \in Readable <=> Filename' \in Readable'
          /\ "Dockerfile" \in lost => "Dockerfile" \in lost'
      BY <1>6, <2>0
    <3>2. pc[D] = "read lower case" => Filename' = "Dockerfile"
      BY <1>0, <3>1 DEF DockerfileInv
    <3>3. pc[D] = "read lower case" => Cancelled' \/ Filename' \notin Readable' \/ "Dockerfile" \in lost'
      BY <1>0, <1>5, <3>1 DEF DockerfileInv
    <3>4. pc[D] = "read ignore" => text' \in Meant'
      BY <1>0, <2>d, <2>g DEF DockerfileInv
    <3>5. pc[D] = "done" /\ group'.err = NoError =>
             text' \in Meant' /\ (buildCancelled' \/ ignore' \in FoundIgnore')
      BY <1>0, <1>5, <1>6, <2>d, <2>g DEF DockerfileInv
    <3> QED BY <2>d, <3>2, <3>3, <3>4, <3>5 DEF DockerfileInv
  <2>i. ASSUME pc'[I] = pc[I], UNCHANGED default PROVE DefaultInv'
    <3>1. CASE IsNotLocalContext
      BY <1>0, <1>6, <2>i, <3>1 DEF DefaultInv
    <3>2. CASE ~IsNotLocalContext
      <4>1. pc[I] = "done" /\ group'.err = NoError => buildCancelled' \/ default' \in FoundDefault'
        BY <1>0, <1>5, <1>6, <2>i, <2>g, <3>2 DEF DefaultInv
      <4> QED BY <1>6, <2>i, <3>2, <4>1 DEF DefaultInv
    <3> QED BY <3>1, <3>2
  <2>1. CASE Reads(t)
    <3>1. UNCHANGED <<text, ignore, default>>
      BY <2>1 DEF Reads
    <3>2. DockerfileInv'
      <4>1. CASE t = D
        BY <1>0, <1>5, <1>6, <2>0, <2>1, <4>1, LoadingTasks DEF Reads, DockerfileInv
      <4>2. CASE t # D
        <5>1. pc'[D] = pc[D]
          BY <1>0, <2>1, <4>2, LoadingTasks DEF Reads
        <5> QED BY <2>d, <3>1, <5>1
      <4> QED BY <4>1, <4>2
    <3>3. DefaultInv'
      <4>1. CASE t = I
        BY <1>0, <1>3, <1>6, <2>1, <4>1, LoadingTasks DEF Reads, DefaultInv
      <4>2. CASE t # I
        <5>1. pc'[I] = pc[I]
          BY <1>0, <2>1, <4>2, LoadingTasks DEF Reads
        <5> QED BY <2>i, <3>1, <5>1
      <4> QED BY <4>1, <4>2
    <3> QED BY <3>2, <3>3
  <2>2. CASE t = ForDockerfile /\ UNCHANGED <<ignore, default>> /\ text' \in Meant
             /\ pc' = [pc EXCEPT ![t] = "read ignore"]
    <3>1. pc'[D] = "read ignore" /\ pc'[I] = pc[I]
      BY <1>0, <2>2, LoadingTasks
    <3>2. DockerfileInv'
      BY <2>2, <2>g, <3>1 DEF DockerfileInv
    <3>3. DefaultInv'
      BY <2>i, <2>2, <3>1
    <3> QED BY <3>2, <3>3
  <2>3. CASE t = ForDockerfile /\ pc[t] = "read ignore" /\ UNCHANGED <<text, default>>
             /\ (ignore' \in Contents(src.ignore) \/ Cancelled \/ (ignore' = "none" /\ "ignore" \in lost'))
             /\ pc' = [pc EXCEPT ![t] = "done"]
    <3>1. pc'[D] = "done" /\ pc'[I] = pc[I] /\ text \in Meant
      BY <1>0, <2>3, LoadingTasks DEF DockerfileInv
    <3>2. group'.err = NoError => buildCancelled' \/ ignore' \in FoundIgnore'
      BY <1>6, <1>7, <2>3, <2>f
    <3>3. DockerfileInv'
      BY <2>3, <2>g, <3>1, <3>2 DEF DockerfileInv
    <3>4. DefaultInv'
      BY <2>i, <2>3, <3>1
    <3> QED BY <3>3, <3>4
  <2>4. CASE t = ForDefaultIgnore /\ UNCHANGED <<text, ignore>>
             /\ (default' \in Contents(src.default) \/ Cancelled \/ (default' = "none" /\ "default" \in lost'))
             /\ pc' = [pc EXCEPT ![t] = "done"]
    <3>1. pc'[I] = "done" /\ pc'[D] = pc[D] /\ ~IsNotLocalContext
      BY <1>0, <1>3, <2>4, LoadingTasks
    <3>2. group'.err = NoError => buildCancelled' \/ default' \in FoundDefault'
      BY <1>6, <1>7, <2>4, <2>f
    <3>3. DockerfileInv'
      BY <2>d, <2>4, <3>1
    <3>4. DefaultInv'
      BY <1>6, <3>1, <3>2 DEF DefaultInv
    <3> QED BY <3>3, <3>4
  <2> QED BY <1>0, <2>1, <2>2, <2>3, <2>4, LoadReads
<1>9. ~Built'
  BY <1>0 DEF Built
<1> QED BY ONLY <1>0, <1>3, <1>4, <1>8, <1>9 DEF FileInv

\* What a step of building one platform means for the rules it is built with.
LEMMA PlatformMoves ==
    ASSUME group \in Groups, NEW t \in Tasks, Platforms(t)
    PROVE  /\ pc[t] # "done" /\ pc[t] # "none"
           /\ \E to \in Spots :
                 /\ Moves(t, to)
                 /\ \/ to = "solve" \/ (to = "done" /\ group'.err # NoError)
                    \/ ~buildCancelled \/ pc[t] \in {"store config", "store ref"}
<1>1. pc[t] # "done" /\ pc[t] # "none"
  BY DEF Platforms, Convert, ConvertFails, SolvePlatform, SolvePlatformFails, StoreConfig, StoreRef, InBuild
<1>2. CASE Convert(t)
  BY <1>1, <1>2 DEF Convert, Go, Moves, Spots, Places
<1>3. CASE SolvePlatform(t)
  BY <1>1, <1>3 DEF SolvePlatform, Go, Moves, Spots, Places, Cancelled
<1>4. CASE StoreConfig(t)
  BY <1>1, <1>4 DEF StoreConfig, InBuild, Go, Moves, Spots, Places
<1>5. CASE StoreRef(t)
  <2>1. Return(t, NoError) /\ pc[t] = "store ref"
    BY <1>5 DEF StoreRef, InBuild
  <2>2. Moves(t, "done") /\ "done" \in Spots
    BY <2>1, ReturnGroup DEF Moves, Spots
  <2> QED BY <1>1, <2>1, <2>2
<1>6. CASE ConvertFails(t) \/ SolvePlatformFails(t)
  <2>1. PICK e \in Errors : Return(t, e)
    <3>1. CASE ConvertFails(t)
      <4>1. PICK e \in {"conversion"} \cup (IF Cancelled THEN {"cancelled"} ELSE {}) : Return(t, e)
        BY <3>1 DEF ConvertFails
      <4> QED BY ONLY <4>1 DEF Errors
    <3>2. CASE SolvePlatformFails(t)
      <4>1. CallError(Cancelled) \in Errors
        BY DEF CallError, Errors
      <4>2. Return(t, CallError(Cancelled))
        BY <3>2 DEF SolvePlatformFails
      <4> QED BY <4>1, <4>2 DEF Return
    <3> QED BY <1>6, <3>1, <3>2
  <2>2. Moves(t, "done") /\ "done" \in Spots /\ group'.err # NoError
    BY <2>1, ReturnGroup, ErrorReturned DEF Moves, Spots
  <2> QED BY <1>1, <2>2
<1> QED BY <1>2, <1>3, <1>4, <1>5, <1>6 DEF Platforms

\* Building keeps it.
LEMMA PlatformFile ==
    ASSUME FileInv, CauseInv, OptsInv, NEW t \in Tasks, Platforms(t), UNCHANGED <<opts, src>>
    PROVE  FileInv'
<1>0. /\ main = "platforms" /\ main' = main /\ UNCHANGED <<buildCancelled, text, lost, excludes, outcome>>
      /\ GroupStep(t)
      /\ t \in Targets /\ group \in Groups /\ pc \in [Tasks -> Spots]
      /\ text \in Meant /\ (buildCancelled \/ excludes \in Wanted)
      /\ RunningInv(Targets) /\ SolvedInv /\ ~Built
  BY PlatformStep DEF FileInv, CauseInv, loads
<1>1. PICK to \in Spots :
         /\ Moves(t, to)
         /\ \/ to = "solve" \/ (to = "done" /\ group'.err # NoError)
            \/ ~buildCancelled \/ pc[t] \in {"store config", "store ref"}
  BY <1>0, PlatformMoves
<1>2. pc[t] # "done" /\ pc[t] # "none"
  BY <1>0, PlatformMoves
<1>3. /\ pc' \in [Tasks -> Spots]
      /\ \A k \in Tasks : IF k \in Targets THEN k \in group'.running \/ pc'[k] = "done" ELSE pc'[k] = "none"
  BY ONLY <1>0, <1>1, <1>2, t \in Tasks, RunningStep
<1>4. /\ Targets' = Targets /\ Meant' = Meant /\ Wanted' = Wanted
  BY <1>0, SameRequest, SameMeant
<1>5. RunningInv(Targets)'
  BY <1>3, <1>4 DEF RunningInv
<1>6. group'.err = NoError => group.err = NoError
  BY ONLY <1>0, t \in Tasks, ErrorsStay
<1>7. SolvedInv'
  <2>1. CASE excludes \in Wanted
    BY <1>0, <1>4, <2>1 DEF SolvedInv
  <2>2. CASE excludes \notin Wanted
    <3>1. to = "solve" \/ (to = "done" /\ group'.err # NoError)
      BY <1>0, <1>1, <2>2 DEF SolvedInv
    <3>2. pc' = [pc EXCEPT ![t] = to]
      BY <1>1 DEF Moves
    <3>3. \A i \in Targets :
             ~(pc'[i] \in {"store config", "store ref"} \/ (pc'[i] = "done" /\ group'.err = NoError))
      <4>1. Targets \in SUBSET Tasks
        BY TargetsAreTasks DEF OptsInv
      <4> QED BY <1>0, <1>6, <2>2, <3>1, <3>2, <4>1 DEF SolvedInv
    <3> QED BY <1>4, <3>3 DEF SolvedInv
  <2> QED BY <2>1, <2>2
<1>8. ~Built'
  BY <1>0 DEF Built
<1> QED BY ONLY <1>0, <1>3, <1>4, <1>5, <1>7, <1>8 DEF FileInv

\* There is a target platform.
LEMMA SomeTarget ==
    ASSUME opts \in Request
    PROVE  1 \in Targets
<1>1. PICK n \in 0 .. MaxPlatforms : opts.platforms \in [1 .. n -> Platform]
  BY DEF Request
<1>2. Len(opts.platforms) = n
  BY BoundAssumption, <1>1
<1>3. n = 0 => opts.platforms = << >>
  BY <1>1
<1> QED BY BoundAssumption, <1>1, <1>2, <1>3 DEF Targets

\* A request that is left with an error or a description is not built.
LEMMA LeaveFile ==
    ASSUME pc \in [Tasks -> Spots], NEW o, o # "result", Leave(o)
    PROVE  FileInv'
  BY DEF Leave, FileInv, Built

\* The main thread keeps it: it goes on with what the goroutines have read, once all have returned.
LEMMA MainFile ==
    ASSUME FileInv, CauseInv, OptsInv, Stays
    PROVE  FileInv'
<1>0. /\ UNCHANGED <<opts, src>> /\ pc \in [Tasks -> Spots] /\ group \in Groups /\ opts \in Request
  BY DEF Stays, Same, FileInv, CauseInv, OptsInv
<1>1. /\ Targets' = Targets /\ LoadTasks' = LoadTasks /\ IsNotLocalContext' = IsNotLocalContext
      /\ (lost' = lost => Meant' = Meant /\ DefaultThere' = DefaultThere /\ Wanted' = Wanted)
  BY <1>0, SameRequest, SameMeant
<1>2. group.err # NoError => group.err # "result"
  BY <1>0 DEF Groups, Errors
<1>3. CASE ValidateOptions
  <2>1. CASE opts.caps = "unsupported" \/ opts.options = "bad"
    <3>1. Leave("caps") \/ Leave("options")
      BY <1>3, <2>1 DEF ValidateOptions
    <3> QED BY <1>0, <3>1, LeaveFile
  <2>2. CASE ~(opts.caps = "unsupported" \/ opts.options = "bad")
    <3>1. main = "start" /\ Advance("context")
      BY <1>3, <2>2 DEF ValidateOptions
    <3> QED BY <3>1 DEF Advance, FileInv, loads, Built
  <2> QED BY <2>1, <2>2
<1>4. CASE FindContext
  <2>1. /\ main = "context" /\ main' = "load" /\ default = "none" /\ default' = "none" /\ outcome' = outcome /\ ~Built
        /\ pc' = [t \in Tasks |-> IF t \in LoadTasks THEN "solve" ELSE "none"] /\ group'.running = LoadTasks
        /\ group' = [EG!NewGroup EXCEPT !.running = LoadTasks]
    BY <1>4 DEF FindContext, FileInv, loads, EG!NewGroup
  <2>2. pc' \in [Tasks -> Spots]
    BY <2>1 DEF Spots, Places
  <2>3. RunningInv(LoadTasks)'
    <3>1. \A k \in Tasks : IF k \in LoadTasks THEN k \in group'.running ELSE pc'[k] = "none"
      BY <2>1
    <3> QED BY <1>1, <3>1 DEF RunningInv
  <2>4. pc'[ForDockerfile] = "solve" /\ (pc'[ForDefaultIgnore] = "solve" \/ IsNotLocalContext)
    BY <2>1, LoadingTasks
  <2>5. DockerfileInv'
    BY <2>4 DEF DockerfileInv
  <2>6. DefaultInv'
    BY <1>1, <2>1, <2>4 DEF DefaultInv
  <2>7. ~Built'
    BY <2>1 DEF Built
  <2> QED BY ONLY <2>1, <2>2, <2>3, <2>5, <2>6, <2>7 DEF FileInv
<1>5. CASE FindContextFails \/ ForwardGatewayFails \/ RefuseCaps \/ AnswerSubrequest
  <2>1. \E o \in {"cancelled", "daemon", "caps", "described", "subrequest"} : Leave(o)
    BY <1>5 DEF FindContextFails, ForwardGatewayFails, RefuseCaps, AnswerSubrequest, CallError
  <2> QED BY <1>0, <2>1, LeaveFile
<1>6. CASE Loaded
  <2>1. CASE group.err # NoError
    <3>1. Leave(group.err)
      BY <1>6, <2>1 DEF Loaded
    <3> QED BY ONLY <1>0, <1>2, <2>1, <3>1, LeaveFile
  <2>2. CASE group.err = NoError
    <3>1. main = "load" /\ group.running = {} /\ Advance("loaded")
      BY <1>6, <2>2 DEF Loaded, EG!Joined
    <3>2. RunningInv(LoadTasks) /\ DockerfileInv /\ DefaultInv /\ ~Built
      BY <3>1 DEF FileInv
    <3>3. pc[ForDockerfile] = "done" /\ (pc[ForDefaultIgnore] = "done" \/ IsNotLocalContext)
      BY <3>1, <3>2, LoadingTasks DEF RunningInv
    <3>4. text \in Meant /\ (buildCancelled \/ (ignore \in FoundIgnore /\ default \in DefaultThere))
      BY <2>2, <3>2, <3>3 DEF DockerfileInv, DefaultInv, DefaultThere
    <3>5. /\ main' = "loaded" /\ UNCHANGED <<pc, buildCancelled, text, lost, ignore, default, outcome>>
      BY <3>1 DEF Advance, loads
    <3>6. FoundIgnore' = FoundIgnore
      BY <1>0, <3>5, SameMeant
    <3> QED BY <1>0, <1>1, <3>2, <3>4, <3>5, <3>6 DEF FileInv, Built
  <2> QED BY <2>1, <2>2
<1>7. CASE ChooseIgnore
  <2>1. CASE (IF ignore # "none" THEN ignore ELSE default) = "bad"
    <3>1. Leave("dockerignore")
      BY <1>7, <2>1 DEF ChooseIgnore
    <3> QED BY <1>0, <3>1, LeaveFile
  <2>2. CASE (IF ignore # "none" THEN ignore ELSE default) # "bad"
    <3>1. /\ main = "loaded" /\ main' = "forward" /\ UNCHANGED <<pc, buildCancelled, text, lost, ignore, default, outcome>>
          /\ excludes' = IF ignore # "none" THEN "ignore" ELSE IF default # "none" THEN "default" ELSE "none"
      BY <1>7, <2>2 DEF ChooseIgnore
    <3>2. text \in Meant /\ (buildCancelled \/ (ignore \in FoundIgnore /\ default \in DefaultThere)) /\ ~Built
      BY <3>1 DEF FileInv
    <3>3. buildCancelled \/ excludes' \in Wanted
      BY <3>1, <3>2 DEF Wanted, Chosen
    <3> QED BY <1>0, <1>1, <3>1, <3>2, <3>3 DEF FileInv, Built
  <2> QED BY <2>1, <2>2
<1>8. CASE StayHere
  <2>1. main = "forward" /\ Advance("gate")
    BY <1>8 DEF StayHere
  <2> QED BY <1>0, <1>1, <2>1 DEF Advance, FileInv, loads, Built
<1>9. CASE StartPlatforms
  <2>1. CASE Leave("options")
    BY <1>0, <2>1, LeaveFile
  <2>2. CASE ~Leave("options")
    <3>1. /\ main = "gate" /\ main' = "platforms" /\ UNCHANGED <<buildCancelled, text, lost, excludes, outcome>>
          /\ group' = [EG!NewGroup EXCEPT !.running = Targets]
          /\ pc' = [t \in Tasks |-> IF t \in Targets THEN "convert" ELSE "none"]
      BY <1>9, <2>2 DEF StartPlatforms, loads
    <3>2. text \in Meant /\ (buildCancelled \/ excludes \in Wanted) /\ ~Built
      BY <3>1 DEF FileInv
    <3>3. pc' \in [Tasks -> Spots]
      BY <3>1 DEF Spots
    <3>4. RunningInv(Targets)'
      <4>1. group'.running = Targets
        BY <3>1 DEF EG!NewGroup
      <4>2. \A k \in Tasks : IF k \in Targets THEN k \in group'.running ELSE pc'[k] = "none"
        BY <3>1, <4>1
      <4> QED BY <1>1, <4>2 DEF RunningInv
    <3>5. SolvedInv'
      <4>1. Targets \in SUBSET Tasks
        BY <1>0, TargetsAreTasks
      <4>2. \A i \in Targets : pc'[i] = "convert"
        BY <3>1, <4>1
      <4> QED BY <1>1, <4>2 DEF SolvedInv
    <3>6. text' \in Meant' /\ (buildCancelled' \/ excludes' \in Wanted') /\ ~Built'
      BY <1>1, <3>1, <3>2 DEF Built
    <3> QED BY ONLY <3>1, <3>3, <3>4, <3>5, <3>6 DEF FileInv
  <2> QED BY <2>1, <2>2
<1>10. CASE Finish
  <2>1. CASE group.err # NoError
    <3>1. Leave(group.err)
      BY <1>10, <2>1 DEF Finish
    <3> QED BY ONLY <1>0, <1>2, <2>1, <3>1, LeaveFile
  <2>2. CASE group.err = NoError
    <3>1. main = "platforms" /\ group.running = {} /\ Leave("result")
      BY <1>10, <2>2 DEF Finish, EG!Joined
    <3>2. RunningInv(Targets) /\ SolvedInv /\ text \in Meant
      BY <3>1 DEF FileInv
    <3>3. 1 \in Targets /\ 1 \in Tasks
      BY <1>0, SomeTarget, TargetsAreTasks
    <3>4. pc[1] = "done"
      BY <3>1, <3>2, <3>3 DEF RunningInv
    <3>5. excludes \in Wanted
      BY <2>2, <3>2, <3>3, <3>4 DEF SolvedInv
    <3> QED BY <1>0, <1>1, <3>1, <3>2, <3>5 DEF Leave, FileInv, loads, Built
  <2> QED BY <2>1, <2>2
<1> QED BY <1>3, <1>4, <1>5, <1>6, <1>7, <1>8, <1>9, <1>10 DEF Stays, Same

\* In every reachable state what has been read is what is meant.
LEMMA File == Spec => []FileInv
<1>1. Init => FileInv
  BY DEF Init, FileInv, NotStarted, Spots, Built
<1>2. FileInv /\ CauseInv /\ OptsInv /\ [Next]_vars => FileInv'
  <2> SUFFICES ASSUME FileInv, CauseInv, OptsInv, [Next]_vars PROVE FileInv'
    OBVIOUS
  <2>1. CASE Stays
    BY <2>1, MainFile
  <2>2. CASE ForwardGateway
    <3>1. main = "forward" /\ main' = "start" /\ default' = "none" /\ outcome' = outcome /\ pc' = NotStarted
      BY <2>2 DEF ForwardGateway
    <3>2. ~Built /\ NotStarted \in [Tasks -> Spots]
      BY <3>1 DEF FileInv, NotStarted, Spots
    <3> QED BY <3>1, <3>2 DEF FileInv, Built
  <2>3. ASSUME NEW t \in Tasks, Goroutine(t) PROVE FileInv'
    <3>1. UNCHANGED <<opts, src>>
      BY <2>3 DEF Goroutine, Same
    <3>2. CASE Load(t)
      BY <3>1, <3>2, LoadFile
    <3>3. CASE Platforms(t)
      BY <3>1, <3>3, PlatformFile
    <3> QED BY <2>3, <3>2, <3>3 DEF Goroutine, Same
  <2>4. CASE Same(CancelBuild) \/ UNCHANGED vars
    <3>1. /\ UNCHANGED <<opts, src, main, group, pc, text, lost, ignore, default, excludes, outcome>>
          /\ buildCancelled => buildCancelled'
      BY <2>4 DEF Same, CancelBuild, loads, vars
    <3>2. /\ Meant' = Meant /\ DefaultThere' = DefaultThere /\ Wanted' = Wanted
          /\ Targets' = Targets /\ LoadTasks' = LoadTasks /\ IsNotLocalContext' = IsNotLocalContext
          /\ Filename' = Filename /\ Readable' = Readable
          /\ FoundIgnore' = FoundIgnore
          /\ FoundDefault' = FoundDefault
      BY <3>1, SameRequest, SameMeant
    <3>3. DockerfileInv => DockerfileInv'
      BY <3>1, <3>2 DEF DockerfileInv, Cancelled
    <3>4. DefaultInv => DefaultInv'
      BY <3>1, <3>2 DEF DefaultInv
    <3>5. /\ RunningInv(LoadTasks) => RunningInv(LoadTasks)'
          /\ RunningInv(Targets) => RunningInv(Targets)'
      BY <3>1, <3>2 DEF RunningInv
    <3>6. (SolvedInv => SolvedInv') /\ (Built' <=> Built)
      BY <3>1, <3>2 DEF SolvedInv, Built
    <3> QED BY ONLY FileInv, <3>1, <3>2, <3>3, <3>4, <3>5, <3>6 DEF FileInv
  <2> QED BY <2>1, <2>2, <2>3, <2>4 DEF Next, Main, Stays
<1> QED BY <1>1, <1>2, Cause, Opts, PTL DEF Spec

\* What is built is the Dockerfile that was asked for, with its own ignore rules before those
\* of the context, but for what is not there or the daemon failed to read: a read that was
\* cancelled is never taken for a missing file.
THEOREM LoadedMeant == Spec => []LoadedIsMeant
<1>1. FileInv => LoadedIsMeant
  <2> SUFFICES ASSUME FileInv, Built PROVE LoadedIsMeant
    BY DEF LoadedIsMeant
  <2>1. text \in Meant
    BY DEF FileInv
  <2>2. PICK own \in FoundIgnore, other \in DefaultThere : excludes = Chosen(own, other)
    BY DEF FileInv, Wanted
  <2>3. /\ own = "none" => src.ignore \in {"none", "empty"} \/ "ignore" \in lost
        /\ own # "none" => src.ignore # "none"
    BY <2>2 DEF FoundIgnore, FoundDefault, Contents
  <2>4. /\ other = "none" => \/ IsNotLocalContext \/ "default" \in lost
                             \/ src.default \in {"none", "empty"}
        /\ other # "none" => src.default # "none" /\ ~IsNotLocalContext
    BY <2>2 DEF FoundIgnore, FoundDefault, Contents, DefaultThere
  <2> QED BY <2>1, <2>2, <2>3, <2>4 DEF LoadedIsMeant, Meant, Chosen
<1> QED BY <1>1, File, PTL

-----------------------------------------------------------------------------
Keys == {KeyOf(i) : i \in Targets}

\* what is under a key was made by a target platform that has that key
KeptInv(f) == f \in [DOMAIN f -> Targets] /\ \A k \in DOMAIN f : KeyOf(f[k]) = k

\* what the goroutine of a platform has added to the result, once it is past it
AddedInv ==
    \A i \in Targets :
        /\ pc[i] = "store ref" => KeyOf(i) \in DOMAIN config
        /\ pc[i] = "done" /\ group.err = NoError =>
               /\ KeyOf(i) \in DOMAIN config \cap DOMAIN ref
               /\ exportMap => listed[i] = KeyOf(i)

PartsInv == /\ exportMap \/ Targets = {1}
            /\ KeptInv(config) /\ KeptInv(ref)
            /\ listed \in [Targets -> Keys \cup {"none"}]

WholeInv ==
    /\ main \notin {"platforms", "done"} => config = << >> /\ ref = << >>
    /\ main = "platforms" => PartsInv /\ AddedInv
    /\ Built => /\ PartsInv
                /\ \A i \in Targets : /\ KeyOf(i) \in DOMAIN config \cap DOMAIN ref
                                      /\ exportMap => listed[i] = KeyOf(i)

\* What depends on the request and the shape of the result only.
LEMMA SameKeys ==
    ASSUME UNCHANGED <<opts, exportMap>>
    PROVE  /\ Targets' = Targets /\ Keys' = Keys
           /\ \A i \in Targets : KeyOf(i)' = KeyOf(i)
  BY DEF Targets, Keys, KeyOf

\* Storing under the platform's key keeps what is there.
LEMMA StoredKept ==
    ASSUME NEW f, KeptInv(f), NEW i \in Targets, NEW g, g = Stored(f, KeyOf(i), i)
    PROVE  KeptInv(g) /\ DOMAIN g = DOMAIN f \cup {KeyOf(i)}
  BY DEF KeptInv, Stored

\* The goroutine of t adds nothing to the result.
AddsNothing(t) ==
    /\ UNCHANGED result
    /\ \/ pc' = [pc EXCEPT ![t] = "solve"] \/ pc' = [pc EXCEPT ![t] = "store config"]
       \/ pc' = [pc EXCEPT ![t] = "done"] /\ group'.err # NoError

\* What a step of building one platform adds.
LEMMA PlatformAdds ==
    ASSUME group \in Groups, NEW t \in Tasks, Platforms(t)
    PROVE  AddsNothing(t) \/ StoreConfig(t) \/ StoreRef(t)
<1>1. CASE Convert(t)
  BY <1>1 DEF Convert, Go, AddsNothing
<1>2. CASE SolvePlatform(t)
  BY <1>2 DEF SolvePlatform, Go, AddsNothing
<1>3. CASE ConvertFails(t)
  <2>1. PICK e \in {"conversion"} \cup (IF Cancelled THEN {"cancelled"} ELSE {}) : Return(t, e)
    BY <1>3 DEF ConvertFails
  <2>2. e \in Errors
    BY ONLY <2>1 DEF Errors
  <2>3. UNCHANGED result
    BY <1>3 DEF ConvertFails
  <2> QED BY <2>1, <2>2, <2>3, ErrorReturned DEF AddsNothing
<1>4. CASE SolvePlatformFails(t)
  <2>1. CallError(Cancelled) \in Errors
    BY DEF CallError, Errors
  <2>2. Return(t, CallError(Cancelled)) /\ UNCHANGED result
    BY <1>4 DEF SolvePlatformFails
  <2>3. PICK e \in Errors : Return(t, e)
    BY <2>1, <2>2 DEF Return
  <2> QED BY <2>2, <2>3, ErrorReturned DEF AddsNothing
<1> QED BY <1>1, <1>2, <1>3, <1>4 DEF Platforms

\* Building keeps the result whole.
LEMMA PlatformWhole ==
    ASSUME WholeInv, FileInv, CauseInv, OptsInv, NEW t \in Tasks, Platforms(t), UNCHANGED <<opts, src>>
    PROVE  WholeInv'
<1>0. /\ main = "platforms" /\ main' = main /\ UNCHANGED outcome /\ GroupStep(t) /\ UNCHANGED buildCancelled
      /\ t \in Targets /\ group \in Groups /\ pc \in [Tasks -> Spots] /\ Targets \in SUBSET Tasks
      /\ PartsInv /\ AddedInv /\ ~Built
  BY PlatformStep, TargetsAreTasks DEF FileInv, CauseInv, OptsInv, WholeInv
<1>1. group'.err = NoError => group.err = NoError
  BY ONLY <1>0, t \in Tasks, ErrorsStay
<1>2. exportMap' = exportMap
  BY <1>0, PlatformAdds DEF AddsNothing, result, StoreConfig, StoreRef
<1>3. Targets' = Targets /\ Keys' = Keys /\ \A i \in Targets : KeyOf(i)' = KeyOf(i)
  BY <1>2, SameKeys
<1>4. PartsInv' /\ AddedInv'
  <2>1. CASE AddsNothing(t)
    <3>1. UNCHANGED <<config, ref, listed>>
      BY <2>1 DEF AddsNothing, result
    <3>2. PartsInv'
      BY <1>0, <1>2, <1>3, <3>1 DEF PartsInv, KeptInv
    <3>3. AddedInv'
      BY <1>0, <1>1, <1>2, <1>3, <2>1, <3>1 DEF AddedInv, AddsNothing
    <3> QED BY <3>2, <3>3
  <2>2. CASE StoreConfig(t)
    <3>1. /\ config' = Stored(config, KeyOf(t), t) /\ pc' = [pc EXCEPT ![t] = "store ref"]
          /\ UNCHANGED <<group, ref, listed>>
      BY <2>2 DEF StoreConfig, Go
    <3>2. PICK g : g = config'
      OBVIOUS
    <3>3. KeptInv(g) /\ DOMAIN g = DOMAIN config \cup {KeyOf(t)}
      BY ONLY <1>0, <3>1, <3>2, StoredKept DEF PartsInv
    <3>4. PartsInv'
      BY <1>0, <1>2, <1>3, <3>1, <3>2, <3>3 DEF PartsInv, KeptInv
    <3>5. AddedInv'
      BY <1>0, <1>2, <1>3, <3>1, <3>2, <3>3 DEF AddedInv
    <3> QED BY <3>4, <3>5
  <2>3. CASE StoreRef(t)
    <3>1. /\ ref' = Stored(ref, KeyOf(t), t) /\ pc' = [pc EXCEPT ![t] = "done"] /\ pc[t] = "store ref"
          /\ listed' = (IF exportMap THEN [listed EXCEPT ![t] = KeyOf(t)] ELSE listed)
          /\ UNCHANGED config
      BY <2>3 DEF StoreRef, InBuild, Return
    <3>2. PICK g : g = ref'
      OBVIOUS
    <3>3. KeptInv(g) /\ DOMAIN g = DOMAIN ref \cup {KeyOf(t)}
      BY ONLY <1>0, <3>1, <3>2, StoredKept DEF PartsInv
    <3>4. listed' \in [Targets -> Keys \cup {"none"}]
      BY <1>0, <3>1 DEF PartsInv, Keys
    <3>5. PartsInv'
      BY <1>0, <1>2, <1>3, <3>1, <3>2, <3>3, <3>4 DEF PartsInv, KeptInv
    <3>6. \A i \in Targets : exportMap => listed'[i] = IF i = t THEN KeyOf(t) ELSE listed[i]
      BY <1>0, <3>1 DEF PartsInv
    <3>7. AddedInv'
      BY <1>0, <1>1, <1>2, <1>3, <3>1, <3>2, <3>3, <3>6 DEF AddedInv
    <3> QED BY <3>5, <3>7
  <2> QED BY <1>0, <2>1, <2>2, <2>3, PlatformAdds
<1>5. ~Built'
  BY <1>0 DEF Built
<1> QED BY ONLY <1>0, <1>4, <1>5 DEF WholeInv

\* The targets are an interval.
LEMMA TargetsAreInterval ==
    ASSUME opts \in Request
    PROVE  \E n \in Nat \ {0} : Targets = 1 .. n
<1>1. PICK n \in 0 .. MaxPlatforms : opts.platforms \in [1 .. n -> Platform]
  BY DEF Request
<1>2. Len(opts.platforms) = n
  BY BoundAssumption, <1>1
<1>3. n = 0 => opts.platforms = << >>
  BY <1>1
<1>4. CASE opts.platforms = << >>
  BY <1>4 DEF Targets
<1>5. CASE opts.platforms # << >>
  <2>1. Targets = 1 .. n /\ n \in Nat \ {0}
    BY BoundAssumption, <1>2, <1>3, <1>5 DEF Targets
  <2> QED BY <2>1
<1> QED BY <1>4, <1>5

\* There are finitely many targets, and if there are not many there is one.
LEMMA FewTargets ==
    ASSUME opts \in Request
    PROVE  IsFiniteSet(Targets) /\ (Cardinality(Targets) > 1 \/ Targets = {1})
<1>1. PICK n \in Nat \ {0} : Targets = 1 .. n
  BY TargetsAreInterval
<1>2. IsFiniteSet(1 .. n) /\ Cardinality(1 .. n) = n
  BY FS_Interval
<1>3. n = 1 => 1 .. n = {1}
  OBVIOUS
<1> QED BY <1>1, <1>2, <1>3

\* The main thread starts with an empty result and returns it when every platform has added its part.
LEMMA MainWhole ==
    ASSUME WholeInv, FileInv, CauseInv, OptsInv, Stays
    PROVE  WholeInv'
<1>0. UNCHANGED <<opts, src>> /\ opts \in Request /\ Targets \in SUBSET Tasks
  BY TargetsAreTasks DEF Stays, Same, OptsInv
<1>1. CASE StartPlatforms /\ ~Leave("options")
  <2>1. /\ main = "gate" /\ main' = "platforms" /\ UNCHANGED <<config, ref, outcome>>
        /\ ~(opts.multi = "bad" \/ (opts.multi = "false" /\ Cardinality(Targets) > 1))
        /\ exportMap' = (IF opts.multi = "unset" THEN Cardinality(Targets) > 1 ELSE opts.multi = "true")
        /\ pc' = [t \in Tasks |-> IF t \in Targets THEN "convert" ELSE "none"]
        /\ listed' = [i \in Targets |-> "none"]
    BY <1>1 DEF StartPlatforms
  <2>2. config' = << >> /\ ref' = << >> /\ ~Built'
    BY <2>1 DEF WholeInv, FileInv, Built
  <2>3. exportMap' \/ Targets = {1}
    <3>1. opts.multi \in {"unset", "true", "false", "bad"}
      BY <1>0 DEF Request
    <3> QED BY <1>0, <2>1, <3>1, FewTargets
  <2>4. Targets' = Targets
    BY <1>0, SameRequest
  <2>5. KeptInv(config)' /\ KeptInv(ref)'
    BY <2>2 DEF KeptInv
  <2>6. listed' \in [Targets' -> Keys' \cup {"none"}]
    BY <2>1, <2>4
  <2>7. PartsInv'
    BY <2>3, <2>4, <2>5, <2>6 DEF PartsInv
  <2>8. AddedInv'
    <3>1. \A i \in Targets : pc'[i] = "convert"
      BY <1>0, <2>1
    <3> QED BY <2>4, <3>1 DEF AddedInv
  <2> QED BY <2>1, <2>2, <2>7, <2>8 DEF WholeInv
<1>2. CASE Finish /\ group.err = NoError
  <2>1. main = "platforms" /\ group.running = {} /\ Leave("result")
    BY <1>2 DEF Finish, EG!Joined
  <2>2. RunningInv(Targets) /\ PartsInv /\ AddedInv
    BY <2>1 DEF FileInv, WholeInv
  <2>3. \A i \in Targets : pc[i] = "done"
    BY <1>0, <2>1, <2>2 DEF RunningInv
  <2>4. \A i \in Targets : KeyOf(i) \in DOMAIN config \cap DOMAIN ref /\ (exportMap => listed[i] = KeyOf(i))
    BY <1>2, <2>2, <2>3 DEF AddedInv
  <2>5. UNCHANGED <<exportMap, config, ref, listed>> /\ main' = "done"
    BY <2>1 DEF Leave, result
  <2>6. Targets' = Targets /\ Keys' = Keys /\ \A i \in Targets : KeyOf(i)' = KeyOf(i)
    BY <1>0, <2>5, SameKeys
  <2>7. PartsInv'
    BY <2>2, <2>5, <2>6 DEF PartsInv, KeptInv
  <2>8. (\A i \in Targets : KeyOf(i) \in DOMAIN config \cap DOMAIN ref /\ (exportMap => listed[i] = KeyOf(i)))'
    BY <2>4, <2>5, <2>6
  <2> QED BY ONLY <2>5, <2>7, <2>8 DEF WholeInv
<1>3. CASE ~(StartPlatforms /\ ~Leave("options")) /\ ~(Finish /\ group.err = NoError)
  <2>1. group.err # NoError => group.err # "result"
    BY DEF CauseInv, Groups, Errors
  <2>2. /\ UNCHANGED <<config, ref>> /\ main' # "platforms" /\ outcome' # "result"
        /\ main' = "done" \/ main \notin {"platforms", "done"}
    <3>1. CASE StartPlatforms
      <4>1. Leave("options")
        BY <1>3, <3>1
      <4> QED BY <4>1 DEF Leave, result
    <3>2. CASE Finish
      <4>1. Leave(group.err) /\ group.err # NoError
        BY <1>3, <3>2 DEF Finish
      <4> QED BY ONLY <2>1, <4>1 DEF Leave, result
    <3>3. CASE Loaded
      <4>1. main = "load" /\ (Advance("loaded") \/ (Leave(group.err) /\ group.err # NoError))
        BY <3>3 DEF Loaded
      <4>2. outcome # "result"
        BY <4>1 DEF FileInv, Built
      <4> QED BY ONLY <2>1, <4>1, <4>2 DEF Leave, Advance, result
    <3>4. CASE ValidateOptions \/ FindContext \/ ChooseIgnore \/ StayHere
      <4>1. main \in {"start", "context", "loaded", "forward"} /\ outcome # "result"
        BY <3>4 DEF ValidateOptions, FindContext, ChooseIgnore, StayHere, FileInv, Built
      <4> QED BY <3>4, <4>1 DEF ValidateOptions, FindContext, ChooseIgnore, StayHere, Leave, Advance, result
    <3>5. CASE FindContextFails \/ ForwardGatewayFails \/ RefuseCaps \/ AnswerSubrequest
      <4>1. \E o \in {"cancelled", "daemon", "caps", "described", "subrequest"} : Leave(o)
        BY <3>5 DEF FindContextFails, ForwardGatewayFails, RefuseCaps, AnswerSubrequest, CallError
      <4> QED BY <4>1 DEF Leave, result
    <3> QED BY <3>1, <3>2, <3>3, <3>4, <3>5 DEF Stays, Same
  <2> QED BY <2>2 DEF WholeInv, Built
<1> QED BY <1>1, <1>2, <1>3

\* In every reachable state the result is as whole as it can be.
LEMMA Whole == Spec => []WholeInv
<1>1. Init => WholeInv
  BY DEF Init, WholeInv, Built
<1>2. WholeInv /\ FileInv /\ CauseInv /\ OptsInv /\ [Next]_vars => WholeInv'
  <2> SUFFICES ASSUME WholeInv, FileInv, CauseInv, OptsInv, [Next]_vars PROVE WholeInv'
    OBVIOUS
  <2>1. CASE Stays
    BY <2>1, MainWhole
  <2>2. CASE ForwardGateway
    <3>1. main = "forward" /\ main' = "start" /\ UNCHANGED <<config, ref, outcome>>
      BY <2>2 DEF ForwardGateway, result
    <3> QED BY <3>1 DEF WholeInv, FileInv, Built
  <2>3. ASSUME NEW t \in Tasks, Goroutine(t) PROVE WholeInv'
    <3>1. UNCHANGED <<opts, src>>
      BY <2>3 DEF Goroutine, Same
    <3>2. CASE Load(t)
      <4>1. main = "load" /\ UNCHANGED <<main, config, ref, outcome>>
        BY <3>2, LoadStep DEF result
      <4> QED BY <4>1 DEF WholeInv, FileInv, Built
    <3>3. CASE Platforms(t)
      BY <3>1, <3>3, PlatformWhole
    <3> QED BY <2>3, <3>2, <3>3 DEF Goroutine, Same
  <2>4. CASE Same(CancelBuild) \/ UNCHANGED vars
    <3>1. UNCHANGED <<opts, main, group, pc, exportMap, config, ref, listed, outcome>>
      BY <2>4 DEF Same, CancelBuild, vars, result
    <3>2. Targets' = Targets /\ Keys' = Keys /\ \A i \in Targets : KeyOf(i)' = KeyOf(i)
      BY <3>1, SameKeys
    <3>3. (PartsInv => PartsInv') /\ (AddedInv => AddedInv')
      BY <3>1, <3>2 DEF PartsInv, AddedInv, KeptInv
    <3> QED BY <3>1, <3>2, <3>3 DEF WholeInv, Built
  <2> QED BY <2>1, <2>2, <2>3, <2>4 DEF Next, Main, Stays
<1> QED BY <1>1, <1>2, File, Cause, Opts, PTL DEF Spec

\* The result has the config and the reference of every target platform under its key, from one
\* conversion unless a platform is asked for twice, and nothing else.
THEOREM ResultWhole == Spec => []ResultIsWhole
<1>1. WholeInv /\ OptsInv => ResultIsWhole
  <2> SUFFICES ASSUME WholeInv, OptsInv, Built PROVE ResultIsWhole
    BY DEF ResultIsWhole
  <2>1. /\ PartsInv /\ opts \in Request
        /\ \A i \in Targets : KeyOf(i) \in DOMAIN config \cap DOMAIN ref /\ (exportMap => listed[i] = KeyOf(i))
    BY DEF WholeInv, OptsInv
  <2>2. DOMAIN ref = Keys /\ DOMAIN config = Keys
    BY <2>1 DEF PartsInv, KeptInv, Keys
  <2>3. \A i, j \in Targets : KeyOf(i) = KeyOf(j) => BuiltFor(i) = BuiltFor(j)
    BY <2>1 DEF PartsInv, KeyOf, BuiltFor
  <2>4. \A i \in Targets : BuiltFor(ref[KeyOf(i)]) = BuiltFor(i) /\ BuiltFor(config[KeyOf(i)]) = BuiltFor(i)
    <3>1. ASSUME NEW i \in Targets PROVE BuiltFor(ref[KeyOf(i)]) = BuiltFor(i) /\ BuiltFor(config[KeyOf(i)]) = BuiltFor(i)
      <4>1. PICK k : k = KeyOf(i)
        OBVIOUS
      <4>2. /\ ref[k] \in Targets /\ KeyOf(ref[k]) = k
            /\ config[k] \in Targets /\ KeyOf(config[k]) = k
        BY <2>1, <4>1 DEF PartsInv, KeptInv
      <4> QED BY <2>3, <4>1, <4>2
    <3> QED BY <3>1
  <2>5. Cardinality(Keys) = Cardinality(Targets) => config = ref
    <3> SUFFICES ASSUME Cardinality(Keys) = Cardinality(Targets) PROVE config = ref
      OBVIOUS
    <3> DEFINE key == [i \in Targets |-> KeyOf(i)]
    <3>1. key \in Surjection(Targets, Keys)
      BY DEF Surjection, Keys
    <3>2. key \in Injection(Targets, Keys)
      <4> HIDE DEF key
      <4> QED BY <2>1, <3>1, FewTargets, FS_Surjection
    <3>3. \A i, j \in Targets : KeyOf(i) = KeyOf(j) => i = j
      BY <3>2 DEF Injection, IsInjective
    <3>4. \A k \in Keys : config[k] = ref[k]
      BY <2>1, <2>2, <3>3 DEF PartsInv, KeptInv
    <3>5. config \in [Keys -> Targets] /\ ref \in [Keys -> Targets]
      BY <2>1, <2>2 DEF PartsInv, KeptInv
    <3> QED BY <3>4, <3>5
  <2> QED BY <2>1, <2>2, <2>4, <2>5 DEF ResultIsWhole, Keys
<1> QED BY <1>1, Whole, Opts, PTL
=============================================================================
