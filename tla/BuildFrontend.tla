--------------------------- MODULE BuildFrontend ----------------------------
(***************************************************************************)
(* builder.Build (builder/build.go), the entry point of the frontend: it   *)
(* checks what the client asks for, loads the Dockerfile and the           *)
(* .dockerignore in two goroutines, may hand the build over to another     *)
(* frontend, and converts and solves the Dockerfile once per target        *)
(* platform, in parallel, into one result.                                 *)
(***************************************************************************)
EXTENDS Naturals, FiniteSets, Sequences

CONSTANTS Requests,            \* what a client may ask for
          Sources,             \* what there may be where the Dockerfile is
          HostPlatform,        \* platforms.DefaultSpec() of the frontend's process
          WorkerPlatform,      \* first platform of the first worker
          MaxPlatforms,        \* bound: longest list of target platforms
          MaxForwards,         \* bound: frontends a build is handed over to
          NoError              \* a nil error

ASSUME BoundAssumption == MaxPlatforms \in Nat \ {0} /\ MaxForwards \in Nat

Platform == {"amd64", "arm64"}

(* caps:       the capabilities asked for: all known, unknown ones that    *)
(*             are marked +forward, or others (validateCaps)               *)
(* options:    whether the options parse                                   *)
(* context:    where the build context comes from; "file" is a URL that is *)
(*             no archive, "inputs" a context handed in by the caller      *)
(* forced:     the local Dockerfile source is named (dockerfilekey)        *)
(* filename:   the name of the Dockerfile                                  *)
(* cmdline:    the build was handed over by another frontend               *)
(* syntaxArg:  build-arg:BUILDKIT_SYNTAX is set                            *)
(* subrequest: requestid                                                   *)
(* platforms:  the target platforms, none for the default                  *)
(* multi:      multi-platform, or build-arg:BUILDKIT_MULTI_PLATFORM        *)
Request == [caps : {"known", "forwardable", "unsupported"},
            options : {"good", "bad"},
            context : {"local", "git", "archive", "file", "inputs"},
            forced : BOOLEAN,
            filename : {"Dockerfile", "other"},
            cmdline : BOOLEAN, syntaxArg : BOOLEAN,
            subrequest : {"none", "describe", "unknown"},
            platforms : UNION {[1 .. n -> Platform] : n \in 0 .. MaxPlatforms},
            multi : {"unset", "true", "false", "bad"}]

(* names: the Dockerfiles that can be read there, syntax: those of them    *)
(* with a syntax directive, ignore and default: what is in                 *)
(* <filename>.dockerignore and in the context's .dockerignore, "none" when *)
(* there is no such file                                                   *)
Rules == {"none", "empty", "rules", "bad"}
Source == [names : SUBSET {"Dockerfile", "dockerfile", "other"},
           syntax : SUBSET {"Dockerfile", "dockerfile", "other", "context"},
           ignore : Rules, default : Rules]

ASSUME InputAssumption == Requests \subseteq Request /\ Sources \subseteq Source

\* the errors a goroutine returns
Errors == {"cancelled", "daemon", "no dockerfile", "conversion"}

ASSUME ErrorAssumption == NoError \notin Errors

VARIABLES opts, src,           \* the request and what it meets
          main,                \* where Build is
          group, pc,           \* the errgroup in use, and where its goroutines are
          buildCancelled,      \* the client has gone away
          forwards,            \* frontends the build was handed over to
          text,                \* dtDockerfile: the file it was read from
          lost,                \* history: the files the daemon failed to read
          ignore, default,     \* dtDockerignore, dtDockerignoreDefault
          excludes,            \* the rules in force, by the file they are from
          exportMap,           \* the result has one entry per platform
          config, ref,         \* the result: who made what is under a key
          listed,              \* expPlatforms: the key of every platform
          outcome              \* what Build returned

loads == <<text, lost, ignore, default, excludes>>
result == <<exportMap, config, ref, listed>>
vars == <<opts, src, main, group, pc, buildCancelled, forwards, loads, result, outcome>>

EG == INSTANCE ErrGroup

Targets == IF opts.platforms = << >> THEN 1 .. 1 ELSE 1 .. Len(opts.platforms)

\* goroutines are numbered in their group: those that load, then those of the platforms
ForDockerfile == 1
ForDefaultIgnore == 2
Tasks == 1 .. MaxPlatforms + 1

NotStarted == [t \in Tasks |-> "none"]

Init == /\ opts \in Requests /\ src \in Sources
        /\ main = "start"
        /\ group = EG!NewGroup /\ pc = NotStarted
        /\ buildCancelled = FALSE /\ forwards = 0
        /\ text = "none" /\ lost = {} /\ ignore = "none" /\ default = "none" /\ excludes = "none"
        /\ exportMap = FALSE /\ config = << >> /\ ref = << >> /\ listed = << >>
        /\ outcome = "pending"

-----------------------------------------------------------------------------
\* Build returns: an error, the description of the frontend or the result
Leave(o) == /\ main' = "done" /\ outcome' = o
            /\ UNCHANGED <<group, pc, buildCancelled, forwards, loads, result>>

Advance(to) == main' = to /\ UNCHANGED <<group, pc, buildCancelled, forwards, loads, result, outcome>>

(* A call of the daemon fails when its context is cancelled, and may fail  *)
(* at any other time.                                                      *)
CallError(cancelled) == IF cancelled THEN "cancelled" ELSE "daemon"

\* validateCaps, unless what is unknown may be known to another frontend, then the options
ValidateOptions ==
    /\ main = "start"
    /\ IF opts.caps = "unsupported" THEN Leave("caps")
       ELSE IF opts.options = "bad" THEN Leave("options")
       ELSE Advance("context")

Filename == IF opts.context = "file" THEN "context" ELSE opts.filename

\* what the source of the Dockerfile holds: a downloaded file, or a directory
Readable == IF opts.context = "file" /\ ~opts.forced THEN {"context"} ELSE src.names

\* a context in the hands of the caller or in a single file has no .dockerignore
IsNotLocalContext == opts.context \in {"file", "inputs"}

LoadTasks == {ForDockerfile} \cup (IF IsNotLocalContext THEN {} ELSE {ForDefaultIgnore})

\* the context is known, downloaded if need be, and the loading starts
FindContext ==
    /\ main = "context"
    /\ buildCancelled => opts.context \in {"local", "git"}
    /\ main' = "load"
    /\ group' = [EG!NewGroup EXCEPT !.running = LoadTasks]
    /\ pc' = [t \in Tasks |-> IF t \in LoadTasks THEN "solve" ELSE "none"]
    /\ UNCHANGED <<buildCancelled, forwards, loads, result, outcome>>

FindContextFails ==
    /\ main = "context" /\ opts.context \in {"archive", "file", "inputs"}
    /\ Leave(CallError(buildCancelled))

-----------------------------------------------------------------------------
\* the context of the goroutines
Cancelled == group.cancelled \/ buildCancelled

\* mutation of Return: the last error is kept
ReturnKeepsLast(t, e) ==
    /\ group' = [EG!Returned(group, t, e) EXCEPT !.err = IF e = NoError THEN group.err ELSE e]
    /\ pc' = [pc EXCEPT ![t] = "done"]

Return(t, e) == /\ group' = EG!Returned(group, t, e)
                /\ pc' = [pc EXCEPT ![t] = "done"]

Go(t, to) == pc' = [pc EXCEPT ![t] = to] /\ UNCHANGED group

InLoad(t, at) == main = "load" /\ pc[t] = at

SolveSource(t) ==
    /\ InLoad(t, "solve") /\ ~Cancelled
    /\ Go(t, "read")
    /\ UNCHANGED loads

SolveSourceFails(t) ==
    /\ InLoad(t, "solve")
    /\ Return(t, CallError(Cancelled))
    /\ UNCHANGED loads

\* the errors of reading the Dockerfile f
ReadErrors(f) == {CallError(Cancelled)} \cup (IF f \in Readable THEN {} ELSE {"no dockerfile"})

ReadDockerfile ==
    /\ InLoad(ForDockerfile, "read") /\ ~Cancelled
    /\ Filename \in Readable /\ text' = Filename
    /\ Go(ForDockerfile, "read ignore")
    /\ UNCHANGED <<lost, ignore, default, excludes>>

\* after any error a Dockerfile may be there in lower case
ReadDockerfileFails ==
    /\ InLoad(ForDockerfile, "read")
    /\ \E e \in ReadErrors(Filename) :
          /\ lost' = IF e = "daemon" THEN lost \cup {"Dockerfile"} ELSE lost
          /\ IF Filename = "Dockerfile" THEN Go(ForDockerfile, "read lower case")
             ELSE Return(ForDockerfile, e)
    /\ UNCHANGED <<text, ignore, default, excludes>>

ReadLowerCase ==
    /\ InLoad(ForDockerfile, "read lower case") /\ ~Cancelled
    /\ "dockerfile" \in Readable /\ text' = "dockerfile"
    /\ Go(ForDockerfile, "read ignore")
    /\ UNCHANGED <<lost, ignore, default, excludes>>

\* the error returned is the first one
ReadLowerCaseFails ==
    /\ InLoad(ForDockerfile, "read lower case")
    /\ \E e \in IF "Dockerfile" \in lost THEN {"daemon"} ELSE ReadErrors(Filename) \ {"daemon"} :
          Return(ForDockerfile, e)
    /\ UNCHANGED loads

(* A client hands back an empty file as an empty slice or, when it comes   *)
(* out of a message, as nil: then it is taken for one that is not there.   *)
Contents(rules) == IF rules = "empty" THEN {"empty", "none"} ELSE {rules}

\* the daemon fails to read a file, and the error is dropped
Drop(file) == lost' = IF Cancelled THEN lost ELSE lost \cup {file}

ReadIgnore ==
    /\ InLoad(ForDockerfile, "read ignore") /\ ~Cancelled
    /\ ignore' \in Contents(src.ignore)
    /\ Return(ForDockerfile, NoError)
    /\ UNCHANGED <<text, lost, default, excludes>>

ReadIgnoreFails ==
    /\ InLoad(ForDockerfile, "read ignore")
    /\ Drop("ignore") /\ ignore' = "none"
    /\ Return(ForDockerfile, NoError)
    /\ UNCHANGED <<text, default, excludes>>

\* mutation of ReadDefaultIgnore: the goroutine never counts as returned
ReadDefaultIgnoreForgets ==
    /\ InLoad(ForDefaultIgnore, "read") /\ ~Cancelled
    /\ default' \in Contents(src.default)
    /\ Go(ForDefaultIgnore, "done")
    /\ UNCHANGED <<text, lost, ignore, excludes>>

ReadDefaultIgnore ==
    /\ InLoad(ForDefaultIgnore, "read") /\ ~Cancelled
    /\ default' \in Contents(src.default)
    /\ Return(ForDefaultIgnore, NoError)
    /\ UNCHANGED <<text, lost, ignore, excludes>>

ReadDefaultIgnoreFails ==
    /\ InLoad(ForDefaultIgnore, "read")
    /\ Drop("default") /\ default' = "none"
    /\ Return(ForDefaultIgnore, NoError)
    /\ UNCHANGED <<text, ignore, excludes>>

Load(t) == /\ \/ SolveSource(t) \/ SolveSourceFails(t)
              \/ /\ t = ForDockerfile
                 /\ \/ ReadDockerfile \/ ReadDockerfileFails \/ ReadLowerCase \/ ReadLowerCaseFails
                    \/ ReadIgnore \/ ReadIgnoreFails
              \/ t = ForDefaultIgnore /\ (ReadDefaultIgnore \/ ReadDefaultIgnoreFails)
           /\ UNCHANGED <<main, buildCancelled, forwards, result, outcome>>

\* mutation of Loaded: the error is dropped
LoadedRegardless == main = "load" /\ EG!Joined(group) /\ Advance("loaded")

\* eg.Wait
Loaded == /\ main = "load" /\ EG!Joined(group)
          /\ IF group.err = NoError THEN Advance("loaded") ELSE Leave(group.err)

-----------------------------------------------------------------------------
\* the Dockerfile's own rules, or those of the context
ChooseIgnore ==
    LET chosen == IF ignore # "none" THEN ignore ELSE default IN
    /\ main = "loaded"
    /\ IF chosen = "bad" THEN Leave("dockerignore")
       ELSE /\ main' = "forward"
            /\ excludes' = IF ignore # "none" THEN "ignore"
                           ELSE IF default # "none" THEN "default" ELSE "none"
            /\ UNCHANGED <<group, pc, buildCancelled, forwards, text, lost, ignore, default, result, outcome>>

WantsOtherFrontend == ~opts.cmdline /\ (opts.syntaxArg \/ text \in src.syntax)

\* mutation of ForwardGateway: the other frontend is not told
ForwardGatewayForgets ==
    /\ main = "forward" /\ WantsOtherFrontend /\ ~buildCancelled
    /\ forwards < MaxForwards
    /\ forwards' = forwards + 1
    /\ main' = "start" /\ group' = EG!NewGroup /\ pc' = NotStarted
    /\ text' = "none" /\ lost' = {} /\ ignore' = "none" /\ default' = "none" /\ excludes' = "none"
    /\ UNCHANGED <<opts, src, buildCancelled, result, outcome>>

(* forwardGateway: another frontend is given the same options and the      *)
(* command line of this one, and starts from nothing.  It is taken to be   *)
(* this program again.                                                     *)
ForwardGateway ==
    /\ main = "forward" /\ WantsOtherFrontend /\ ~buildCancelled
    /\ forwards < MaxForwards
    /\ opts' = [opts EXCEPT !.cmdline = TRUE]
    /\ forwards' = forwards + 1
    /\ main' = "start" /\ group' = EG!NewGroup /\ pc' = NotStarted
    /\ text' = "none" /\ lost' = {} /\ ignore' = "none" /\ default' = "none" /\ excludes' = "none"
    /\ UNCHANGED <<src, buildCancelled, result, outcome>>

ForwardGatewayFails ==
    /\ main = "forward" /\ WantsOtherFrontend
    /\ Leave(CallError(buildCancelled))

StayHere == /\ main = "forward" /\ ~WantsOtherFrontend
            /\ Advance("gate")

\* capabilities only another frontend may have had
RefuseCaps == /\ main = "gate" /\ opts.caps = "forwardable"
              /\ Leave("caps")

\* mutation of AnswerSubrequest: before the capabilities are looked at
AnswerSubrequestFirst ==
    /\ main = "gate" /\ opts.subrequest # "none"
    /\ Leave(IF opts.subrequest = "describe" THEN "described" ELSE "subrequest")

\* checkSubRequest
AnswerSubrequest ==
    /\ main = "gate" /\ opts.caps = "known" /\ opts.subrequest # "none"
    /\ Leave(IF opts.subrequest = "describe" THEN "described" ELSE "subrequest")

(* With multi-platform unset the shape of the result follows the number of *)
(* platforms.                                                              *)
StartPlatforms ==
    LET many == Cardinality(Targets) > 1 IN
    /\ main = "gate" /\ opts.caps = "known" /\ opts.subrequest = "none"
    /\ IF opts.multi = "bad" \/ (opts.multi = "false" /\ many)
       THEN Leave("options")
       ELSE /\ main' = "platforms"
            /\ exportMap' = IF opts.multi = "unset" THEN many ELSE opts.multi = "true"
            /\ group' = [EG!NewGroup EXCEPT !.running = Targets]
            /\ pc' = [t \in Tasks |-> IF t \in Targets THEN "convert" ELSE "none"]
            /\ listed' = [i \in Targets |-> "none"]
            /\ UNCHANGED <<buildCancelled, forwards, loads, config, ref, outcome>>

-----------------------------------------------------------------------------
\* the platform converted and solved for, and the key its result is stored under
BuiltFor(i) == IF opts.platforms = << >> THEN WorkerPlatform ELSE opts.platforms[i]
KeyOf(i) == IF ~exportMap THEN "single"
            ELSE IF opts.platforms = << >> THEN HostPlatform ELSE opts.platforms[i]

InBuild(i, at) == main = "platforms" /\ i \in Targets /\ pc[i] = at

Stored(f, k, v) == [x \in DOMAIN f \cup {k} |-> IF x = k THEN v ELSE f[x]]

\* Dockerfile2LLB, marshalling and the cache imports
Convert(i) == /\ InBuild(i, "convert") /\ Go(i, "solve")
              /\ UNCHANGED result

ConvertFails(i) ==
    /\ InBuild(i, "convert")
    /\ \E e \in {"conversion"} \cup (IF Cancelled THEN {"cancelled"} ELSE {}) : Return(i, e)
    /\ UNCHANGED result

SolvePlatform(i) == /\ InBuild(i, "solve") /\ ~Cancelled
                    /\ Go(i, "store config")
                    /\ UNCHANGED result

SolvePlatformFails(i) == /\ InBuild(i, "solve")
                         /\ Return(i, CallError(Cancelled))
                         /\ UNCHANGED result

\* AddMeta
StoreConfig(i) == /\ InBuild(i, "store config")
                  /\ config' = Stored(config, KeyOf(i), i)
                  /\ Go(i, "store ref")
                  /\ UNCHANGED <<exportMap, ref, listed>>

\* SetRef, or AddRef and the entry of the list of platforms
StoreRef(i) == /\ InBuild(i, "store ref")
               /\ ref' = Stored(ref, KeyOf(i), i)
               /\ listed' = IF exportMap THEN [listed EXCEPT ![i] = KeyOf(i)] ELSE listed
               /\ Return(i, NoError)
               /\ UNCHANGED <<exportMap, config>>

Platforms(i) == /\ \/ Convert(i) \/ ConvertFails(i) \/ SolvePlatform(i) \/ SolvePlatformFails(i)
                   \/ StoreConfig(i) \/ StoreRef(i)
                /\ UNCHANGED <<main, buildCancelled, forwards, loads, outcome>>

\* mutation of Finish: the error is dropped
FinishRegardless == main = "platforms" /\ EG!Joined(group) /\ Leave("result")

\* eg.Wait, and the list of platforms is added to the result
Finish == /\ main = "platforms" /\ EG!Joined(group)
          /\ Leave(IF group.err = NoError THEN "result" ELSE group.err)

CancelBuild == /\ main # "done" /\ ~buildCancelled
               /\ buildCancelled' = TRUE
               /\ UNCHANGED <<main, group, pc, forwards, loads, result, outcome>>

-----------------------------------------------------------------------------
Same(A) == A /\ UNCHANGED <<opts, src>>

Main == \/ Same(\/ ValidateOptions \/ FindContext \/ FindContextFails \/ Loaded \/ ChooseIgnore
                \/ ForwardGatewayFails \/ StayHere \/ RefuseCaps \/ AnswerSubrequest
                \/ StartPlatforms \/ Finish)
        \/ ForwardGateway

Goroutine(t) == Same(Load(t) \/ Platforms(t))

Next == Main \/ (\E t \in Tasks : Goroutine(t)) \/ Same(CancelBuild)

(* Goroutines that can run do, and a call of the daemon returns, with an   *)
(* answer or an error.                                                     *)
Spec == /\ Init /\ [][Next]_vars
        /\ WF_vars(Main) /\ \A t \in Tasks : WF_vars(Goroutine(t))

-----------------------------------------------------------------------------
Built == outcome = "result"

(* What is built is the Dockerfile that was asked for, with the ignore     *)
(* rules kept beside it before those of the context.  Only "Dockerfile"    *)
(* gives way to its lower-case spelling, and a file gives way only when it *)
(* is not there (or is empty, for rules) or the daemon failed in that very *)
(* read: a read that failed because another goroutine or the client gave   *)
(* up is never taken for a missing file, although its error is dropped.    *)
LoadedIsMeant ==
    Built => /\ text \in Readable
             /\ text # Filename => /\ Filename = "Dockerfile" /\ text = "dockerfile"
                                   /\ Filename \notin Readable \/ "Dockerfile" \in lost
             /\ excludes = "ignore" => src.ignore # "none"
             /\ excludes # "ignore" => src.ignore \in {"none", "empty"} \/ "ignore" \in lost
             /\ excludes = "default" => src.default # "none" /\ ~IsNotLocalContext
             /\ excludes = "none" => \/ IsNotLocalContext \/ "default" \in lost
                                     \/ src.default \in {"none", "empty"}

(* A build is handed over at most once: the frontend a syntax directive    *)
(* names does not obey the directive again.                                *)
HandedOverOnce == forwards <= 1

(* An unknown capability is never ignored: with one, nothing is described  *)
(* or built here, and nothing is loaded unless another frontend may do.    *)
CapsHonoured == /\ opts.caps # "known" => outcome # "described" /\ main # "platforms"
                /\ opts.caps = "unsupported" => group = EG!NewGroup

(* The result is whole: every target platform has its config and its       *)
(* reference, each built for the platform it is stored under (or for the   *)
(* default one), and from one conversion unless a platform is asked for    *)
(* twice; nothing else is in it, and its platform list names its keys.     *)
ResultIsWhole ==
    Built =>
        /\ DOMAIN ref = {KeyOf(i) : i \in Targets} /\ DOMAIN config = DOMAIN ref
        /\ \A i \in Targets : /\ BuiltFor(ref[KeyOf(i)]) = BuiltFor(i)
                              /\ BuiltFor(config[KeyOf(i)]) = BuiltFor(i)
                              /\ exportMap => listed[i] = KeyOf(i)
        /\ Cardinality(DOMAIN ref) = Cardinality(Targets) => config = ref

(* Build fails with the error that stopped the others: "cancelled" is      *)
(* reported only to a client that went away.                               *)
ErrorIsCause == outcome = "cancelled" => buildCancelled

(* The client gets an answer. *)
Answers == <>(main = "done")
=============================================================================
