# A formal model of the Dockerfile frontend

TLA+ modules, TLC runs and TLAPS proofs about the Dockerfile frontend in this
repository: the program BuildKit runs to turn a Dockerfile into a build graph
(LLB). `PROJECT.json` lists the parts, the runs, the definitions with the lines
they model, the findings, the hazards and the theorems.

## The system

| Component | Source | State | Operations |
|---|---|---|---|
| line parser | `parser/parser.go`, `split_command.go` | directives, line number, comments, the node being made | `Parse`: one node per instruction, with continuations and heredocs |
| syntax detection | `dockerfile2llb/directives.go` | none | `DetectSyntax` |
| instruction line parsers | `parser/split_command.go`, `line_parsers.go` | scanner position | command and flags of one line; its arguments: JSON form, key=value, lists |
| instructions, flags | `parser/instructions` | the stage list, the ARGs before it | `Parse`, one constructor per instruction, `BFlags`, `Expand` |
| RUN flags | `parser/instructions/commands_run*.go` | flags and mounts of one RUN | `parseMount` in two passes, `parseNetwork` |
| heredocs | `parser/parser.go` 415-495, `parser_heredoc.go`, `instructions/parse.go` | the documents of a line | `heredocsFromLine`, `parseSourcesAndDest` |
| shell lexer | `parser/shell/lex.go` | scanner position, words | `ProcessWord`, `ProcessWords`: quotes, escapes, variables |
| dockerignore | `parser/dockerignore` | none | `ReadAll` |
| stage graph | `dockerfile2llb/convert.go` 133-251 and 532-716, `convert_runmount.go` 18-47 | `dispatchStates`: the list and the table of names; target | `addState`, `findStateByName`, `findStateByIndex`, linking |
| cycle check | `convert.go` 1440-1473 | `visited`, `path`, the call stack | `hasCircularDependency` |
| reachability | `convert.go` 1425-1438 | the call stack | `isReachable` |
| base image resolution | `convert.go` 264-380 | what each dispatch state gets, the errgroup | a goroutine per base image |
| dispatch and image config | `convert.go` 382-1423, `image.go`, `convert_runmount.go` | image configs, states, history, context paths | a handler per instruction, ONBUILD triggers |
| platforms, global ARGs | `platform.go`, `convert.go` 80-186 | the arguments of the platforms and the global ones | `buildPlatformOpt`, `defaultArgs`, expansion of base names and platforms |
| entry point | `builder/build.go`, `caps.go`, `subrequests.go` | the loaded files, the result | `Build` |
| process | `cmd/dockerfile-frontend` | none | starts the gateway's server |

How they meet: `Build` checks capabilities and options and finds the context.
Two goroutines load the Dockerfile and the `.dockerignore`. The syntax
directive, or a build argument, may hand the build over to another frontend,
which starts from the same request. Otherwise one goroutine per target platform
calls `Dockerfile2LLB`: line parser, instruction parser, global ARGs, stage
graph, cycle check, then a goroutine per base image, a wait, and the dispatch
loop, which expands each instruction just before it runs it. Each of these hands
its successor one value, except that

* the dispatch states are written by the goroutines and read after the wait;
* an image config is copied from base to child, and the copy shares the memory
  of the history and of the maps of labels, ports and volumes;
* an instruction is expanded in place, in an environment that the instructions
  before it have changed, and a mount is parsed a second time then;
* heredocs are found in the whole line by one lexer and found again, by name, in
  its arguments;
* the results of the platforms are stored into one `Result`.

What is hard here: the order of Go maps (both graph searches), a list that
grows while it is ranged over, a table that forgets earlier stages of a name,
parallel goroutines with cancellation, errors that are dropped, sharing through
`append`, a parser whose loops read the same scanner, and one line of text that
four scanners split, each with its own rules for quotes and escapes. `PROJECT.json` lists
each hazard at its line. Nothing is persistent in this program, so there is no
crash recovery to model; a client that goes away is modelled as a cancellation.

What makes each part correct is stated by the properties below.

## The modules

### The stage graph: `StageGraph`, `MCStageGraph`, `StageDigraph`

`states` is `dispatchStates.states`, `byName` is `statesByName`; a pointer is
the position of a state, 0 for nil. `RegisterStage`, `OverrideStage`,
`ContextError`, `BadBase` and `BadPlatform` are the ways an iteration of the
first loop may go; `PickTarget` follows it; `LinkIndex`, `LinkStage`,
`LinkImage` and `BadIndex` are one call of `toCommand` or one mount of
`detectRunMount`; `CheckCircular` is the check, which the model takes to be
exact because `CircularCheck` shows it. Names are model strings with a function
`Lower`; the parser lowers the names of stages, so only references and bases
come in other cases. A stage replaced by a named context is appended without a
name, because `ds.stage` is assigned only later.

`StageDigraph` has the mathematical notions: a cycle is a set each of whose
members leads into the set, reachability is membership in every closed set.
They need no recursion, so that the modules that use them can be proved about.

* `BaseIsNearest`, `SourcesAreStages`, `TargetIsStage`: what a FROM, a COPY
  --from and `--target` mean, although the table keeps one state per name.
* `TotalCountsPull`: the total counts a pull exactly where there is one (proved,
  not in a run).
* `CyclesGoForward`: the cycles that are let through use a later stage.
* `PositionsStable`: no state moves or is decided about again.
* `FromIgnoresCase`, `AcceptedIsAcyclic`: violated, see the findings.

### The cycle check: `CircularCheck`, `CycleVerdict`

The closure `visit` with an explicit stack. A frame holds the dependencies left
to range over, and any of them may be next, as in a Go map. `CycleVerdict` is
what the caller relies on, an answer in one step; `ImplementsVerdict` is the
refinement, with `graph <- deps`.

### Reachability: `Reachability`

`isReachable` with its stack, base first, then the dependencies in any order.
It is given what the converter has made sure of: bases are earlier, and the
dependencies alone have no cycle. A base and a dependency may still close one
(`AcceptedIsAcyclic`), and since the walk marks nothing it then recurs:
`MaxDepth` is the number of calls the stack of a goroutine has room for, and
`Overflow` is the runtime ending the program.

* `AnswerExact` compares an answer with `Reaches`.
* `CycleOverflows`: the stack overflows only when a cycle lies below the state
  the walk began at, and with such a cycle the answer is never no: a stage that
  the target does not need then ends the program instead of being left out.

### Base images: `ImageResolve`, `ErrGroup`, `ImageMetadata`

`main` walks the list and starts a goroutine for each state with an image for
its base; `ParseName`, `UseContext`, `NoContext`, `ContextError`, `UseConfig`
and `ConfigError` are the stretches between its calls of the daemon. `ErrGroup`
is the vendored errgroup as a value: the tasks, the first error, the
cancellation. `ImageMetadata` is the promise: all bases are there and nobody
writes any more, or the build failed. `ImplementsMetadata` maps `ready` to the
states with a filesystem and `outcome` to where the main thread is.

### Dispatch: `Dispatch`, `MCDispatch`

`cur` and `todo` are the loop and what is left of the triggers and then of the
instructions; there is an action per kind of instruction, with everything its
handler does, the commit to the history included. A history slice is a
reference into `arrays` with a length, and `AppendTo` is Go's append: in place
if there is capacity. A config's map is the number of the stage that made it.
`log` and `reads` are history variables. The properties compare each config
with a replay of `log`, by operators that say what an instruction means without
the handlers' order of assignments. `LayersMatch` looks at the history slice
itself, as it is read from the shared memory at the end (`Elements`), and counts
the operations the converter put on the state; that one of them changed nothing
(the `RUN ["ls"]` of `dockerfile_test.go:2969`) is found out when it runs, after
this program. It is claimed where no base has two children; the first finding is
about the others. `EnvReachesRun` lets the value of an ARG stand for that of the
image config only when the ARG is the stage's own and behind the last ENV of its
name, and `FilterCovers` looks at the paths of the triggers too.

`Instructions`, `Names`, `Plans` and `FileOps` are constants, and
`DispatchAssumption` says what a plan is: the base of a stage is an earlier one,
a stage replaced by a named context has no instructions left, a trigger is an
instruction, and a WORKDIR is a path of names. It does not say that a stage copies
from earlier ones only, because the cycle check does not see to that;
`ForwardPlans` in `MCDispatch` has such plans. `SourceIsFinal` speaks of earlier
sources, and `ScopedInChains` of the target's labels only where no stage that is
needed is based on the target (`TargetIsTip`): otherwise the build goes on
writing to the map they share after the target is finished, and TLC finds the
label of the later stage in the image.

### The entry point: `BuildFrontend`, `MCBuildFrontend`

`main` is where `Build` is; the goroutines of both groups are numbered tasks
with a program counter in `pc`. A read of a file fails if it is missing or the
context is cancelled, and otherwise may fail all the same, like every call of the
daemon. The errors of the ignore files are dropped and the Dockerfile falls back
on its lower-case name after any error, as in the code; `lost` is a history
variable, the files the daemon failed to read. `LoadedIsMeant` lets a file give
way only when it is not there or that very read failed, and never because of a
cancelled read. An empty ignore file may come back as nil, which is none
(`Contents`). The frontend a build is handed over to is taken to be this program, with
`cmdline` set, so that a loop of frontends would show.

### The line parser: `LineParser`, `MCLineParser`

A line is its kind, with what the loops of `Parse` tell apart: whether it is
indented, its last character if that is an escape token, the heredocs it opens,
the delimiter it is equal to, whether it fits the scanner's buffer. The phases
are the three loops that call the same scanner. `DetectSyntax` is beside it as
an operator over the same lines.

### From a line to an instruction: `ShellWord`, `InstructionLine`, `Heredoc`, `RunMount`, `Instructions`, `Pipeline`, `PipelineMeaning`, `PipelineInvariants`, `MCPipeline`

`LineParser` says which lines belong together; these modules say what is on
them. A line is a sequence of characters, each a model string. Two characters of
the code may be one here when no scanner tells them apart ("<<", a word of
letters such as "from").

The scanners are operators that return a record with `ok`:

| Module | Operators | Code |
|---|---|---|
| `ShellWord` | `Process`, `StopOn`, `ProcessDollar` | the lexer with all forms of a variable, `rawQuotes` and the escape token |
| `InstructionLine` | `SplitFlags`, `ParseWords`, `ParseJSON`, `NewNodeFromLine` | `splitCommand`, the dispatch table of line parsers |
| `Heredoc` | `HeredocsFromLine`, `CanContainHeredoc` | the documents a line opens |
| `RunMount` | `ReadCSV`, `ParseMount`, `ExpandMount` | `parseMount`, before and after variables are known |
| `Instructions` | `ParseInstruction`, `Expand` | `BFlags` and the constructors of the instructions, and their expansion |

`Pipeline` is the state machine over them. `phase` and `next` are which loop the
program is in and where: `ReadLine` (one `newNodeFromLine` of `parser.Parse`),
`ParseNode` (one turn of `instructions.Parse`: `AddMetaArg`, `AddStage`,
`AddCommand` or `Reject`), `ExpandGlobal` (the loop over the global ARGs),
`ExpandBase` (that over the base names and platforms), `BeginStage` and
`SkipStage` (a stage that is needed or not; which ones are is `StageGraph`'s and
`Reachability`'s matter), `Dispatch` (one instruction expanded, and what ENV and
ARG do to the environment). A Dockerfile with ARGs and no FROM ends in the phase
"panic", since `lastTarget` takes the last of no stages. `optMetaArgs` and `env` are the variables of the code; `log`
remembers the environment each stage began in and what it dispatched.

`PipelineMeaning` defines what a text means without the scanners' loops (the
mode of every character, the fields of a mount as a set, the scope of variables
as a function of how many instructions came before):

* `WordIsMeant`: the lexer keeps what is no quote or escape, splits at unquoted
  spaces and fails exactly on an open quote.
* `WordsAgree`: the words of ENV, split by one scanner and unquoted by another,
  are what the lexer reads on the whole line.
* `FlagsMeant`: the flags are the leading words with two dashes, and an accepted
  instruction has all of them.
* `MountsMeant`: a mount means the same in whatever order its keys are.
* `LinkedAsMounted`: the stage a mount is linked to is the one it is mounted
  from, after variables.
* `HeredocsUsed`: the bodies the parser reads are used by the words they were
  opened by, in that order, and a file that two of them name ends with the body
  of the last. The JSON form has no bodies; a source of it that looks like a
  heredoc is an empty file (`TestParseJSONHeredoc` has the parser's side).
* `ExpandedInScope`, `GlobalsInScope`: every variable is read in the scope of
  what came before it, in no later one and in no other stage's.

Where the scanners disagree for a reason that is in the code, the property
excuses the texts by name: flags are always split with a backslash as the
escape, only the second pass over a mount removes quotes. `LexerTests` is an assumption TLC
checks: the model's lexer on lines of `parser/shell/envVarTest` and `wordsTest`.

## The runs

Every run is `tlc -config X.cfg M`; deadlock checking is off because each of
these programs ends.

| Run | Instance | Shows |
|---|---|---|
| `circular` | all 512 graphs of 3 states | `VerdictExact`, `ReportedIsFirst`, `Terminates`, `ImplementsVerdict` |
| `stagegraph` | Dockerfiles of up to three stages over a few names in two cases | the properties listed above |
| `stagegraph_case`, `stagegraph_cycle` | the same | violations |
| `reachability` | graphs of 4 states whose dependencies have no cycle, with room for 5 calls, every `from` and `to` | `AnswerExact`, `CycleOverflows` |
| `imageresolve` | 3 states of 10 kinds | `DispatchIsReady`, `NoLateWrites`, `Terminates`, `ImplementsMetadata` |
| `dispatch` | chains, rows and siblings of up to 4 stages, each with up to a few instructions | `ConfigReplays`, `EnvReachesRun`, `TriggersFirst`, `LayersMatch`, `FilterCovers`, `StepsWithinTotal`, `SourceIsFinal`, `ScopedInChains` |
| `dispatch_history` | two stages from one base | violation |
| `buildfrontend` | requests that differ from a plain one in what one part of `Build` looks at, 2 platforms | `LoadedIsMeant`, `HandedOverOnce`, `CapsHonoured`, `ResultIsWhole`, `ErrorIsCause`, `Answers` |
| `lineparser` | all files of up to 4 lines over 17 kinds of line, files of 6 lines with heredocs in continued instructions, overlong lines | `LinesAccounted`, `ContinuationIsMeant`, `HeredocIsVerbatim` |
| `lineparser_syntax` | files of up to 3 heading lines | violation |
| `pipeline` | 15,000 Dockerfiles, in the families below | `WordIsMeant`, `WordsAgree`, `FlagsMeant`, `MountsMeant`, `LinkedAsMounted`, `HeredocsUsed`, `ExpandedInScope`, `GlobalsInScope` |

Why the bounds are enough. Three states have every shape the search for cycles
distinguishes: self loops, two-cycles, diamonds without their tip, a cycle
behind an earlier finished state; the theorems below hold for any number. Four
states give the reachability walk two different paths to one state, which is
what a walk without marks could get wrong. Three goroutines give one that
fails, one that is cancelled by it and one that had already finished. Four lines
are an instruction, what is inside or after it, and its end, under a directive. A
Dockerfile of three stages has a name overwritten between a FROM and a COPY
--from.

The families of `MCPipeline` are complete up to a length each: all texts of up
to four characters behind `ENV a=` over a letter, a space, both quotes, the
escape and an equals sign; up to three of 13 words in front of a COPY; a mount's
type with up to two of 21 fields; up to three of 17 words with and without
heredocs; every instruction with each of 12 arguments, most of them JSON forms,
ADD, COPY and RUN also with JSON lists of up to two words of which some look like
heredocs; up to three instructions, or two global ARGs, over a few variables, with build
arguments and platforms. A quote needs three characters to open, hold something
and close, and a fourth shows what comes after it; two fields are the least that
can be swapped, after a type; three instructions are the least in which one can
see what another set and a third changes it.

The bounds by name: `N`, `MaxDepth` (calls on the stack of `isReachable`; one more
than there are states, so that a walk without a cycle never meets it by
accident), `MaxPlatforms` (target platforms),
`MaxForwards` (frontends in a row; 2, so that a second one is possible), the
`spare` capacity of a history slice (0 to 2), and the sets of Dockerfiles,
plans, requests and files in the MC modules.

Fairness. `CircularCheck` is sequential code that takes a step whenever it has
one. In `ImageResolve` and `BuildFrontend` the main thread and each goroutine
are weakly fair: Go runs a goroutine that can run, and a call of the daemon
returns, with an answer or an error. No fairness is assumed of the client's
cancellation, of failures or of successes, and none in the other modules,
which check safety only.

## Findings

1. `HistoryScoped`: `clone` lets a child's history share the memory of its
   base, and `commitToHistory` appends to it. With spare capacity, two stages
   from one base write to the same place, and the exported history of one has
   an entry of the other. `dockerfile_test.go:2900` wants it scoped to a stage.
   The Labels, ExposedPorts and Volumes maps are shared the same way
   (`OwnKeys`); `ScopedInChains` shows that nothing is wrong where no base has
   two children and no stage that is needed is based on the target. The latter
   is possible because of finding 3.
2. `FromIgnoresCase`: FROM looks up its base name as it is spelled, in a table
   with keys in lower case; COPY --from lowers it. A name that is not found is
   taken for an image, and an image's name may have no upper case
   (`reference.ParseNormalizedNamed`, `convert.go:282`), so the build fails.
   `parser/instructions/commands.go:495` has stage names case-insensitive.
3. `AcceptedIsAcyclic`: the cycle check does not follow bases.
   `CyclesGoForward` says which cycles that leaves, and `CycleOverflows` what
   they do to `isReachable`.
4. `SyntaxIsDirective`: after `# key = value` with another key the parser takes
   what follows for comments, while `DetectSyntax` goes on and chooses the
   frontend by it.

## What is proved

The proofs are for all values of the constants: any number of states and any
graph for `CircularCheck`; any set of Dockerfiles, names and contexts that
satisfy `NameAssumption` and `DockerfileAssumption` for `StageGraph`. The
assumptions are that lowering is idempotent and keeps "scratch", that the
parser has lowered the names of stages, and that a Dockerfile has a stage.

`CircularCheck_proofs`. That a dependency met on the path closes a cycle needs
the stack to be a path of the graph (`PathInv`). That the answer "acyclic" is
right needs more: what the search has left is closed under dependencies and
acyclic (`FinishedIsAcyclic`), which is preserved by a return only because all
a frame has ranged over is finished (`RangedInv`), and covers the graph at the
end because the roots up to `root` were visited (`VisitedInv`). `FinishOne` is
the lemma on graphs: one more node whose successors lie in an acyclic closed
set. From `Invariance` follow `TypeCorrect`, `Exact`, `PathCorrect`, and
`Refinement`: the two answering actions map to `Answer`, all others stutter.

`StageGraph_proofs`. The properties speak of all stages of a name, the code of
one table, so the invariant says what the table is: a name leads to the last
state registered under it (`Table`). `Nearest` then follows when a state is
registered and is kept because later states come after it; `SourcesRight` and
`TargetRight` are right when they are made because no name is registered any
more by then. `Shape` and `Unlinked` say where the loops are, `FullyLinked` that
the check sees all dependencies. `RegisterInv`, `GrowInv`, `SameListInv` and
`FailInv` are the four ways a step changes the list. `ForwardCycles` takes the
least member of a set that leads into itself: since bases are earlier, it has a
dependency on a later one.

`ReportedIsFirst` (theorem `Reported`) needs two more facts: the frame at the
bottom of the stack is the stage whose turn it is (`RootInv`), and a stage that
leads to the cycle cannot have been finished before, because what is finished is
closed and acyclic (`FinishedReachesNone`).

`Reachability_proofs`, for any number of states and every graph whose
dependencies have no cycle, with room on the stack for as many calls as there
are states. The calls in progress are a path from the state the walk began at
(`PathInv`), so that more calls than states repeat one, which is a cycle
(`LongPath`, `Overflows`); and below a call that has returned there is none
(`NoCycleBelow`), so that "no" is never answered with one. `LeftInv` says of
every edge of a call in progress that it is still to be followed, is being
followed, or leads nowhere; by the lemma `DeadEnd` a state whose edges all lead
nowhere does not reach the one looked for, so that the answer is exact
(`Exact`, from `EmptyInv`).

`ImageResolve_proofs`, for any number of states of any kinds, with the
assumption that the nil error is none of the errors a goroutine returns.
`GroupInv` ties the errgroup to the goroutines' counters, `DoneInv` says that
one that has returned has done its work unless the group has an error, and
`ScratchInv` and `NeededInv` are about the states without a goroutine and those
nobody needs. When the main thread is past the wait (`MainInv`) all have
returned, which gives `DispatchReady`, `NoLate` and, with `ready` and `outcome`
mapped as in `ImplementsMetadata`, `Refinement`.

`BuildFrontend_proofs`, for any set of requests and sources and any number of
platforms, with the same assumption about errors. `CauseInv`: a context is
cancelled only after an error or when the client has left, so the first error
of a group is a cancellation only if the client left (`CauseReported`).
`OptsInv`: the second frontend has the command line of the first (`Once`).
`CapsInv`: with an unknown capability the main thread never gets to the answers
(`Caps`). `FileInv`: what each loading goroutine has read once it is past it, or
which read the daemon failed in, as long as nobody cancelled; a cancelled read leaves an error in the group or a
client that is gone, and then no platform is solved, which is why a build that
succeeds has what is meant (`LoadedMeant`). `WholeInv`: what is stored under a
key was made by a platform with that key, and each platform's part is there once
its goroutine is past it; `ResultWhole` follows since keys of different results
differ unless a platform is asked for twice (a surjection between finite sets
of one size is injective).

`LineParser_proofs`, for any set of files of any length, with any number of
heredocs. The properties speak of finished nodes; the invariant says what a node
is while it is being made. `HeadInv`: the escape token is that of the directives
read so far, and once a line is no directive there are no more. `Joined` and
`Instruction`: the pieces of a node are joined by that token, with comments and
blank lines in between. `Reading`: each body is the lines from where the
instruction or the heredoc before it ended, and none of them is a delimiter yet.
`Split` and `GapInv` account for the lines within a node and between nodes, and
`ChildrenInv` keeps all that for the nodes made, which gives
`ContinuationTheorem`, `HeredocTheorem` and `LinesTheorem`. All of it but
`HeadInv` is claimed of parses that may still succeed (`Good`): behind an
overlong line the scanner may hand over the rest of its buffer as a line, and
the parse fails at the end. `FlattenTyped` and the lemmas on `Before` are what the
recursion over heredocs needs.

`Dispatch_proofs`, for any plans, of any number of stages and instructions, from
`DispatchAssumption` alone. It goes in three parts.

* What the meanings of a list of instructions do when one more is appended: the
  k-th of those picked (`KthAppend`, `PickedAppend`), the last of a kind
  (`SetValueAppend`), and from these `CmdAppend`, `EntrypointAppend`,
  `EnvAppend`, `KeysAppend`, `HistoryAppend`, `LayersAppend`, `OnBuildAppend`;
  `WorkdirAppend` is about a recursive function, which exists and is unique by
  the lemma `Recursion`.
* What the handlers have in common: `Handler` describes a step of any of them by
  the entry it leaves in `log`, the slot it appends to the history, and the config
  it makes of the one before; there is a lemma for each (`WorkdirStep`, `RunStep`
  and so on), and `HandlerStep` for all.
* The invariant. `ReplayInv` and `StartedInv` say of every stage at every moment
  what `ConfigReplays` and `EnvReachesRun` say of finished ones; the environment
  needs the second, since an ARG of the base must be gone when a stage begins.
  `FreshInv` is that a stage not begun is as it was resolved, `LogInv` that the
  entries of a stage are behind those of its bases, so that what is its own is
  the end of the list. `TodoInv`, `OverInv` and `OrderInv` relate what is left
  of the triggers and instructions to what has run. `CountInv` ties the steps to
  the layers, `ReadInv` the reads to the layers of what was read. The memory:
  `ArrayInv` says where slices point, and `SliceInv` that each has the history of its own
  log, which an append keeps only because, of two stages with the same array, the
  later is based on the earlier and at least as long. The same goes for the
  maps: `OwnerInv`, and `MapInv` in two parts, `Sharing` (two stages with one map
  are in one row of bases) and `Scoped` (the map of the last of the row has its
  keys). Both are claimed only without siblings, as the first finding requires.

`DispatchInvariant` is the invariant; the eight properties of the run follow
from it, one theorem each.

`Pipeline_proofs`, for any set of Dockerfiles, of any number of lines of any
length over any characters, from `FilesAssumption`: the escape token is one of
the two, no character is the end of the text, and an environment is a function.
The scanners are folds and recursive functions; `FoldRuns` says what a fold is
by the states it passes, `SubsetRecursion` that such a recursion has a solution.
The invariants of the state are in a module of their own, `PipelineInvariants`.

* `Shape` is the type invariant, as far as it is needed: which node each line has
  become, and which instruction each command of a stage is.
* The scopes. `InScope` says that `env` is what the instructions dispatched so
  far assign (`VariablesInScope`), `GlobalInv` which ARGs are global while the
  file is parsed, and what each of the three loops has done of what
  `GlobalsInScope` says (`GlobalsInTheirScope`). The code overwrites an
  environment pair by pair, the property asks for the last pair of a name:
  `PutsAssign` and `AssignStep` are what they share.
* The mounts. `MountLinked` follows both passes of `parseMount` field by field; the
  first may give up at a variable, and then what it has is what the second keeps,
  unless quotes or escapes are taken off on the way (`PlainText`), which is what
  `MountedFromItsLink` excuses. `MountsAsMeant` is by `DescribedNext`: after i fields, `m` says
  what the first i fields say, each key once, or one of them does not fit.
* The lexer. `LexedAsMeant` compares `ReadFrom`, which recurses for what is quoted,
  with the modes of the characters: reading from a position where the mode is
  plain (`PlainRead`) or double (`InsideRead`) goes on to where that ends, and adds
  to text and words what is marked on the way (`Marked`); both are proved by
  induction on the characters that are left. `WordsAsMeant` follows.
* The two parsers of ENV. `ParsesAlike` says what `parseWords` has done after i
  characters, in terms of the modes and marks of the lexer: it is inside of quotes
  or behind an escape where the lexer is, its word began outside of quotes, and
  the words before it, each read by itself, are those of the lexer, provided that
  each ends outside of quotes. `Segment` is why: a part of a text that begins
  outside of quotes is read alone as it is in the text. The proviso is met because
  each name and each value was read without an error when it was dispatched
  (`AtEquals` puts them together again). `EnvWordsAgree` follows.

The proof of `WordsAsMeant` found a fault in `NextMode`: of a quote behind an
escape inside of double quotes two arms of the CASE spoke, with different modes.
TLC takes the first, which is the one that was meant; the arms are disjoint now.

`Dispatch_proofs`, `LineParser_proofs` and `Pipeline_proofs` begin with what stands
in for the induction theorems of the library, which take an operator and cannot
be instantiated by the provers used: induction stated of a set of numbers
(`SetInduction`, by the least number of a nonempty set), and that a recursion
over 1..n has a solution (`Recursion`).

Only model-checked: liveness (`Terminates`, `Answers`), since the prover has no
rules for fairness and ENABLED; and two properties that relate two scanners of
one text. `FlagsMeant` and `HeredocsUsed` need what `EnvWordsAgree` needs of
`parseWords`, of `extractBuilderFlags` and of the lexer with `rawQuotes`, and are claims
about texts that the code itself reads differently but for the cases excused.
The two inductive invariants above were checked by TLC, on
the instances of the `dispatch` run and of the `lineparser` run (with at most
three lines outside of the nested and overlong files).
The type invariants, `PathIsStack` and `TotalCountsPull` are proved and not in the runs.

## What is not modelled

* Characters of more than one byte, upper case in commands and keys, numbers and
  durations beyond being one or not, and the words of a glob.
* `--security`, which a build tag adds, and flags that are true without a value
  (`--link`); the heredocs, which another tag adds, are modelled as built with it.
* The chomping of heredoc bodies (that a chomped one ends at an indented
  delimiter is modelled), and the sort of EXPOSE's ports.
* LLB itself: an instruction adds a layer or not, and reads its sources.
* The kinds of remote contexts beyond where their Dockerfile is; proxies, cache
  imports, entitlements, attestation of build information, and how a named
  context is resolved (`contextByName`), whose outcome is an input.
* More than one build platform: the frontend uses the first.
* `dockerignore.ReadAll`: one pass over lines without state, each trimmed and
  cleaned by itself.
* The wording of errors and warnings, suggestions, progress groups, and the line
  numbers of nodes beyond their order.
* A trigger that names a stage, or that was written under another escape token:
  see the hazard at `convert.go:731`.

## Plan

Done, in this order: `StageGraph` and `CircularCheck` with their proofs,
`Reachability`, `ImageResolve`, `Dispatch`, `BuildFrontend`, `LineParser`; then
`ShellWord`, `InstructionLine`, `Heredoc`, `RunMount`, `Instructions` and
`Pipeline`; then the proofs about `Reachability`, `ImageResolve`,
`BuildFrontend` and `ReportedIsFirst`; then those about `LineParser` and
`Dispatch`; then, with the scanners as recursive functions and folds, those about
`Pipeline`.

Next:

1. `Converter`: `Pipeline`, `StageGraph` and `Dispatch` composed, so that plans
   are what the text makes, with triggers that name stages.
2. `contextByName`, and the filter of the context with dockerignore.
3. Proofs of `FlagsMeant` and `HeredocsUsed`, along the lines of `EnvWordsAgree`.
4. That `Dispatch` ends, under fairness, as a property of its run.
