------------------------------ MODULE Pipeline ------------------------------
(***************************************************************************)
(* A Dockerfile from its lines to what its instructions say when they are  *)
(* dispatched: parser.Parse makes nodes (without its lines, see            *)
(* LineParser), instructions.Parse makes stages, and Dockerfile2LLB        *)
(* expands the global ARGs, the base names and platforms, and then, stage  *)
(* by stage, each instruction in the environment the earlier ones left.    *)
(*                                                                         *)
(* Which stage is based on which is StageGraph's subject and what the      *)
(* instructions do to an image is Dispatch's: a stage here begins in any   *)
(* environment its base may have, and only ENV and ARG change it.          *)
(***************************************************************************)
EXTENDS Instructions

(* A file has its escape token, its logical lines with the bodies of the    *)
(* heredocs on each, the build arguments and platforms it is built with,   *)
(* and the environments a base may have.  Files is a set of sets of files. *)
CONSTANT Files

ASSUME FilesAssumption ==
    \A family \in Files : \A f \in family :
        /\ f.escape \in {Backslash, Backtick}
        /\ f.lines \in Seq(ToSet(f.lines))
        /\ \A i \in DOMAIN f.lines : f.lines[i].text \in Seq(STRING \ {EOF})
        /\ \A e \in f.bases : e = [n \in DOMAIN e |-> e[n]]

VARIABLES file,
          phase,      \* "lines", "parse", "globals", "bases", "dispatch", "done"; "failed", or "panic"
          next,       \* position in the lines, the nodes, the global ARGs, the stages, the commands
          nodes,      \* what parser.Parse made of each line, with its heredocs
          metaArgs,   \* the ARGs before the first FROM
          stages,     \* [name, base, platform, commands] each
          optMetaArgs,\* [key, value, set]: the arguments of the platforms and the global ones
          env,        \* of the stage being dispatched
          log         \* per stage begun or passed over: the environment it began in, and what it dispatched

vars == <<file, phase, next, nodes, metaArgs, stages, optMetaArgs, env, log>>

Lex == NewLex(file.escape)

-----------------------------------------------------------------------------
(* Platforms (platform.go): [os, arch, variant], or none asked for         *)
Format(p) == <<p.os, "/", p.arch>> \o (IF p.variant = <<>> THEN <<>> ELSE <<"/">> \o p.variant)

DefaultPlatform == [os |-> "linux", arch |-> "amd", variant |-> <<>>]

\* buildPlatformOpt: target and build are sequences of at most one platform here
BuildPlatform(f) == IF f.build # <<>> THEN f.build[1] ELSE IF f.target # <<>> THEN f.target[1] ELSE DefaultPlatform
TargetPlatform(f) == IF f.target # <<>> THEN f.target[1] ELSE BuildPlatform(f)

\* platforms.Parse: one to three names
ParsesAsPlatform(text) ==
    LET Slashes == {i \in DOMAIN text : text[i] = "/"}
    IN  /\ text # <<>> /\ Cardinality(Slashes) <= 2
        /\ \A i \in DOMAIN text : text[i] = "/" \/ text[i] \notin Punctuation \/ text[i] \in Digits
        /\ \A i \in Slashes : i > 1 /\ i < Len(text) /\ (i + 1) \notin Slashes

KV(key, value) == [key |-> key, value |-> value, set |-> TRUE]

GetPlatformArgs(f) ==
    LET bp == BuildPlatform(f)
        tp == TargetPlatform(f)
    IN  <<KV(<<"BUILDPLATFORM">>, Format(bp)), KV(<<"BUILDOS">>, <<bp.os>>), KV(<<"BUILDARCH">>, <<bp.arch>>),
          KV(<<"BUILDVARIANT">>, bp.variant),
          KV(<<"TARGETPLATFORM">>, Format(tp)), KV(<<"TARGETOS">>, <<tp.os>>), KV(<<"TARGETARCH">>, <<tp.arch>>),
          KV(<<"TARGETVARIANT">>, tp.variant)>>

\* a build argument of that name is the value, as it was given
SetKVValue(kv, buildArgs) ==
    IF kv.key \in DOMAIN buildArgs THEN KV(kv.key, buildArgs[kv.key]) ELSE kv

Define(e, key, value) == [n \in DOMAIN e \cup {key} |-> IF n = key THEN value ELSE e[n]]

MetaArgsToMap(args) == FoldLeft(LAMBDA e, kv : Define(e, kv.key, kv.value), NoEnv, args)

\* the names of an ARG, as they are spelled at that moment
ArgPairs(ins) == [i \in DOMAIN ins.sets |->
                    [key |-> ins.words[2 * i - 1], value |-> ins.words[2 * i], set |-> ins.sets[i]]]

-----------------------------------------------------------------------------
Init ==
    /\ \E family \in Files : file \in family
    /\ phase = "lines"
    /\ next = 1
    /\ nodes = <<>>
    /\ metaArgs = <<>> /\ stages = <<>>
    /\ LET args == GetPlatformArgs(file)
       IN  optMetaArgs = [i \in DOMAIN args |-> SetKVValue(args[i], file.buildArgs)]
    /\ env = NoEnv
    /\ log = <<>>

Fail == phase' = "failed" /\ UNCHANGED <<file, next, nodes, metaArgs, stages, optMetaArgs, env, log>>

-----------------------------------------------------------------------------
(* parser.Parse: the node of each line; the bodies of its heredocs follow  *)
(* the line                                                                *)
WithDocs(node, found, bodies) ==
    [ok |-> node.ok /\ found.ok, cmd |-> node.cmd, flags |-> node.flags, args |-> node.args, json |-> node.json,
     docs |-> [k \in DOMAIN found.docs |-> [name |-> found.docs[k].name, body |-> bodies[k]]]]

NodeOf(line, escape) ==
    LET Node(node) ==
            WithDocs(node, IF CanContainHeredoc(node, escape) THEN HeredocsFromLine(line.text) ELSE [ok |-> TRUE, docs |-> <<>>],
                     line.bodies)
    IN  Node(NewNodeFromLine(line.text, escape))

ReadLine ==
    /\ phase = "lines" /\ next <= Len(file.lines)
    /\ \E node \in {NodeOf(file.lines[next], file.escape)} :
         \/ /\ node.ok
            /\ nodes' = Append(nodes, node)
            /\ next' = next + 1
            /\ UNCHANGED <<file, phase, metaArgs, stages, optMetaArgs, env, log>>
         \/ ~node.ok /\ Fail

EndOfLines ==
    /\ phase = "lines" /\ next > Len(file.lines)
    /\ phase' = "parse" /\ next' = 1
    /\ UNCHANGED <<file, nodes, metaArgs, stages, optMetaArgs, env, log>>

-----------------------------------------------------------------------------
(* instructions.Parse, one node at a time                                  *)
\* mutation of AddMetaArg: the ARGs of the stages are global too
AddMetaArgAnywhere(ins) ==
    /\ ins.name = "arg"
    /\ metaArgs' = metaArgs \o ArgPairs(ins)
    /\ next' = next + 1
    /\ UNCHANGED <<file, phase, nodes, stages, optMetaArgs, env, log>>

AddMetaArg(ins) ==
    /\ ins.name = "arg" /\ stages = <<>>
    /\ metaArgs' = metaArgs \o ArgPairs(ins)
    /\ next' = next + 1
    /\ UNCHANGED <<file, phase, nodes, stages, optMetaArgs, env, log>>

NewStage(ins) ==
    [base |-> ins.words[1], name |-> IF Len(ins.words) = 3 THEN ins.words[3] ELSE <<>>,
     platform |-> FlagValue(ins.flags, <<"platform">>, <<>>), commands |-> <<>>, lines |-> <<>>]

AddStage(ins) ==
    /\ ins.name = "from"
    /\ stages' = Append(stages, NewStage(ins))
    /\ next' = next + 1
    /\ UNCHANGED <<file, phase, nodes, metaArgs, optMetaArgs, env, log>>

\* CurrentStage and AddCommand
AddCommand(ins) ==
    /\ ins.ok /\ ins.name # "from" /\ stages # <<>>
    /\ stages' = [stages EXCEPT ![Len(stages)].commands = Append(@, ins),
                                ![Len(stages)].lines = Append(@, next)]
    /\ next' = next + 1
    /\ UNCHANGED <<file, phase, nodes, metaArgs, optMetaArgs, env, log>>

\* a node that is refused, or an instruction without a stage
Reject(ins) ==
    /\ ~ins.ok \/ (stages = <<>> /\ ins.name \notin {"arg", "from"})
    /\ Fail

ParseNode ==
    /\ phase = "parse" /\ next <= Len(nodes)
    /\ \E ins \in {ParseInstruction(nodes[next])} :
         AddMetaArg(ins) \/ AddStage(ins) \/ AddCommand(ins) \/ Reject(ins)

EndOfFile ==
    /\ phase = "parse" /\ next > Len(nodes)
    /\ phase' = "globals" /\ next' = 1
    /\ UNCHANGED <<file, nodes, metaArgs, stages, optMetaArgs, env, log>>

-----------------------------------------------------------------------------
(* Dockerfile2LLB: the global ARGs in their order; the error of an         *)
(* expansion is dropped, and the value is then empty                       *)
ExpandGlobal ==
    /\ phase = "globals" /\ next <= Len(metaArgs)
    /\ LET arg == metaArgs[next]
           value == Process(Lex, MetaArgsToMap(optMetaArgs), arg.value).text
       IN  optMetaArgs' = Append(optMetaArgs, SetKVValue([arg EXCEPT !.value = value], file.buildArgs))
    /\ next' = next + 1
    /\ UNCHANGED <<file, phase, nodes, metaArgs, stages, env, log>>

EndOfGlobals ==
    /\ phase = "globals" /\ next > Len(metaArgs)
    /\ phase' = "bases" /\ next' = 1
    /\ UNCHANGED <<file, nodes, metaArgs, stages, optMetaArgs, env, log>>

\* the base name of the next stage and its platform, in the scope of all global ARGs
IsGoodBase(stage, base, platform) ==
    /\ base.ok /\ base.text # <<>>
    /\ stage.platform = <<>> \/ (platform.ok /\ ParsesAsPlatform(platform.text))

NameBase(base, platform) ==
    /\ IsGoodBase(stages[next], base, platform)
    /\ stages' = [stages EXCEPT ![next].base = base.text, ![next].platform = platform.text]
    /\ next' = next + 1
    /\ UNCHANGED <<file, phase, nodes, metaArgs, optMetaArgs, env, log>>

ExpandBase ==
    /\ phase = "bases" /\ next <= Len(stages)
    /\ \E scope \in {MetaArgsToMap(optMetaArgs)} :
         \E base \in {Process(Lex, scope, stages[next].base)}, platform \in {Process(Lex, scope, stages[next].platform)} :
           \/ NameBase(base, platform)
           \/ ~IsGoodBase(stages[next], base, platform) /\ Fail

\* lastTarget of no stages: an index of -1
NoStage ==
    /\ phase = "bases" /\ stages = <<>>
    /\ phase' = "panic"
    /\ UNCHANGED <<file, next, nodes, metaArgs, stages, optMetaArgs, env, log>>

-----------------------------------------------------------------------------
(* The loop over the stages: one that is needed begins in the environment  *)
(* of its base, any other but the last, the target, is passed over         *)
Between ==
    \/ phase = "bases" /\ stages # <<>> /\ next > Len(stages)
    \/ phase = "dispatch" /\ next > Len(stages[Len(log)].commands)

BeginStage ==
    /\ Between
    /\ Len(log) < Len(stages)
    /\ \E e \in file.bases :
         /\ env' = e
         /\ log' = Append(log, [began |-> e, done |-> <<>>])
    /\ phase' = "dispatch" /\ next' = 1
    /\ UNCHANGED <<file, nodes, metaArgs, stages, optMetaArgs>>

SkipStage ==
    /\ Between
    /\ Len(log) + 1 < Len(stages)
    /\ env' = NoEnv
    /\ log' = Append(log, [began |-> NoEnv, done |-> <<>>])
    /\ phase' = "dispatch" /\ next' = Len(stages[Len(log) + 1].commands) + 1
    /\ UNCHANGED <<file, nodes, metaArgs, stages, optMetaArgs>>

\* dispatchEnv: the pairs one after the other
AfterEnv(e, ins) ==
    FoldLeft(LAMBDA acc, i : Define(acc, ins.words[2 * i - 1], ins.words[2 * i]),
             e, [i \in 1 .. Len(ins.words) \div 2 |-> i])

\* mutation of ArgValue: the first global ARG of that name
ArgValueFirst(arg, globals, buildArgs) ==
    LET own == SetKVValue(arg, buildArgs)
        same == {i \in DOMAIN globals : globals[i].key = arg.key}
    IN  IF own.set \/ same = {} THEN own ELSE globals[Min(same)]

\* the value of an ARG: the build argument, its own, or the last global one of that name
ArgValue(arg, globals, buildArgs) ==
    LET own == SetKVValue(arg, buildArgs)
        same == {i \in DOMAIN globals : globals[i].key = arg.key}
    IN  IF own.set \/ same = {} THEN own ELSE globals[Max(same)]

\* dispatchArg
AfterArg(e, ins) ==
    LET Add(acc, arg) == LET a == ArgValue(arg, optMetaArgs, file.buildArgs)
                         IN  IF a.set THEN Define(acc, a.key, a.value) ELSE acc
    IN  FoldLeft(Add, e, ArgPairs(ins))

EnvAfter(e, ins) ==
    CASE ins.name = "env" -> AfterEnv(e, ins)
      [] ins.name = "arg" -> AfterArg(e, ins)
      [] OTHER -> e

Command == stages[Len(log)].commands[next]
Dispatching == phase = "dispatch" /\ next <= Len(stages[Len(log)].commands)

Dispatch ==
    /\ Dispatching
    /\ \E ins \in {Expand(Command, Lex, env)} :
         \/ /\ ins.ok
            /\ env' = EnvAfter(env, ins)
            /\ log' = [log EXCEPT ![Len(log)].done = Append(@, ins)]
            /\ next' = next + 1
            /\ UNCHANGED <<file, phase, nodes, metaArgs, stages, optMetaArgs>>
         \/ ~ins.ok /\ Fail

EndOfStages ==
    /\ phase = "dispatch" /\ Between /\ Len(log) = Len(stages)
    /\ phase' = "done"
    /\ UNCHANGED <<file, next, nodes, metaArgs, stages, optMetaArgs, env, log>>

Next ==
    \/ ReadLine \/ EndOfLines \/ ParseNode \/ EndOfFile
    \/ ExpandGlobal \/ EndOfGlobals \/ ExpandBase \/ NoStage
    \/ BeginStage \/ SkipStage \/ Dispatch \/ EndOfStages

Spec == Init /\ [][Next]_vars
=============================================================================
