------------------------- MODULE PipelineInvariants -------------------------
(***************************************************************************)
(* The inductive invariants of Pipeline: what its properties rest on, and  *)
(* what they are stated with.                                              *)
(***************************************************************************)
EXTENDS PipelineMeaning

-----------------------------------------------------------------------------
(* Environments: what a list of assignments leaves                         *)

\* one assignment, of a name that may have no value
Put(e, kv) == IF kv.set THEN Define(e, kv.key, kv.value) ELSE e

\* the assignments at the positions S, by the last one to each name
SettersIn(kvs, S, name) == {i \in S : kvs[i].key = name /\ kvs[i].set}
AssignIn(old, kvs, S) ==
    [n \in DOMAIN old \cup {kvs[i].key : i \in {i \in S : kvs[i].set}} |->
        IF SettersIn(kvs, S, n) = {} THEN old[n] ELSE kvs[Max(SettersIn(kvs, S, n))].value]
Environment(e) == e = [n \in DOMAIN e |-> e[n]]

-----------------------------------------------------------------------------
(* Texts, and sequences of whatever they have                              *)

\* the provers do not know that a literal is a string
Chars == (STRING \ {EOF}) \cup {Space, Backslash, Backtick}
Texts == Seq(Chars)

Sequence(s) == s \in Seq(ToSet(s))

-----------------------------------------------------------------------------
(* Commands, and what they assign                                          *)

(* A command: an instruction whose words and settings fit together.        *)
InstructionFields == {"ok", "name", "flags", "contents", "files", "words", "mounts", "sets"}
IsCommand(ins) ==
    /\ DOMAIN ins = InstructionFields
    /\ ins.name \in {"env", "arg"} => Sequence(ins.words)
    /\ ins.name = "arg" =>
         \E n \in Nat : /\ DOMAIN ins.sets = 1 .. n /\ Len(ins.words) = 2 * n
                        /\ \A i \in 1 .. n : ins.sets[i] \in BOOLEAN

\* arguments: each has a name, a value, and whether it is set
ArgFields == {"key", "value", "set"}
Arguments(args) ==
    /\ Sequence(args)
    /\ \A i \in 1 .. Len(args) : DOMAIN args[i] = ArgFields /\ args[i].set \in BOOLEAN

(* The meaning of an assignment, of the global arguments and the file.     *)
Text(f, scope, s) == Process(NewLex(f.escape), scope, s).text
MeantBy(f, globals, name, set, value) ==
    LET same == {i \in DOMAIN globals : globals[i].key = name}
    IN  IF name \in DOMAIN f.buildArgs THEN KV(name, f.buildArgs[name])
        ELSE IF set \/ same = {} THEN [key |-> name, value |-> value, set |-> set]
        ELSE globals[Max(same)]
AssignedBy(f, globals, ins, scope) ==
    [i \in 1 .. Len(ins.words) \div 2 |->
        CASE ins.name = "env" -> KV(Text(f, scope, ins.words[2 * i - 1]), Text(f, scope, ins.words[2 * i]))
          [] ins.name = "arg" -> MeantBy(f, globals, Text(f, scope, ins.words[2 * i - 1]), ins.sets[i],
                                         Text(f, scope, ins.words[2 * i]))]
ScopeAfter(f, globals, ins, scope) ==
    IF ins.name \notin {"env", "arg"} THEN scope
    ELSE AssignIn(scope, AssignedBy(f, globals, ins, scope), 1 .. Len(ins.words) \div 2)

-----------------------------------------------------------------------------
(* The shape of the state: which node each line has become, and which      *)
(* instruction each command of a stage is.                                 *)
FileGiven ==
    /\ file.escape \in {Backslash, Backtick} /\ file.escape \in Chars
    /\ Sequence(file.lines) /\ \A i \in 1 .. Len(file.lines) : file.lines[i].text \in Texts
    /\ \A e \in file.bases : Environment(e)
Position == next \in Nat \ {0}
NodesMade ==
    /\ Sequence(nodes) /\ Len(nodes) <= Len(file.lines)
    /\ \A i \in 1 .. Len(nodes) : nodes[i] = NodeOf(file.lines[i], file.escape)
    /\ phase = "lines" => Len(nodes) = next - 1 /\ stages = <<>>
ArgsMade == Arguments(metaArgs) /\ Arguments(optMetaArgs)
StageFields == {"base", "name", "platform", "commands", "lines"}
StageMade(s, ns) ==
    /\ DOMAIN s = StageFields
    /\ Sequence(s.commands) /\ Sequence(s.lines) /\ Len(s.lines) = Len(s.commands)
    /\ \A c \in 1 .. Len(s.commands) :
         s.lines[c] \in 1 .. Len(ns) /\ s.commands[c].ok /\ s.commands[c] = ParseInstruction(ns[s.lines[c]])
StagesMade == Sequence(stages) /\ \A k \in 1 .. Len(stages) : StageMade(stages[k], nodes)
LogMade ==
    /\ Sequence(log) /\ Len(log) <= Len(stages)
    /\ \A k \in 1 .. Len(log) : DOMAIN log[k] = {"began", "done"} /\ Sequence(log[k].done)
    /\ phase \in {"lines", "parse", "globals", "bases"} => log = <<>>
    /\ phase = "dispatch" => log # <<>>
    /\ phase = "dispatch" /\ next <= Len(stages[Len(log)].commands) => Len(Done) = next - 1
Shape == FileGiven /\ Position /\ NodesMade /\ ArgsMade /\ StagesMade /\ LogMade

(* What has been dispatched of a stage are its first commands, and none of *)
(* them is refused.                                                        *)
GoodSoFar ==
    log # <<>> => \A j \in 1 .. Len(Done) : j <= Len(stages[Len(log)].commands) /\ Done[j].ok

-----------------------------------------------------------------------------
(* Variables in their scope.  The scope before each instruction exists as  *)
(* far as instructions are done, and it is what the definition says: no    *)
(* type of the values needs to be known.                                   *)
IsScope(sc, f, globals, began, commands, n) ==
    sc = [j \in 0 .. n |-> IF j = 0 THEN began ELSE ScopeAfter(f, globals, commands[j], sc[j - 1])]
ReadInScope(sc, f, commands, done) ==
    \A j \in DOMAIN done : done[j] = Expand(commands[j], NewLex(f.escape), sc[j - 1])
InScope ==
    log # <<>> =>
        /\ Environment(env)
        /\ \E sc : /\ IsScope(sc, file, optMetaArgs, log[Len(log)].began, stages[Len(log)].commands, Len(Done))
                   /\ ReadInScope(sc, file, stages[Len(log)].commands, Done)
                   /\ env = sc[Len(Done)]

-----------------------------------------------------------------------------
(* The global ARGs: those before the first FROM, in their order            *)

\* the value of a name that is declared; a global ARG on top of the ones before it
Given(f, n, value) == IF n \in DOMAIN f.buildArgs THEN f.buildArgs[n] ELSE value
ExtendedBy(f, old, arg) ==
    [n \in DOMAIN old \cup {arg.key} |-> IF n # arg.key THEN old[n] ELSE Given(f, n, Text(f, old, arg.value))]
PlatformScope(f) ==
    LET platform == MetaArgsToMap(GetPlatformArgs(f))
    IN  [n \in DOMAIN platform |-> Given(f, n, platform[n])]

(* What the parser has read so far, and what it has made of it.            *)
Reading == phase \in {"lines", "parse", "globals", "bases"}
Parsed == IF phase = "lines" THEN 0 ELSE IF phase = "parse" THEN next - 1 ELSE Len(nodes)
ArgsAt(ns, i) == ArgPairs(ParseInstruction(ns[i]))
FromsUpto(ns, p) == {h \in 1 .. p : ns[h].cmd = "from"}
PositionsRead ==
    /\ phase = "lines" => metaArgs = <<>>
    /\ phase = "parse" => next <= Len(nodes) + 1
    /\ phase = "globals" => next <= Len(metaArgs) + 1
IsGlobals(ns, p, args, g) ==
    /\ g \in 0 .. p
    /\ \A i \in 1 .. g : ns[i].cmd # "from" /\ Arguments(ArgsAt(ns, i))
    /\ args = FlattenSeq([i \in 1 .. g |-> ArgsAt(ns, i)])
    /\ g < p => ns[g + 1].cmd = "from"
GlobalsRead == Reading => \E g : IsGlobals(nodes, Parsed, metaArgs, g) /\ (stages = <<>> => g = Parsed)

IsGlobalScope(sc, f, args, n) ==
    sc = [k \in 0 .. n |-> IF k = 0 THEN PlatformScope(f) ELSE ExtendedBy(f, sc[k - 1], args[k])]
Extensions == IF phase \in {"lines", "parse"} THEN 0 ELSE IF phase = "globals" THEN next - 1 ELSE Len(metaArgs)
GlobalsScoped ==
    Reading => \E sc : /\ IsGlobalScope(sc, file, metaArgs, Extensions)
                       /\ MetaArgsToMap(optMetaArgs) = sc[Extensions]

IsNamed(stage, ins, f, scope) ==
    /\ stage.base = Text(f, scope, ins.words[1])
    /\ stage.platform = Text(f, scope, FlagValue(ins.flags, <<"platform">>, <<>>))
IsAsRead(stage, ins) ==
    /\ stage.base = ins.words[1]
    /\ stage.platform = FlagValue(ins.flags, <<"platform">>, <<>>)
Named == IF phase = "bases" THEN next ELSE 1
StageOf(i) == Cardinality(FromsUpto(nodes, i))
StagesNamed ==
    Reading =>
        /\ Len(stages) = Cardinality(FromsUpto(nodes, Parsed))
        /\ \A i \in FromsUpto(nodes, Parsed) :
             IF StageOf(i) < Named
             THEN IsNamed(stages[StageOf(i)], ParseInstruction(nodes[i]), file, MetaArgsToMap(optMetaArgs))
             ELSE IsAsRead(stages[StageOf(i)], ParseInstruction(nodes[i]))
GlobalInv == PositionsRead /\ GlobalsRead /\ GlobalsScoped /\ StagesNamed
=============================================================================
