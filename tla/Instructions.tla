---------------------------- MODULE Instructions ----------------------------
(***************************************************************************)
(* From a node to a typed instruction (parser/instructions/parse.go and    *)
(* bflag.go), and the expansion of its variables when it is dispatched     *)
(* (the Expand methods of parser/instructions/commands.go).                *)
(*                                                                         *)
(* The only order of checks is that all of them are made: what error an    *)
(* instruction is refused with is left out.  So are comments, the code     *)
(* kept for messages, and boolean flags, which no instruction has.         *)
(***************************************************************************)
EXTENDS Heredoc, RunMount

\* the flags an instruction defines; --mount may be given more than once
FlagsOf(cmd) ==
    CASE cmd = "add" -> {<<"chown">>, <<"chmod">>}
      [] cmd = "copy" -> {<<"chown">>, <<"chmod">>, <<"from">>}
      [] cmd = "from" -> {<<"platform">>}
      [] cmd = "run" -> {<<"mount">>, <<"network">>}
      [] cmd = "healthcheck" -> {<<"interval">>, <<"timeout">>, <<"start", "-", "period">>, <<"retries">>}
      [] OTHER -> {}

Repeatable == {<<"mount">>}

\* mutation of ParseFlags: no flag is refused for having been given before
ParseFlagsAgain(args, allowed) ==
    LET Add(st, arg) ==
            LET flag == SubSeq(arg, 3, Len(arg))
            IN  IF st.ok /\ HasEq(flag) /\ Key(flag) \in allowed
                THEN [st EXCEPT !.values[Key(flag)] = Append(@, Value(flag))]
                ELSE [st EXCEPT !.ok = FALSE]
    IN  FoldLeft(Add, [ok |-> TRUE, values |-> [name \in allowed |-> <<>>]], args)

\* BFlags.Parse: [ok, values], the values of every flag the instruction has
ParseFlags(args, allowed) ==
    LET Add(st, arg) ==
            LET flag == SubSeq(arg, 3, Len(arg))
            IN  IF /\ st.ok /\ HasEq(flag) /\ Key(flag) \in allowed
                   /\ st.values[Key(flag)] = <<>> \/ Key(flag) \in Repeatable
                THEN [st EXCEPT !.values[Key(flag)] = Append(@, Value(flag))]
                ELSE [st EXCEPT !.ok = FALSE]
    IN  FoldLeft(Add, [ok |-> TRUE, values |-> [name \in allowed |-> <<>>]], args)

\* the value of a flag that may be given once
FlagValue(flags, name, default) == IF flags[name] = <<>> THEN default ELSE flags[name][1]

\* parseArg, parseStopSignal and HEALTHCHECK NONE never call it
ParsesFlags(node) ==
    /\ node.cmd \notin {"arg", "stopsignal"}
    /\ node.cmd = "healthcheck" => node.args = <<>> \/ node.args[1] # <<"none">>

-----------------------------------------------------------------------------
\* parseBuildStageName, after an AS: a letter, then letters, digits, - and .
IsStageName(word) ==
    /\ word[1] \notin Punctuation \cup Digits
    /\ \A i \in DOMAIN word : word[i] \notin Punctuation \/ word[i] \in Digits \cup {"-", "."}

\* parseOptInterval: nothing, or at least a millisecond; the only unit is the second
IsInterval(value) ==
    \/ value = <<>>
    \/ /\ Len(value) > 1 /\ Last(value) = "s"
       /\ IsNumber(Front(value)) /\ ToSet(Front(value)) # {"0"}

IsHealthcheck(node, flags) ==
    LET Interval(name) == IsInterval(FlagValue(flags, name, <<>>))
        retries == FlagValue(flags, <<"retries">>, <<>>)
    IN  \/ node.args = <<<<"none">>>>
        \/ /\ node.args[1] = <<"cmd">> /\ Len(node.args) > 1
           /\ Interval(<<"interval">>) /\ Interval(<<"timeout">>) /\ Interval(<<"start", "-", "period">>)
           /\ retries = <<>> \/ (IsNumber(retries) /\ ToSet(retries) # {"0"})

\* isValidNetwork
IsNetwork(mode) == mode \in {<<"default">>, <<"none">>, <<"host">>}

IsRun(flags) ==
    /\ \A i \in DOMAIN flags[<<"mount">>] : ParseMount(flags[<<"mount">>][i]).ok
    /\ IsNetwork(FlagValue(flags, <<"network">>, <<"default">>))

IsPairs(args) == args # <<>> /\ \A i \in DOMAIN args : i % 2 = 1 => args[i] # <<>>
IsArg(args) == args # <<>> /\ \A i \in DOMAIN args : HasEq(args[i]) => Key(args[i]) # <<>>
IsCopy(args) == Len(args) >= 2 /\ ~IsHeredoc(Last(args))
IsFrom(args) == Len(args) = 1 \/ (Len(args) = 3 /\ args[2] = <<"as">> /\ IsStageName(args[3]))
IsTrigger(args) == args # <<>> /\ args[1] \notin {<<"onbuild">>, <<"maintainer">>, <<"from">>}
IsVolume(args) == args # <<>> /\ \A i \in DOMAIN args : Trim(args[i]) # <<>>
IsShell(node) == node.json /\ node.args # <<>>

\* whether the parse function of the command accepts its arguments
Accepts(node, flags) ==
    LET args == node.args
        cmd == node.cmd
    IN  CASE cmd \in {"maintainer", "workdir", "user", "stopsignal"} -> Len(args) = 1
          [] cmd \in {"env", "label"} -> IsPairs(args)
          [] cmd = "arg" -> IsArg(args)
          [] cmd \in {"add", "copy"} -> IsCopy(args)
          [] cmd = "from" -> IsFrom(args)
          [] cmd = "onbuild" -> IsTrigger(args)
          [] cmd = "expose" -> args # <<>>
          [] cmd = "volume" -> IsVolume(args)
          [] cmd = "healthcheck" -> args # <<>> /\ IsHealthcheck(node, flags)
          [] cmd = "shell" -> IsShell(node)
          [] cmd = "run" -> IsRun(flags)
          [] cmd \in {"cmd", "entrypoint"} -> TRUE
          [] OTHER -> FALSE

-----------------------------------------------------------------------------
(* An instruction: the words its variables are expanded in, whether the    *)
(* value of each name of an ARG is set, the sources of an ADD or COPY that *)
(* are heredocs, and the mounts of a RUN as the parser saw them.           *)

\* parseSourcesAndDest: the heredocs among the sources, with the last body read under their name
Contents(args, docs) ==
    LET Body(same) == IF same = {} THEN <<>> ELSE docs[Max(same)].body
        Content(doc) == [path |-> doc.name, expand |-> doc.expand,
                         data |-> Body({i \in DOMAIN docs : docs[i].name = doc.name})]
        All(sources) == [i \in DOMAIN sources |-> Content(ParseHeredoc(sources[i]))]
    IN  All(SelectSeq(Front(args), IsHeredoc))

\* SourcesAndDest.Expand and ArgCommand.Expand: the words they expand, in their order
CopyWords(args, contents) ==
    LET NotHeredoc(word) == ~IsHeredoc(word)
        expanded == SelectSeq(contents, LAMBDA c : c.expand)
    IN  [i \in DOMAIN expanded |-> expanded[i].data] \o SelectSeq(Front(args), NotHeredoc) \o <<Last(args)>>

ArgWords(args) ==
    FlattenSeq([i \in DOMAIN args |-> IF HasEq(args[i]) THEN <<Key(args[i]), Value(args[i])>> ELSE <<args[i], <<>>>>])

\* the words of an instruction; the ports of EXPOSE stay in the order of the line, as they end up in a map
WordsOf(node, flags, contents) ==
    CASE node.cmd \in {"add", "copy"} ->
           <<FlagValue(flags, <<"chown">>, <<>>)>> \o CopyWords(node.args, contents)
      [] node.cmd = "arg" -> ArgWords(node.args)
      [] node.cmd = "volume" -> [i \in DOMAIN node.args |-> Trim(node.args[i])]
      [] OTHER -> node.args

InstructionWith(node, flags, contents, mounts) ==
    [ok |-> TRUE, name |-> node.cmd, flags |-> flags, contents |-> contents, files |-> node.docs,
     words |-> WordsOf(node, flags, contents), mounts |-> mounts,
     sets |-> IF node.cmd = "arg" THEN [i \in DOMAIN node.args |-> HasEq(node.args[i])] ELSE <<>>]

Instruction(node, flags) ==
    InstructionWith(node, flags,
        IF node.cmd \in {"add", "copy"} THEN Contents(node.args, node.docs) ELSE <<>>,
        IF node.cmd = "run" THEN [i \in DOMAIN flags[<<"mount">>] |-> ParseMount(flags[<<"mount">>][i])] ELSE <<>>)

NoInstruction == [ok |-> FALSE, name |-> "other", flags |-> [name \in {} |-> <<>>], contents |-> <<>>,
                  files |-> <<>>, words |-> <<>>, sets |-> <<>>, mounts |-> <<>>]

ParseInstruction(node) ==
    LET Parsed(flags) ==
            IF flags.ok /\ Accepts(node, flags.values) THEN Instruction(node, flags.values) ELSE NoInstruction
    IN  Parsed(ParseFlags(IF ParsesFlags(node) THEN node.flags ELSE <<>>, FlagsOf(node.cmd)))

-----------------------------------------------------------------------------
\* the instructions that support the expansion of single words
Expandable == {"add", "arg", "copy", "env", "label", "stopsignal", "user", "volume", "workdir"}

\* once its words, or its mounts, are read: none if the reading of one fails
Checked(read, result) == IF \E i \in DOMAIN read : ~read[i].ok THEN NoInstruction ELSE result

WithWords(ins, read) ==
    Checked(read, [ins EXCEPT !.words = IF ins.name = "expose" THEN FlattenSeq([i \in DOMAIN read |-> read[i].words])
                                        ELSE [i \in DOMAIN read |-> read[i].text]])

WithMounts(ins, read) == Checked(read, [ins EXCEPT !.mounts = read])

\* Expand, and the ProcessWords of EXPOSE: the instruction as it is dispatched
Expand(ins, lx, env) ==
    CASE ins.name \in Expandable \cup {"expose"} ->
           WithWords(ins, [i \in DOMAIN ins.words |-> Process(lx, env, ins.words[i])])
      [] ins.name = "run" ->
           WithMounts(ins, [i \in DOMAIN ins.mounts |-> ExpandMount(lx, env, ins.flags[<<"mount">>][i])])
      [] OTHER -> ins
=============================================================================
