--------------------------- MODULE PipelineMeaning ---------------------------
(***************************************************************************)
(* What the text of a Dockerfile means, said without the order in which    *)
(* Pipeline reads it, and the properties that Pipeline keeps to it.        *)
(***************************************************************************)
EXTENDS Pipeline

RestOf(i) == AfterFirst(Trim(file.lines[i].text))
Plain(s) == "$" \notin ToSet(s)
Unquoted(s) == ToSet(s) \cap (Quotes \cup {"$", Backslash, Backtick}) = {}
Read1(s) == Process(Lex, NoEnv, s)

-----------------------------------------------------------------------------
(* The lexer, by the marks of its characters                               *)

\* how each character is read: outside of quotes, in either kind, or escaped there
NextMode(m, s, i, escape) ==
    LET c == s[i]
        escapes == c = escape /\ At(s, i + 1) \in {DoubleQuote, "$", escape}
    IN  CASE m = "plain" /\ c = SingleQuote -> "single"
          [] m = "plain" /\ c = DoubleQuote -> "double"
          [] m = "plain" /\ c = escape -> "escaped"
          [] m = "single" /\ c # SingleQuote -> "single"
          [] m = "double" /\ escapes -> "inner"
          [] m = "inner" \/ (m = "double" /\ c # DoubleQuote /\ ~escapes) -> "double"
          [] OTHER -> "plain"

\* the mode before each character, and the one at the end
Modes(s, escape) ==
    FoldLeftDomain(LAMBDA modes, i : Append(modes, NextMode(Last(modes), s, i, escape)), <<"plain">>, s)

\* the characters that stay, all but the quotes and the escapes in effect, of some positions
Kept(s, modes, positions) ==
    LET Stays(i) == modes[i] \in {"escaped", "inner"} \/ modes[i + 1] = modes[i]
    IN  FlattenSeq([i \in DOMAIN s |-> IF i \in positions /\ Stays(i) THEN <<s[i]>> ELSE <<>>])

\* the words: what stays in front of each unquoted space, or the end, from the space before it
MeantWords(s, modes) ==
    LET breaks == {i \in DOMAIN s : s[i] = Space /\ modes[i] = "plain"}
        Since(end) == {i \in 1 .. end - 1 : (i .. end - 1) \cap breaks = {}}
        Ending(end) == IF Kept(s, modes, Since(end)) = <<>> THEN <<>> ELSE <<Kept(s, modes, Since(end))>>
    IN  FlattenSeq([end \in 1 .. Len(s) + 1 |->
                       IF end \in breaks \cup {Len(s) + 1} THEN Ending(end) ELSE <<>>])

(* Of any line without variables, the lexer returns the characters that    *)
(* are no quotes or escapes, splits it at the spaces that are not quoted,  *)
(* and fails exactly if a quote is open at the end (process, lex.go).      *)
WordIsMeant ==
    LET Agrees(s, modes, read) ==
            /\ read.ok = (Last(modes) \in {"plain", "escaped"})
            /\ read.ok => read.text = Kept(s, modes, DOMAIN s) /\ read.words = MeantWords(s, modes)
        Meant(s) == Plain(s) => Agrees(s, Modes(s, file.escape), Read1(s))
    IN  phase = "lines" /\ next <= Len(file.lines) => Meant(file.lines[next].text)

-----------------------------------------------------------------------------
\* the instructions of the stage begun last that were dispatched, and their lines
Done == IF log = <<>> THEN <<>> ELSE log[Len(log)].done
LineOf(j) == stages[Len(log)].lines[j]
Source(j) == stages[Len(log)].commands[j]

(* ENV passes two parsers: parseWords splits the line, and the lexer reads *)
(* each name and each value on its own when it is dispatched.  Together    *)
(* they assign what the lexer alone reads on the line: its words, cut at   *)
(* their first equals sign (parseNameVal, Expand).                         *)
WordsAgree ==
    LET Agrees(ins, read) ==
            /\ read.ok
            /\ ins.words = FlattenSeq([k \in DOMAIN read.words |-> <<Key(read.words[k]), Value(read.words[k])>>])
        Meant(ins, rest) == Plain(rest) /\ HasEq(ParseWords(rest, file.escape)[1]) => Agrees(ins, Read1(rest))
    IN  \A j \in DOMAIN Done :
            Done[j].name = "env" => Meant(Done[j], SplitFlags(RestOf(LineOf(j))).args)

(* The flags of an instruction are the words in front that begin with two  *)
(* dashes, as the lexer would read them, up to a bare --; and an           *)
(* instruction that is accepted has each of them, except for those that    *)
(* never look at their flags.  Texts with escapes are excused: flags are   *)
(* always split with a backslash (extractBuilderFlags, BFlags.Parse).      *)
RawFlags(rest) ==
    LET IsFlag(word) == At(word, 1) = "-" /\ At(word, 2) = "-" /\ Read1(word).text # DashDash
        Leading(raw) == {k \in 0 .. Len(raw) : \A l \in 1 .. k : IsFlag(raw[l])}
        Flags(raw) == [k \in 1 .. Max(Leading(raw)) |-> Read1(raw[k]).text]
    IN  Flags(Process([Lex EXCEPT !.rawQuotes = TRUE], NoEnv, rest).words)

FlagsMeant ==
    LET Taken(ins, name, value) == name \in DOMAIN ins.flags /\ value \in ToSet(ins.flags[name])
        AllTaken(ins, flags) ==
            /\ \A k \in DOMAIN flags : Taken(ins, Key(SubSeq(flags[k], 3, Len(flags[k]))), Value(flags[k]))
            /\ \A k, l \in DOMAIN flags : k < l /\ Key(flags[k]) = Key(flags[l]) => ins.name = "run"
        Agrees(node, ins, flags) ==
            /\ node.flags = flags
            /\ ins.ok /\ ParsesFlags(node) => AllTaken(ins, flags)
        Meant(rest) == Plain(rest) /\ ToSet(rest) \cap {Backslash, Backtick} = {} /\ Read1(rest).ok =>
                           Agrees(nodes[next], ParseInstruction(nodes[next]), RawFlags(rest))
    IN  phase = "parse" /\ next <= Len(nodes) => Meant(RestOf(next))

-----------------------------------------------------------------------------
(* RUN --mount                                                             *)

\* the fields of a mount: what is said, in no order, keys under one name
MountFields(value) ==
    LET fields == ReadCSV(value).fields
        Name(field) == OneOf(IF HasEq(field) THEN Key(field) ELSE field, Keys)
        Canon(key) == CASE key = "src" -> "source"
                        [] key \in {"dst", "destination"} -> "target"
                        [] key \in {"ro", "rw", "readwrite"} -> "readonly"
                        [] OTHER -> key
    IN  [i \in DOMAIN fields |->
            [key |-> Canon(Name(fields[i])), alone |-> ~HasEq(fields[i]),
             negated |-> Name(fields[i]) \in {"rw", "readwrite"},
             value |-> IF HasEq(fields[i]) THEN Value(fields[i]) ELSE <<>>]]

\* the mount these fields describe
MeantMount(fields) ==
    LET Has(key) == \E f \in fields : f.key = key
        Of(key) == CHOOSE f \in fields : f.key = key
        Text(key) == IF Has(key) THEN Of(key).value ELSE <<>>
        type == IF Has("type") THEN OneOf(Text("type"), MountTypes) ELSE "bind"
        Only(key, types) == Has(key) => type \in types
        valid ==
            /\ \A f \in fields : f.key # "none" /\ (f.alone => f.key \in {"readonly", "required"})
            /\ \A f \in fields : f.key \in {"readonly", "required"} => f.alone \/ IsBool(f.value)
            /\ \A f \in fields : f.key \in {"size", "mode", "uid", "gid"} => IsNumber(f.value)
            /\ type # "none"
            /\ Has("sharing") => OneOf(Text("sharing"), SharingTypes) # "none"
            /\ Only("size", {"tmpfs"}) /\ Only("sharing", {"cache"}) /\ Only("required", {"secret", "ssh"})
            /\ \A key \in {"mode", "uid", "gid"} : Only(key, {"cache", "secret", "ssh"})
            /\ type = "secret" => /\ Text("from") = <<>>
                                  /\ <<Text("source"), Text("target"), Text("id")>> # <<<<>>, <<>>, <<>>>>
                                  /\ <<>> \in {Text("source"), Text("id")}
        said(key) == Of(key).alone \/ IsTrue(Of(key).value)
    IN  [ok |-> valid, type |-> type, from |-> Text("from"), source |-> Text("source"), target |-> Text("target"),
         readonly |-> IF Has("readonly") THEN said("readonly") # Of("readonly").negated
                      ELSE type \notin {"cache", "tmpfs"},
         required |-> Has("required") /\ said("required"), size |-> Text("size"), id |-> Text("id"),
         sharing |-> IF Has("sharing") THEN OneOf(Text("sharing"), SharingTypes) ELSE "none",
         owners |-> {key \in {"mode", "uid", "gid"} : Has(key)}]

(* A mount that names its type first and no key twice means the same in    *)
(* whatever order its other keys are: it is refused or read by what they   *)
(* say together (parseMount).                                              *)
MountsMeant ==
    LET Agrees(read, meant) == read.ok = meant.ok /\ (read.ok => \A f \in DOMAIN meant : read[f] = meant[f])
        InOrder(keys) == IsInjective(keys) /\ \A k \in DOMAIN keys : keys[k] = "type" => k = 1
        FieldsAgree(value, fields) ==
            InOrder([k \in DOMAIN fields |-> fields[k].key]) =>
                Agrees(ExpandMount(Lex, env, value), MeantMount(ToSet(fields)))
    IN  Dispatching /\ Command.name = "run" =>
            \A value \in ToSet(Command.flags[<<"mount">>]) :
                ReadCSV(value).ok /\ Unquoted(value) => FieldsAgree(value, MountFields(value))

(* The stage a mount was linked to when the Dockerfile was parsed is the   *)
(* one it is mounted from when the instruction is dispatched, whatever the *)
(* variables are; a quoted or escaped name is excused, since only the      *)
(* second pass removes quotes (parseMount, detectRunMount).                *)
LinkedAsMounted ==
    \A j \in DOMAIN Done :
        \A i \in DOMAIN Done[j].mounts :
            \/ Done[j].mounts[i].from = Source(j).mounts[i].from
            \/ ToSet(Source(j).mounts[i].from) \cap (Quotes \cup {file.escape}) # {}

-----------------------------------------------------------------------------
(* The bodies the parser reads for an ADD or COPY are those of its         *)
(* sources, in their order, to be expanded unless the word has quotes.     *)
(* Every file ends up with its own body: sources of one name make one      *)
(* file, which the last of them writes.  The JSON form has no bodies, so   *)
(* that a source that looks like a heredoc is an empty file.  A RUN with   *)
(* heredocs is one shell command.  Two lexers find the heredocs: lines     *)
(* whose quotes are open, or that quote or escape white space, are excused *)
(* (heredocsFromLine, canContainHeredoc, parseSourcesAndDest).             *)
HeredocsUsed ==
    LET NoQuotedSpace(text, modes) == \A i \in DOMAIN text : text[i] = Space => modes[i] = "plain"
        Sources(i) == SelectSeq(Fields(SplitFlags(RestOf(i)).args), IsHeredoc)
        Used(contents, docs, sources) ==
            /\ Len(contents) = Len(docs)
            /\ \A k \in DOMAIN docs :
                 /\ contents[k].path = docs[k].name
                 /\ (\A l \in DOMAIN docs : docs[l].name = docs[k].name => l <= k) => contents[k].data = docs[k].body
                 /\ contents[k].expand = (ToSet(sources[k]) \cap Quotes = {})
        Empty(contents, docs) == docs = <<>> /\ \A k \in DOMAIN contents : contents[k].data = <<>>
        Bodies(ins, i) == IF nodes[i].json THEN Empty(ins.contents, nodes[i].docs)
                          ELSE Used(ins.contents, nodes[i].docs, Sources(i))
        Agrees(ins, text, modes) ==
            /\ ins.name \in {"add", "copy"} /\ Plain(text) /\ Last(modes) \in {"plain", "escaped"} /\ NoQuotedSpace(text, modes) =>
                 Bodies(ins, next)
            /\ ins.name = "run" /\ ins.files # <<>> => Len(ins.words) = 1 /\ ~nodes[next].json
        Meant(text) == Agrees(ParseInstruction(nodes[next]), text, Modes(text, Backslash))
    IN  phase = "parse" /\ next <= Len(nodes) => Meant(file.lines[next].text)

-----------------------------------------------------------------------------
(* The scope of variables                                                  *)

\* the value of an ARG: a build argument as it is, else its own, else the last global one
MeantArg(name, set, value) ==
    LET same == {i \in DOMAIN optMetaArgs : optMetaArgs[i].key = name}
    IN  IF name \in DOMAIN file.buildArgs THEN KV(name, file.buildArgs[name])
        ELSE IF set \/ same = {} THEN [key |-> name, value |-> value, set |-> set]
        ELSE optMetaArgs[Max(same)]

\* what an instruction of the stage assigns, with its variables read in that scope
Assigned(ins, scope) ==
    LET Text(k) == Process(Lex, scope, ins.words[k]).text
    IN  [i \in 1 .. Len(ins.words) \div 2 |->
            CASE ins.name = "env" -> KV(Text(2 * i - 1), Text(2 * i))
              [] ins.name = "arg" -> MeantArg(Text(2 * i - 1), ins.sets[i], Text(2 * i))]

(* Each name of ENV and ARG has the value of the last instruction that     *)
(* sets it, the last time it does, and every variable of an instruction is *)
(* read in the scope of the instructions before it: none of its own        *)
(* assignments, of a later one or of another stage is seen (dispatch).     *)
ExpandedInScope ==
    LET Assign(old, kvs) ==
            LET Setters(n) == {i \in DOMAIN kvs : kvs[i].key = n /\ kvs[i].set}
                names == {kvs[i].key : i \in {i \in DOMAIN kvs : kvs[i].set}}
            IN  [n \in DOMAIN old \cup names |-> IF Setters(n) = {} THEN old[n] ELSE kvs[Max(Setters(n))].value]
        Scope[j \in 0 .. Len(Done)] ==
            IF j = 0 THEN log[Len(log)].began
            ELSE IF Source(j).name \notin {"env", "arg"} THEN Scope[j - 1]
            ELSE Assign(Scope[j - 1], Assigned(Source(j), Scope[j - 1]))
    IN  log # <<>> =>
            /\ env = Scope[Len(Done)]
            /\ \A j \in DOMAIN Done : Done[j] = Expand(Source(j), Lex, Scope[j - 1])

Froms == {i \in DOMAIN nodes : nodes[i].cmd = "from"}

(* The global ARGs are those before the first FROM, each read in the scope *)
(* of the ones before it; a build argument takes the place of the value of *)
(* a declared name and of no other; and the base names and platforms of    *)
(* all stages are read in the scope of all of them (Dockerfile2LLB).       *)
GlobalsInScope ==
    LET Given(n, value) == IF n \in DOMAIN file.buildArgs THEN file.buildArgs[n] ELSE value
        Extended(old, arg) == [n \in DOMAIN old \cup {arg.key} |->
                                  IF n # arg.key THEN old[n] ELSE Given(n, Process(Lex, old, arg.value).text)]
        Scopes(args, platform) ==
            LET Scope[k \in 0 .. Len(args)] ==
                    IF k = 0 THEN [n \in DOMAIN platform |-> Given(n, platform[n])]
                    ELSE Extended(Scope[k - 1], args[k])
            IN  Scope[Len(args)]
        In(scope, text) == Process(Lex, scope, text).text
        Named(stage, ins, scope) ==
            /\ stage.base = In(scope, ins.words[1])
            /\ stage.platform = In(scope, FlagValue(ins.flags, <<"platform">>, <<>>))
        Agrees(scope) ==
            /\ MetaArgsToMap(optMetaArgs) = scope
            /\ \A i \in Froms :
                 LET k == Cardinality({h \in Froms : h <= i})
                 IN  k < next => Named(stages[k], ParseInstruction(nodes[i]), scope)
        Globals == {i \in DOMAIN nodes : \A f \in Froms : i < f}
    IN  phase = "bases" =>
            Agrees(Scopes(FlattenSeq([i \in 1 .. Cardinality(Globals) |-> ArgPairs(ParseInstruction(nodes[i]))]),
                          MetaArgsToMap(GetPlatformArgs(file))))
=============================================================================
