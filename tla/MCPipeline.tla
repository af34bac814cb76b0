----------------------------- MODULE MCPipeline -----------------------------
(***************************************************************************)
(* Families of Dockerfiles for Pipeline, and the lexer on lines of its own *)
(* tests (parser/shell/envVarTest and wordsTest).                          *)
(***************************************************************************)
EXTENDS PipelineMeaning

Upto(n, S) == UNION {[1 .. k -> S] : k \in 0 .. n}
Joined(seqs, sep) ==
    IF seqs = <<>> THEN <<>>
    ELSE seqs[1] \o FlattenSeq([i \in 1 .. Len(seqs) - 1 |-> sep \o seqs[i + 1]])

EnvOf(name, value) == [n \in {name} |-> value]
AllUnset == {NoEnv}

\* a file of these lines, each followed by bodies for its heredocs
Bodies == <<<<"$", "a">>, <<"b">>, <<"$", "b">>, <<>>>>
File(escape, lines) ==
    [escape |-> escape, lines |-> [i \in DOMAIN lines |-> [text |-> lines[i], bodies |-> Bodies]],
     buildArgs |-> NoEnv, bases |-> AllUnset, target |-> <<>>, build |-> <<>>]

From == <<"from", Space, "x">>
Line1(cmd, words) == <<cmd, Space>> \o words
OneLine(cmd, words) == File(Backslash, <<From, Line1(cmd, words)>>)

-----------------------------------------------------------------------------
(* ENV: every text of up to four characters behind "a=" (three with the    *)
(* other escape), and of up to three without it                            *)
EnvTexts(n, chars) == {Line1("env", <<"a", "=">> \o w) : w \in [1 .. n -> chars \cup {"="}]}
                        \cup {Line1("env", w) : w \in [1 .. Min({n, 3}) -> chars \cup {"$"}]}
EnvFiles == {{File(e, <<From, t>>) : t \in EnvTexts(n, {"b", Space, SingleQuote, DoubleQuote, e})} :
               <<n, e>> \in ((0 .. 4) \X {Backslash}) \cup ((0 .. 3) \X {Backtick})}

(* Flags: up to three words in front of the arguments                      *)
Opt(name) == DashDash \o <<name, "=", "x">>
FlagWords ==
    {Opt("from"), Opt("chown"), Opt("bad"), DashDash, <<"-">>, <<"a">>, <<DoubleQuote>> \o Opt("from") \o <<DoubleQuote>>,
     DashDash \o <<"from", "=", SingleQuote, "y", Space, "z", SingleQuote>>, DashDash \o <<"from">>,
     DashDash \o <<"from", "=", DoubleQuote, "x">>, DashDash \o <<Backslash, "from", "=", "x">>,
     <<DoubleQuote, DoubleQuote>>, DashDash \o <<DoubleQuote, DoubleQuote>>}
FlagFiles ==
    {{OneLine("copy", Joined(Append(ws, <<"b", Space, "c">>), <<Space>>)) : ws \in [1 .. n -> FlagWords]} : n \in 0 .. 3}
      \cup {{OneLine(cmd, Joined(Append(ws, <<"b">>), <<Space>>)) :
               cmd \in {"arg", "stopsignal", "user", "shell", "maintainer"}, ws \in Upto(1, FlagWords)}}

(* RUN --mount: a type or none, and up to two more fields, one of them in  *)
(* front of the type or not                                                *)
Set(key, value) == <<key, "=">> \o value
MountWords ==
    {Set("from", <<"b">>), Set("from", <<"$", "a">>), Set("from", <<Backslash, SingleQuote, "b", Backslash, SingleQuote>>),
     Set("source", <<"b">>), Set("src", <<"$", "a">>), Set("target", <<"b">>), Set("dst", <<"c">>), <<"ro">>, <<"rw">>,
     Set("readonly", <<"false">>), Set("rw", <<"false">>), Set("readwrite", <<"b">>), <<"required">>,
     Set("required", <<"true">>), Set("size", <<"7">>), Set("id", <<"b">>), Set("sharing", <<"locked">>),
     Set("mode", <<"7">>), Set("uid", <<"b">>), Set("bad", <<"b">>), <<>>}
TypeWords == {Set("type", <<t>>) : t \in MountTypes \cup {"bad"}}
MountLists == {Upto(2, MountWords), {<<w, t>> : t \in TypeWords, w \in MountWords}}
                \cup {{<<t>> \o ws : t \in TypeWords, ws \in [1 .. n -> MountWords]} : n \in 0 .. 2}
MountFlag(ws) == DashDash \o <<"mount", "=">> \o Joined(ws, <<",">>)
WithA(f) == [f EXCEPT !.bases = {NoEnv, EnvOf(<<"a">>, <<"c">>)}]
MountFiles == {{WithA(OneLine("run", MountFlag(ws) \o <<Space, "c">>)) : ws \in list} : list \in MountLists}
                \cup {{OneLine("run", DashDash \o <<"network", "=", n, Space, "c">>) : n \in {"host", "bad"}}}

(* Heredocs: up to two words in front of a last one                        *)
DocWords ==
    {<<"<<", "e">>, <<"<<", "f">>, <<"<<", "-", "e">>, <<"1", "<<", "e">>, <<"<<", SingleQuote, "e", SingleQuote>>,
     <<"<<", DoubleQuote, "e", SingleQuote, DoubleQuote>>, <<"<<", DoubleQuote, "e", Space, "f", DoubleQuote>>,
     <<"<<", Backslash, "e">>, <<"<<">>, <<"<<", "e", "<<", "f">>, <<"a">>, <<"a", Backslash, Space, "<<", "e">>,
     <<DoubleQuote, "<<", "e", DoubleQuote>>, <<"<<", "$", "{", "a">>, <<"a", SingleQuote>>, <<"$", "a">>,
     DashDash \o <<"chown", "=", "<<", "e">>}
DocLine(cmd, ws) == Line1(cmd, Joined(ws, <<Space>>))
DocFiles == {{WithA(File(Backslash, <<From, DocLine(cmd, Append(ws, <<"d">>))>>)) :
                 cmd \in {"copy", "run"}, ws \in Upto(2, DocWords)},
              {File(Backtick, <<From, DocLine(cmd, <<w, v>>)>>) :
                 cmd \in {"add", "user", "copy"}, w \in DocWords, v \in DocWords},
              {File(Backslash, <<From, <<"onbuild", Space>> \o DocLine("copy", <<w, <<"d">>>>)>>) : w \in DocWords}}

(* JSON forms, and each instruction with arguments it takes or does not    *)
Str(c) == <<DoubleQuote, c, DoubleQuote>>
Doc(c) == <<DoubleQuote, "<<", c, DoubleQuote>>
JSONDocs == {<<"[">> \o Joined(Append(ds, Str("d")), <<",", Space>>) \o <<"]">> :
               ds \in Upto(2, {Doc("e"), Doc("f"), Str("a")})}
JSONTexts == {<<"[">> \o Str("a") \o <<",", Space>> \o Str("<<") \o <<"]">>, <<"[", "]">>, <<"[", "1", "]">>,
              <<"[">> \o Str("a") \o <<"]", Space, "b">>, <<"[">> \o Str("a"), <<"[">> \o Str(Space) \o <<"]">>,
              <<"[", DoubleQuote, Backslash, DoubleQuote, DoubleQuote, "]">>, <<"[">> \o Str("a") \o <<",", "]">>,
              <<"[", DoubleQuote, Backslash, "a", DoubleQuote, "]">>, <<"a", Space, "b">>, <<"a">>, <<>>}
JSONFiles ==
    {{OneLine(cmd, t) : cmd \in {"add", "cmd", "copy", "entrypoint", "run", "shell", "volume", "expose", "label",
                                 "maintainer", "user", "stopsignal", "workdir", "onbuild", "from", "bad"}, t \in JSONTexts},
     {OneLine("healthcheck", o \o <<c, Space>> \o t) : t \in JSONTexts, c \in {"cmd", "none", "a"},
        o \in {<<>>, Opt("interval") \o <<Space>>, DashDash \o <<"timeout", "=", "1", "s", Space>>,
               DashDash \o <<"retries", "=", "0", Space>>}},
     {OneLine(cmd, t) : cmd \in {"add", "copy", "run"}, t \in JSONDocs},
     {OneLine("from", <<"x", Space, "as", Space>> \o w) : w \in {<<"s">>, <<"1", "s">>, <<"s", "1">>}},
     {OneLine("onbuild", <<c, Space, "a">>) : c \in {"onbuild", "from", "maintainer", "user", "bad"}}}

-----------------------------------------------------------------------------
(* The scope of variables: global ARGs, a FROM, instructions, and perhaps  *)
(* a second stage                                                          *)
Var(n) == <<"$", n>>
Brace(n, mod) == <<"$", "{", n>> \o mod \o <<"}">>
GlobalWords == {Set("a", <<"1">>), <<"a">>, Set("b", Var("a")), Set("a", <<SingleQuote, "$", "b", SingleQuote>>),
                Set("b", Brace("a", <<":", "?", "e">>)), Set("TARGETOS", <<"b">>) \o <<Space>> \o Set("b", Var("TARGETOS"))}
FromWords == {<<"x">>, Var("b"), DashDash \o <<"platform", "=", "$", "TARGETPLATFORM", Space, "x">>, <<"x", Space, "as", Space, "s">>}
ScopeLines == {Line1("arg", <<"a">>), Line1("arg", Set("a", <<"2">>)), Line1("arg", <<"TARGETOS">>),
               Line1("arg", Set("b", Var("a")) \o <<Space>> \o Set("a", Var("b"))),
               Line1("env", Set("a", <<"7">>) \o <<Space>> \o Set("b", Var("a"))),
               Line1("env", Set("b", <<SingleQuote, "$", "a", SingleQuote>>)),
               Line1("workdir", Brace("b", <<":", "-">> \o Var("a"))), Line1("expose", Var("b") \o <<Space>> \o Var("c"))}
FromLines == {Line1("from", w) : w \in FromWords}
ScopeTexts ==
    {{Append([i \in DOMAIN gs |-> Line1("arg", gs[i])], f) : gs \in Upto(2, GlobalWords), f \in FromLines},
     {[i \in DOMAIN gs |-> Line1("arg", gs[i])] \o <<From, l>> : gs \in [1 .. 2 -> GlobalWords], l \in ScopeLines},
     {<<Line1("arg", g), From>> \o ls : g \in GlobalWords, ls \in Upto(2, ScopeLines)},
     {<<From>> \o ls : ls \in [1 .. 3 -> ScopeLines]},
     {<<From, l, f, m>> : l \in ScopeLines, f \in FromLines, m \in ScopeLines},
     {<<l>> : l \in ScopeLines}}
Arm == [os |-> "linux", arch |-> "arm", variant |-> <<"v", "7">>]
Builds == {[args |-> NoEnv, target |-> <<>>, build |-> <<>>],
           [args |-> EnvOf(<<"a">>, <<"$", "b">>), target |-> <<Arm>>, build |-> <<>>],
           [args |-> EnvOf(<<"TARGETOS">>, <<"y">>), target |-> <<Arm>>, build |-> <<DefaultPlatform>>]}
ScopeFiles ==
    {{[WithA(File(Backslash, t)) EXCEPT !.buildArgs = b.args, !.target = b.target, !.build = b.build] :
        t \in texts, b \in Builds} : texts \in ScopeTexts}

MCFiles == UNION {EnvFiles, FlagFiles, MountFiles, DocFiles, JSONFiles, ScopeFiles}
-----------------------------------------------------------------------------
(* Lines of the lexer's tests: the words expected, or an error             *)
TestEnv == [n \in {<<"PWD">>, <<"hi">>, <<"NULL">>, <<"leading">>} |->
              CASE n = <<"PWD">> -> <<"/", "home">>
                [] n = <<"hi">> -> <<"hi">>
                [] n = <<"NULL">> -> <<>>
                [] n = <<"leading">> -> <<Space, Space, "ab", Space, "c">>]
Expected ==
    {<< <<"he", SingleQuote, "ll", SingleQuote, "o">>, <<<<"he", "ll", "o">>>> >>,
     << <<"he", Backslash, SingleQuote, "llo">>, <<<<"he", SingleQuote, "llo">>>> >>,
     << <<DoubleQuote, "abc", Backslash, "tdef", DoubleQuote>>, <<<<"abc", Backslash, "tdef">>>> >>,
     << <<DoubleQuote, "abc", Backslash, Backslash, "tdef", DoubleQuote>>, <<<<"abc", Backslash, "tdef">>>> >>,
     << <<"abc", Backslash, "tdef">>, <<<<"abc", "tdef">>>> >>,
     << <<"hello", Backslash>>, <<<<"hello">>>> >>,
     << <<SingleQuote, "hello", Backslash, SingleQuote>>, <<<<"hello", Backslash>>>> >>,
     << <<"he", "$", "1", "x">>, <<<<"he", "x">>>> >>,
     << <<"he", "$", ".", "x">>, <<<<"he", "$", ".", "x">>>> >>,
     << <<"he", Backslash, "$", "PWD">>, <<<<"he", "$", "PWD">>>> >>,
     << <<"he", "$", "{", "XXX", ":", "-", "$", "{", "PWD", ":", "-", "yyy", "}", "}", "xx">>, <<<<"he", "/", "home", "xx">>>> >>,
     << <<"he", "$", "{", "PWD", ":", "+", "$", "{", "XXX", "}", "}", "xx">>, <<<<"he", "xx">>>> >>,
     << <<"he", "$", "{", "PWD", ":", "+", "$", "{", "PWD", "}", ":", "}", "xx">>, <<<<"he", "/", "home", ":", "xx">>>> >>,
     << <<"he", "$", "{", "XXX", ":", "-", Backslash, "$", "{", "PWD", "}", "z", "}", "xx">>, <<<<"he", "$", "{", "PWD", "z", "}", "xx">>>> >>,
     << <<"he", "$", "{", "NULL", "?", "}">>, <<<<"he">>>> >>,
     << <<"$", "{", "1", ":", "-", "bbb", "}">>, <<<<"bbb">>>> >>,
     << <<"hello", "$", "{", "leading", "}", "def">>, <<<<"hello">>, <<"ab">>, <<"c", "def">>>> >>,
     << <<"hello", DoubleQuote, "$", "{", "leading", "}", DoubleQuote>>, <<<<"hello", Space, Space, "ab", Space, "c">>>> >>,
     << <<"hello", DoubleQuote, Space, "there", Space, Space, DoubleQuote>>, <<<<"hello", Space, "there", Space, Space>>>> >>,
     << <<"hello", Backslash, Space, "there">>, <<<<"hello", Space, "there">>>> >>,
     << <<"hello", Space, Space, "there", Space>>, <<<<"hello">>, <<"there">>>> >>}
Refused ==
    {<<"he", SingleQuote, "llo">>, <<DoubleQuote, "hello", Backslash, DoubleQuote>>, <<"he", "$", "{", "}">>, <<"he", "$", "{", ".", "}">>,
     <<"he", "$", "{", "XXX", ":", "YYY", "}">>, <<"he", "$", "{", "XXX", "?", "}">>, <<"he", "$", "{", "NULL", ":", "?", "}">>,
     <<"he", "$", "{", "PWD">>, <<"he", "$", "{", "PWD", ":", "=", "0", "}">>, <<"$", "{", "{", "aaa", "}">>, <<"$", "{", ":", "-", "bbb", "}">>}

ASSUME LexerTests ==
    /\ \A c \in Expected : LET read == Process(NewLex(Backslash), TestEnv, c[1]) IN read.ok /\ read.words = c[2]
    /\ \A line \in Refused : ~Process(NewLex(Backslash), TestEnv, line).ok

=============================================================================
