--------------------------- MODULE InstructionLine ---------------------------
(***************************************************************************)
(* One logical line of a Dockerfile and the node newNodeFromLine makes of  *)
(* it (parser/split_command.go, parser/line_parsers.go): the command, its  *)
(* flags, and its arguments in the form this command has.                  *)
(*                                                                         *)
(* A line is a sequence of the characters of ShellWord; the only white     *)
(* space is the space, command words are in lower case, and no character   *)
(* takes more than one byte.                                               *)
(***************************************************************************)
EXTENDS ShellWord, FiniteSetsExt

IsSpace(c) == c = Space
NotSpace(c) == c # Space

\* strings.TrimSpace
Trim(s) ==
    LET solid == {i \in DOMAIN s : s[i] # Space}
    IN  IF solid = {} THEN <<>> ELSE SubSeq(s, Min(solid), Max(solid))

\* the first word of a trimmed text, and what follows it
FirstWord(s) == SubSeq(s, 1, RunEnd(s, 1, NotSpace) - 1)
AfterFirst(s) == Trim(SubSeq(s, RunEnd(s, 1, NotSpace), Len(s)))

\* strings.SplitN(word, "=", 2)
HasEq(word) == "=" \in ToSet(word)
Key(word) == SubSeq(word, 1, SelectInSeq(word, LAMBDA c : c = "=") - 1)
Value(word) == SubSeq(word, SelectInSeq(word, LAMBDA c : c = "=") + 1, Len(word))

-----------------------------------------------------------------------------
(* extractBuilderFlags, character by character.  It always escapes with a  *)
(* backslash, in either kind of quotes, and lets quotes stay open.         *)
FlagState == [phase |-> "spaces", word |-> <<>>, blankOK |-> FALSE, quote |-> Space,
              esc |-> FALSE, flags |-> <<>>, rest |-> 0]

DashDash == <<"-", "-">>

EndFlag(st) ==
    [st EXCEPT !.flags = IF st.blankOK \/ st.word # <<>> THEN Append(@, st.word) ELSE @,
               !.phase = "spaces", !.word = <<>>, !.blankOK = FALSE]

FlagChar(text, st, i) ==
    LET c == text[i]
        starts == c = "-" /\ At(text, i + 1) = "-"
    IN  CASE st.phase = "rest" -> st
          [] st.phase = "spaces" /\ c = Space -> st
          [] st.phase = "spaces" /\ c # Space /\ ~starts -> [st EXCEPT !.phase = "rest", !.rest = i]
          [] st.phase = "spaces" /\ starts -> [st EXCEPT !.phase = "word", !.word = <<c>>]
          [] st.phase \in {"word", "quote"} /\ st.esc -> [st EXCEPT !.word = Append(@, c), !.esc = FALSE]
          [] st.phase = "word" /\ ~st.esc /\ c = Space ->
               IF st.word = DashDash THEN [st EXCEPT !.phase = "rest", !.rest = i] ELSE EndFlag(st)
          [] st.phase = "word" /\ ~st.esc /\ c \in Quotes ->
               [st EXCEPT !.phase = "quote", !.quote = c, !.blankOK = TRUE]
          [] st.phase = "quote" /\ ~st.esc /\ c = st.quote -> [st EXCEPT !.phase = "word"]
          [] st.phase \in {"word", "quote"} /\ ~st.esc /\ c = Backslash -> [st EXCEPT !.esc = TRUE]
          [] OTHER -> [st EXCEPT !.word = Append(@, c)]

\* the flags and the arguments behind them, at the end of the text
FlagsAndArgs(text, st) ==
    IF st.phase = "rest" THEN [flags |-> st.flags, args |-> Trim(SubSeq(text, st.rest, Len(text)))]
    ELSE [flags |-> IF st.word = DashDash THEN st.flags ELSE EndFlag(st).flags, args |-> <<>>]

SplitFlags(text) ==
    LET Char(st, i) == FlagChar(text, st, i)
    IN  FlagsAndArgs(text, FoldLeftDomain(Char, FlagState, text))

-----------------------------------------------------------------------------
(* parseWords: words between white space, quotes and escapes left in.      *)
WordState == [phase |-> "spaces", word |-> <<>>, quote |-> Space, esc |-> FALSE, words |-> <<>>]

EndWord(st) == IF st.word = <<>> THEN st.words ELSE Append(st.words, st.word)

WordChar(escape, st, c) ==
    CASE st.esc -> [st EXCEPT !.word = @ \o <<escape, c>>, !.esc = FALSE]
      [] ~st.esc /\ c = Space /\ st.phase = "spaces" -> st
      [] ~st.esc /\ c = Space /\ st.phase = "word" -> [WordState EXCEPT !.words = EndWord(st)]
      [] ~st.esc /\ c = escape /\ ~(st.phase = "quote" /\ st.quote = SingleQuote) ->
           [st EXCEPT !.esc = TRUE, !.phase = IF @ = "spaces" THEN "word" ELSE @]
      [] ~st.esc /\ c \in Quotes /\ st.phase # "quote" ->
           [st EXCEPT !.word = Append(@, c), !.phase = "quote", !.quote = c]
      [] ~st.esc /\ c = st.quote /\ st.phase = "quote" -> [st EXCEPT !.word = Append(@, c), !.phase = "word"]
      [] OTHER -> [st EXCEPT !.word = Append(@, c), !.phase = IF @ = "spaces" THEN "word" ELSE @]

ParseWords(rest, escape) ==
    LET Char(st, c) == WordChar(escape, st, c)
    IN  EndWord(FoldLeft(Char, WordState, rest))

\* reWhitespace.Split of a trimmed text
Fields(rest) == GetWords(AddString(NoWords, rest))

(* parseJSON: the strings of a JSON array at the start of the text; what   *)
(* follows the array is not looked at.  Numbers have one digit and stand   *)
(* for everything in an array that is no string.                           *)
JSONChar(st, c) ==
    LET Goto(phase) == [st EXCEPT !.phase = phase]
    IN  CASE st.phase \in {"array", "bad"} -> st
          [] st.phase = "string" /\ c = DoubleQuote ->
               [st EXCEPT !.phase = "after", !.items = Append(@, st.item), !.item = <<>>]
          [] st.phase = "string" /\ c = Backslash -> Goto("escape")
          [] st.phase = "string" /\ c \notin {DoubleQuote, Backslash} -> [st EXCEPT !.item = Append(@, c)]
          [] st.phase = "escape" ->
               IF c \in {DoubleQuote, Backslash} THEN [st EXCEPT !.item = Append(@, c), !.phase = "string"]
               ELSE Goto("bad")
          [] st.phase \in {"start", "first", "value", "after"} /\ c = Space -> st
          [] st.phase = "start" /\ c = "[" -> Goto("first")
          [] st.phase \in {"first", "after"} /\ c = "]" -> Goto("array")
          [] st.phase = "after" /\ c = "," -> Goto("value")
          [] st.phase \in {"first", "value"} /\ c = DoubleQuote -> Goto("string")
          [] st.phase \in {"first", "value"} /\ c \in Digits -> [Goto("after") EXCEPT !.strings = FALSE]
          [] OTHER -> Goto("bad")

ParseJSON(rest) ==
    FoldLeft(JSONChar, [phase |-> "start", items |-> <<>>, item |-> <<>>, strings |-> TRUE], rest)

-----------------------------------------------------------------------------
(* The parsers of the dispatch table: [ok, args, json].                    *)
Args(list) == [ok |-> TRUE, args |-> list, json |-> FALSE]
BadLine == [ok |-> FALSE, args |-> <<>>, json |-> FALSE]

ParseString(rest) == Args(IF rest = <<>> THEN <<>> ELSE <<rest>>)
ParseStringsWhitespaceDelimited(rest) == Args(Fields(rest))
ParseNameOrNameVal(rest, escape) == Args(ParseWords(rest, escape))

\* mutation of ParseNameVal: a word is cut at its last equals sign
ParseNameValAtLast(rest, words) ==
    LET LastEq(word) == SelectLastInSeq(word, LAMBDA c : c = "=")
        Pair(word) == <<SubSeq(word, 1, LastEq(word) - 1), SubSeq(word, LastEq(word) + 1, Len(word))>>
    IN  IF \E i \in DOMAIN words : ~HasEq(words[i]) THEN BadLine
        ELSE Args(FlattenSeq([i \in DOMAIN words |-> Pair(words[i])]))

\* ENV and LABEL: the old form with one name and value, or name=value ...
ParseNameVal(rest, words) ==
    CASE words = <<>> -> Args(<<>>)
      [] words # <<>> /\ ~HasEq(words[1]) ->
           IF AfterFirst(rest) = <<>> THEN BadLine ELSE Args(<<FirstWord(rest), AfterFirst(rest)>>)
      [] words # <<>> /\ HasEq(words[1]) ->
           IF \E i \in DOMAIN words : ~HasEq(words[i]) THEN BadLine
           ELSE Args(FlattenSeq([i \in DOMAIN words |-> <<Key(words[i]), Value(words[i])>>]))

\* a JSON array of strings, or else what the other parser makes of the text
ParseMaybeJSON(rest, otherwise) ==
    LET Array(array) ==
            IF array.phase # "array" THEN otherwise
            ELSE IF array.strings THEN [ok |-> TRUE, args |-> array.items, json |-> TRUE]
            ELSE BadLine
    IN  Array(ParseJSON(rest))

\* HEALTHCHECK: a type before the command
ParseHealthConfig(rest) ==
    LET Typed(type, cmd) == [cmd EXCEPT !.args = <<type>> \o @]
        Command(text) == ParseMaybeJSON(text, ParseString(text))
    IN  IF rest = <<>> THEN Args(<<>>) ELSE Typed(FirstWord(rest), Command(AfterFirst(rest)))

Commands == {"add", "arg", "cmd", "copy", "entrypoint", "env", "expose", "from", "healthcheck", "label",
             "maintainer", "onbuild", "run", "shell", "stopsignal", "user", "volume", "workdir"}

\* Sub is the parser of what is behind an ONBUILD
ParseArgs(cmd, rest, escape, Sub(_)) ==
    CASE cmd \in {"add", "copy", "volume"} -> ParseMaybeJSON(rest, ParseStringsWhitespaceDelimited(rest))
      [] cmd \in {"cmd", "entrypoint", "run", "shell"} -> ParseMaybeJSON(rest, ParseString(rest))
      [] cmd \in {"env", "label"} -> ParseNameVal(rest, ParseWords(rest, escape))
      [] cmd \in {"expose", "from"} -> ParseStringsWhitespaceDelimited(rest)
      [] cmd \in {"maintainer", "stopsignal", "user", "workdir"} -> ParseString(rest)
      [] cmd = "arg" -> ParseNameOrNameVal(rest, escape)
      [] cmd = "healthcheck" -> ParseHealthConfig(rest)
      [] cmd = "onbuild" -> Sub(rest)
      [] OTHER -> Args(<<>>)

\* the word of a command, "other" if it is none
CommandOf(word) == IF Len(word) = 1 /\ ToSet(word) \subseteq Commands THEN word[1] ELSE "other"

(* [ok, cmd, flags, args, json, original]; the original is the line        *)
NodeFromLine(line, escape, Sub(_)) ==
    LET Node(cmd, flags, parsed) ==
            [ok |-> parsed.ok, cmd |-> cmd, flags |-> flags, args |-> parsed.args,
             json |-> parsed.json, original |-> line]
        Split(cmd, split) == Node(cmd, split.flags, ParseArgs(cmd, split.args, escape, Sub))
        Words(text) == Split(CommandOf(FirstWord(text)), SplitFlags(AfterFirst(text)))
    IN  Words(Trim(line))

\* ONBUILD: the node of the instruction behind it is the child; what is behind another ONBUILD in
\* it is the end of the same text
ParseSubCommand(rest, escape) ==
    LET Child(node) == [Args(<<<<node.cmd>>>> \o node.args) EXCEPT !.ok = node.ok]
        sub[n \in 0 .. Len(rest)] ==
            IF n = 0 THEN Args(<<>>)
            ELSE Child(NodeFromLine(SubSeq(rest, Len(rest) - n + 1, Len(rest)), escape, LAMBDA r : sub[Len(r)]))
    IN  sub[Len(rest)]

NewNodeFromLine(line, escape) == NodeFromLine(line, escape, LAMBDA rest : ParseSubCommand(rest, escape))
=============================================================================
