------------------------------ MODULE ShellWord ------------------------------
(***************************************************************************)
(* The shell lexer (parser/shell/lex.go): what is left of a word when its  *)
(* quotes, escapes and variables are processed, as one string              *)
(* (ProcessWord) and as the words it splits into (ProcessWords).           *)
(*                                                                         *)
(* A word is a sequence of characters.  The lexer tells apart those named  *)
(* here; any other string, such as "from", stands for a run of letters.    *)
(* No character of a word is EOF.                                          *)
(***************************************************************************)
EXTENDS Integers, Sequences, SequencesExt

Backslash == "\\"
Backtick == "backtick"
SingleQuote == "'"
DoubleQuote == "\""
Quotes == {SingleQuote, DoubleQuote}
Space == " "
EOF == "EOF"

Digits == {"0", "1", "7"}
SpecialParams == {"@", "*", "#", "?", "-", "$", "!", "0"}
Punctuation == Quotes \cup SpecialParams
                 \cup {Backslash, Backtick, Space, EOF, "{", "}", ":", "+", "=", ",", ".", "/", "<<", "[", "]"}

(* A lexer is [escape, rawQuotes, rawEscapes, skipUnset]; an environment   *)
(* maps names to values, both sequences of characters.                     *)
\* mutation of NewLex: the escape directive is forgotten
NewLexBackslash(escape) ==
    [escape |-> Backslash, rawQuotes |-> FALSE, rawEscapes |-> FALSE, skipUnset |-> FALSE]

NewLex(escape) ==
    [escape |-> escape, rawQuotes |-> FALSE, rawEscapes |-> FALSE, skipUnset |-> FALSE]

\* scanner.Peek at position i
At(s, i) == IF i <= Len(s) THEN s[i] ELSE EOF

\* what has been read, the parts it has for the words, and the position after it
Failure == [ok |-> FALSE, text |-> <<>>, parts |-> <<>>, next |-> 0]
Read(text, next) == [ok |-> TRUE, text |-> text, parts |-> <<>>, next |-> next]

-----------------------------------------------------------------------------
(* wordsStruct: the words so far and the one being made                    *)
NoWords == [word |-> <<>>, words |-> <<>>, inWord |-> FALSE]

AddRawString(w, str) == [w EXCEPT !.word = @ \o str, !.inWord = TRUE]

GetWords(w) == IF w.word = <<>> THEN w.words ELSE Append(w.words, w.word)

AddChar(w, c) ==
    IF c # Space THEN AddRawString(w, <<c>>)
    ELSE IF w.inWord /\ w.word # <<>> THEN [NoWords EXCEPT !.words = GetWords(w)]
    ELSE w

AddString(w, str) == FoldLeft(AddChar, w, str)

\* a part of what is read, which may split the word it comes in
AddPart(w, part) == IF part.splits THEN AddString(w, part.text) ELSE AddRawString(w, part.text)

-----------------------------------------------------------------------------
\* the first position from i on that is not of the class
RunEnd(s, i, Is(_)) ==
    CHOOSE j \in i .. Len(s) + 1 :
        /\ j <= Len(s) => ~Is(s[j])
        /\ \A k \in i .. j - 1 : Is(s[k])

\* processName: digits, or one special parameter, or letters and digits
NameEnd(s, i) ==
    LET c == At(s, i)
        InName(d) == d \notin Punctuation \/ d \in Digits
        IsDigit(d) == d \in Digits
    IN  IF c = EOF THEN i
        ELSE IF c \in Digits THEN RunEnd(s, i, IsDigit)
        ELSE IF c \in SpecialParams THEN i + 1
        ELSE RunEnd(s, i, InName)

\* processSingleQuote, from the opening quote at i
ProcessSingleQuote(lx, s, i) ==
    LET Inside(c) == c # SingleQuote
        j == RunEnd(s, i + 1, Inside)
        text == SubSeq(s, i + 1, j - 1)
    IN  IF j > Len(s) THEN Failure
        ELSE Read(IF lx.rawQuotes THEN SubSeq(s, i, j) ELSE text, j + 1)

\* a $, and perhaps a brace, in front of start, with a name up to end: what it asks for, and
\* where the word behind a modifier begins
DollarForm(s, start, end) ==
    LET colon == At(s, end) = ":"
    IN  [braced |-> s[start - 1] = "{", name |-> SubSeq(s, start, end - 1),
         bad |-> At(s, start) \in {EOF, "{", "}", ":"}, end |-> end, closed |-> At(s, end) = "}", colon |-> colon,
         modifier |-> IF colon THEN At(s, end + 1) ELSE IF At(s, end) = "?" THEN "?" ELSE EOF,
         word |-> IF colon THEN end + 2 ELSE end + 1]

DollarAt(s, i) ==
    LET start == IF At(s, i + 1) = "{" THEN i + 2 ELSE i + 1
    IN  DollarForm(s, start, NameEnd(s, start))

\* ${name...}, once the word behind its modifier is read
Modified(form, word, found, value) ==
    CASE form.modifier = "+" -> Read(IF value = <<>> THEN <<>> ELSE word.text, word.next)
      [] form.modifier = "-" -> Read(IF value = <<>> THEN word.text ELSE value, word.next)
      [] form.modifier = "?" ->
           IF ~found \/ (form.colon /\ value = <<>>) THEN Failure ELSE Read(value, word.next)

ProcessDollar(lx, env, s, i, form, word) ==
    LET found == form.name \in DOMAIN env
        value == IF found THEN env[form.name] ELSE <<>>
        unset == ~found /\ lx.skipUnset
    IN  CASE ~form.braced /\ form.name = <<>> -> Read(<<"$">>, form.end)
          [] ~form.braced /\ form.name # <<>> -> Read(IF unset THEN <<"$">> \o form.name ELSE value, form.end)
          [] form.braced /\ form.bad -> Failure
          [] form.braced /\ ~form.bad /\ form.closed ->
               Read(IF unset THEN SubSeq(s, i, form.end) ELSE value, form.end + 1)
          [] OTHER ->
               IF form.modifier \notin {"+", "-", "?"} \/ ~word.ok THEN Failure
               ELSE IF unset THEN Read((SubSeq(s, i, form.word - 1) \o word.text) \o <<"}">>, word.next)
               ELSE Modified(form, word, found, value)

\* what was read with a text in front of it
InFront(text, word, splits, rest) ==
    IF ~rest.ok THEN Failure
    ELSE [rest EXCEPT !.text = text \o @, !.parts = <<[text |-> word, splits |-> splits]>> \o @]

(* From position i on, where Rest gives what is read from later positions: *)
(* processStopOn up to the end or a brace, and processDoubleQuote, whose   *)
(* loop is the same but for what may be quoted and escaped, up to a double *)
(* quote.  A double quote in the former is the latter, between its quotes. *)
ReadFrom(lx, env, s, i, stop, Rest(_, _)) ==
    LET c == At(s, i)
        d == At(s, i + 1)
        quoted == stop = DoubleQuote
        form == DollarAt(s, i)
        Raw(on) == IF on THEN <<c>> ELSE <<>>
        Special(read) == IF ~read.ok THEN Failure
                         ELSE InFront(read.text, read.text, c = "$", Rest(read.next, stop))
        Opened(read) == [read EXCEPT !.text = Raw(lx.rawQuotes) \o @]
        escapes == d # EOF /\ (quoted => d \in {DoubleQuote, "$", lx.escape})
        escaped == IF escapes THEN <<d>> ELSE <<>>
    IN  IF c = EOF THEN IF stop = EOF THEN Read(<<>>, i) ELSE Failure
        ELSE IF c = stop THEN Read(Raw(quoted /\ lx.rawQuotes), i + 1)
        ELSE IF c = "$" THEN Special(ProcessDollar(lx, env, s, i, form, Rest(form.word, "}")))
        ELSE IF c = SingleQuote /\ ~quoted THEN Special(ProcessSingleQuote(lx, s, i))
        ELSE IF c = DoubleQuote THEN Special(Opened(Rest(i + 1, DoubleQuote)))
        ELSE IF c = lx.escape
        THEN InFront(Raw(quoted /\ lx.rawEscapes) \o (IF escapes THEN <<d>> ELSE Raw(quoted)),
                     Raw(lx.rawEscapes) \o escaped, FALSE, Rest(IF escapes THEN i + 2 ELSE i + 1, stop))
        ELSE InFront(<<c>>, <<c>>, TRUE, Rest(i + 1, stop))

StopOn(lx, env, s) ==
    LET read[p \in (1 .. Len(s) + 1) \X {EOF, "}", DoubleQuote}] ==
            ReadFrom(lx, env, s, p[1], p[2], LAMBDA i, stop : read[<<i, stop>>])
    IN  read

\* [ok, text, words]: ProcessWord returns the text, ProcessWords the words
Process(lx, env, s) ==
    LET Words(read) == IF read.ok THEN GetWords(FoldLeft(AddPart, NoWords, read.parts)) ELSE <<>>
        Result(read) == [ok |-> read.ok, text |-> read.text, words |-> Words(read)]
    IN  Result(StopOn(lx, env, s)[<<1, EOF>>])
=============================================================================
