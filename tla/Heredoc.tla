------------------------------- MODULE Heredoc -------------------------------
(***************************************************************************)
(* The heredocs of a line (parser/parser.go): the words the parser takes   *)
(* for heredocs, whose bodies it reads from the following lines, and the   *)
(* same reading of a single word, by which ADD and COPY tell sources that  *)
(* are heredocs from paths.                                                *)
(***************************************************************************)
EXTENDS InstructionLine

NoEnv == [name \in {} |-> <<>>]

\* heredocFromMatch: "none" for a word that is no heredoc, "error" for one it cannot read
NoHeredoc == [kind |-> "none", name |-> <<>>, expand |-> FALSE, chomp |-> FALSE]
HeredocError == [NoHeredoc EXCEPT !.kind = "error"]

QuotesIn(word) == Cardinality({i \in DOMAIN word : word[i] \in Quotes})

\* mutation of HeredocOf: a quoted word does not keep its body from being expanded
HeredocOfExpands(chomp, plain, raw) ==
    IF ~plain.ok THEN HeredocError
    ELSE IF Len(plain.words) # 1 THEN NoHeredoc
    ELSE IF ~raw.ok \/ Len(raw.words) # 1 THEN HeredocError
    ELSE [kind |-> "heredoc", name |-> plain.words[1], chomp |-> chomp, expand |-> TRUE]

\* of the word with and without its quotes
HeredocOf(chomp, plain, raw) ==
    IF ~plain.ok THEN HeredocError
    ELSE IF Len(plain.words) # 1 THEN NoHeredoc
    ELSE IF ~raw.ok \/ Len(raw.words) # 1 THEN HeredocError
    ELSE [kind |-> "heredoc", name |-> plain.words[1], chomp |-> chomp,
          expand |-> QuotesIn(plain.words[1]) = QuotesIn(raw.words[1])]

ParseHeredoc(src) ==
    LET IsDigit(c) == c \in Digits
        arrow == RunEnd(src, 1, IsDigit)
        chomp == At(src, arrow + 1) = "-"
        rest == SubSeq(src, arrow + (IF chomp THEN 2 ELSE 1), Len(src))
        Lexed(raw) == Process([NewLex(Backslash) EXCEPT !.skipUnset = TRUE, !.rawQuotes = raw], NoEnv, rest)
    IN  IF At(src, arrow) # "<<" \/ rest = <<>> \/ "<<" \in ToSet(rest) THEN NoHeredoc
        ELSE HeredocOf(chomp, Lexed(FALSE), Lexed(TRUE))

IsHeredoc(word) == ParseHeredoc(word).kind = "heredoc"

\* heredocsFromLine: [ok, docs], of the words with their quotes and escapes; none if the lexer fails
HeredocsAmong(read) ==
    [ok |-> \A i \in DOMAIN read : read[i].kind # "error",
     docs |-> SelectSeq(read, LAMBDA d : d.kind = "heredoc")]

HeredocsFromLine(line) ==
    LET lx == [NewLex(Backslash) EXCEPT !.rawQuotes = TRUE, !.rawEscapes = TRUE, !.skipUnset = TRUE]
        ReadAll(words) == [i \in DOMAIN words |-> ParseHeredoc(words[i])]
    IN  HeredocsAmong(ReadAll(Process(lx, NoEnv, line).words))

\* canContainHeredoc, of the instruction behind ONBUILD if there is one
CanContainHeredoc(node, escape) ==
    LET Can(inner) == inner.cmd \in {"add", "copy", "run"} /\ ~inner.json
    IN  Can(IF node.cmd = "onbuild" /\ node.args # <<>>
            THEN NewNodeFromLine(SplitFlags(AfterFirst(Trim(node.original))).args, escape)
            ELSE node)
=============================================================================
