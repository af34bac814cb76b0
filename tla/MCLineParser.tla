---------------------------- MODULE MCLineParser ----------------------------
(***************************************************************************)
(* Dockerfiles of a few lines for LineParser: every sequence of up to four *)
(* lines of the kinds that meet, and longer ones made to have heredocs     *)
(* after continuations, and lines too long for the scanner.                *)
(***************************************************************************)
EXTENDS LineParser

MCDelimiter == {"A", "B"}

Blank == [kind |-> "blank", indent |-> FALSE]
Comment(empty, indent) == [kind |-> "comment", indent |-> indent, empty |-> empty]
Directive(key, value) == [kind |-> "directive", indent |-> FALSE, key |-> key, value |-> value]
Text(cmd, last) == [kind |-> "text", indent |-> FALSE, cmd |-> cmd, last |-> last,
                    docs |-> <<>>, word |-> "none", long |-> FALSE]
Opens(t, docs) == [t EXCEPT !.docs = docs]
Word(w, tabs) == [Text("other", "none") EXCEPT !.word = w, !.indent = tabs]
Here(n, chomp) == [name |-> n, chomp |-> chomp]
Long == [Text("run", "none") EXCEPT !.long = TRUE]

Escape == Directive("escape", Backtick)
Silence == {Blank, Comment(FALSE, FALSE), Comment(TRUE, FALSE)}
Heading == {Escape, Directive("escape", "other"), Directive("syntax", "other"), Directive("other", "other")}
Continued == {Text("run", Backslash), Text("other", Backtick), Text("lone", Backslash)}
Plain == {Text("other", "none"), Text("bad", "none")}
Opening == {Opens(Text("run", "none"), <<Here("A", FALSE)>>),
            Opens(Text("run", "none"), <<Here("A", TRUE), Here("B", FALSE)>>),
            Opens(Text("other", "none"), <<Here("A", FALSE)>>)}
Closing == {Word("A", FALSE), Word("A", TRUE)}

Common == Silence \cup Heading \cup Continued \cup Plain \cup Opening \cup Closing

UpTo(n, S) == UNION {[1 .. k -> S] : k \in 0 .. n}

\* heredocs opened on continued lines, with everything in their bodies
Nested ==
    {<<h, a, b, c, d, e>> :
       h \in {Escape, Comment(TRUE, TRUE)},
       a \in {Opens(Text("run", t), <<Here("A", FALSE)>>) : t \in Tokens},
       b \in {Blank, Comment(FALSE, FALSE), Text("other", Backtick)},
       c \in {Opens(Text("other", "none"), <<Here("B", TRUE)>>), Word("A", FALSE)},
       d \in {Word("A", FALSE), Word("B", TRUE), Escape},
       e \in {Word("A", FALSE), Word("B", TRUE), Word("B", FALSE)}}

\* a line the scanner cannot hold, after every kind of line
Overlong ==
    {<<a, b, Long, d>> : a \in {Text("other", "none"), Escape}, b \in Common, d \in {Blank, Word("A", FALSE)}}

MCFiles == UpTo(4, Common) \cup Nested \cup Overlong
HeadFiles == UpTo(3, Heading \cup Plain \cup {Comment(FALSE, FALSE)})
=============================================================================
