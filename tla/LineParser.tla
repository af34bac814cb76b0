----------------------------- MODULE LineParser -----------------------------
(***************************************************************************)
(* parser.Parse (parser/parser.go): the loop that makes one node out of    *)
(* each instruction of a Dockerfile, with its continuation lines and       *)
(* heredocs, and DetectSyntax (dockerfile2llb/directives.go), which reads  *)
(* the same first lines on its own to find the frontend to use.            *)
(*                                                                         *)
(* A line is what the loop tells apart: an instruction's words are left    *)
(* out, and so is the word that joining two lines may make.  Lines are     *)
(* numbered from 1, as in the locations of nodes.                          *)
(***************************************************************************)
EXTENDS Integers, Sequences, FiniteSets, SequencesExt

CONSTANTS Files,               \* the Dockerfiles considered
          Delimiter            \* names of heredocs

Backslash == "backslash"
Backtick == "backtick"
Tokens == {Backslash, Backtick}

Doc == [name : Delimiter, chomp : BOOLEAN]

(* indent: white space comes first, tabs where a heredoc may end.  A       *)
(* comment may be empty; one of the form "# key = value" is a directive,   *)
(* if it comes early enough.  Text has the command it would begin an       *)
(* instruction with ("bad": the line parser refuses it, "lone": nothing    *)
(* but the continuation token), its last character if that is a token, the *)
(* heredocs it opens, the delimiter it consists of, and whether it exceeds *)
(* the scanner's buffer.                                                   *)
Line == [kind : {"blank"}, indent : BOOLEAN]
          \cup [kind : {"comment"}, indent : BOOLEAN, empty : BOOLEAN]
          \cup [kind : {"directive"}, indent : BOOLEAN, key : {"escape", "syntax", "other"},
                value : Tokens \cup {"other"}]
          \cup [kind : {"text"}, indent : BOOLEAN, cmd : {"run", "other", "bad", "lone"},
                last : Tokens \cup {"none"}, docs : Seq(Doc), word : Delimiter \cup {"none"},
                long : BOOLEAN]

ASSUME FileAssumption ==
    \A f \in Files : /\ f \in Seq(Line)
                     /\ \A i \in DOMAIN f : f[i].kind = "text" /\ f[i].cmd = "lone" => f[i].last \in Tokens

VARIABLES lines,               \* the Dockerfile
          pos,                 \* currentLine: the lines scanned
          scan,                \* the scanner: "ok", "overlong", or "spent" after that
          phase,               \* "first", "continuation", "node", "heredoc", "end", "done"
          escape, done, seen,  \* directives
          comments,            \* lines of the comments before the next instruction
          child,               \* the node being made
          todo,                \* its heredocs left to read
          children,            \* root.Children
          outcome              \* what Parse returned

directives == <<escape, done, seen>>
vars == <<lines, pos, scan, phase, directives, comments, child, todo, children, outcome>>

NoChild == [start |-> 0, end |-> 0, pieces |-> <<>>, docs |-> <<>>, bodies |-> <<>>,
            ends |-> <<>>, comments |-> <<>>, warned |-> FALSE]

Init == /\ lines \in Files
        /\ pos = 0 /\ scan = "ok" /\ phase = "first"
        /\ escape = Backslash /\ done = FALSE /\ seen = {}
        /\ comments = <<>> /\ child = NoChild /\ todo = <<>> /\ children = <<>>
        /\ outcome = "running"

-----------------------------------------------------------------------------
(* bufio.Scanner: a line longer than its buffer ends the scan with an      *)
(* error, but the next call still hands out what is in the buffer.         *)
IsLong(i) == lines[i].kind = "text" /\ lines[i].long

Scans == pos < Len(lines) /\ scan # "spent" /\ (IsLong(pos + 1) => scan = "overlong")

Token == lines[pos + 1]

Scanned == pos' = pos + 1 /\ scan' = IF scan = "overlong" THEN "spent" ELSE scan

ScanFails == /\ ~Scans
             /\ scan' = IF pos < Len(lines) /\ scan = "ok" THEN "overlong" ELSE scan
             /\ UNCHANGED pos

Fail(e) == /\ phase' = "done" /\ outcome' = e
           /\ UNCHANGED <<directives, comments, child, todo, children>>

-----------------------------------------------------------------------------
IsComment(t) == t.kind \in {"comment", "directive"}

\* mutation of Continues: the escape directive is not looked at
ContinuesBackslash(t) == t.last = Backslash

\* trimContinuationCharacter
Continues(t) == t.last = escape

\* a comment line; the hash of an indented one is taken for its text
Commented(t) == IF ~IsComment(t) THEN comments
                ELSE IF t.kind = "comment" /\ t.empty /\ ~t.indent THEN <<>>
                ELSE Append(comments, pos + 1)

IsDirective(t) == ~done /\ t.kind = "directive" /\ t.key \in {"escape", "syntax"}

BadDirective(t) == t.key \in seen \/ (t.key = "escape" /\ t.value \notin Tokens)

\* possibleParserDirective refuses the line
RefuseDirective ==
    /\ phase = "first" /\ Scans
    /\ IsDirective(Token) /\ BadDirective(Token)
    /\ Scanned
    /\ Fail("directive")

\* the line is a directive, a comment or blank: there is no instruction yet
PassLine ==
    /\ phase = "first" /\ Scans
    /\ Token.kind # "text"
    /\ IsDirective(Token) => ~BadDirective(Token)
    /\ Scanned
    /\ comments' = Commented(Token)
    /\ IF IsDirective(Token)
       THEN /\ seen' = seen \cup {Token.key}
            /\ escape' = IF Token.key = "escape" THEN Token.value ELSE escape
            /\ UNCHANGED done
       ELSE done' = TRUE /\ UNCHANGED <<escape, seen>>
    /\ UNCHANGED <<phase, child, todo, children, outcome>>

\* an instruction begins
BeginInstruction ==
    /\ phase = "first" /\ Scans
    /\ Token.kind = "text"
    /\ Scanned
    /\ done' = TRUE
    /\ child' = [NoChild EXCEPT !.start = pos + 1, !.pieces = <<pos + 1>>]
    /\ phase' = IF Continues(Token) THEN "continuation" ELSE "node"
    /\ UNCHANGED <<escape, seen, comments, todo, children, outcome>>

EndOfFile ==
    /\ phase = "first" /\ ScanFails
    /\ phase' = "end"
    /\ UNCHANGED <<directives, comments, child, todo, children, outcome>>

-----------------------------------------------------------------------------
\* the lines after a continuation token: comments are dropped, empty lines warned about
Continuation ==
    /\ phase = "continuation" /\ Scans
    /\ Scanned
    /\ child' = IF Token.kind = "text" THEN [child EXCEPT !.pieces = Append(@, pos + 1)]
                ELSE IF Token.kind = "blank" THEN [child EXCEPT !.warned = TRUE]
                ELSE child
    /\ phase' = IF Token.kind = "text" /\ ~Continues(Token) THEN "node" ELSE phase
    /\ UNCHANGED <<directives, comments, todo, children, outcome>>

NoContinuation ==
    /\ phase = "continuation" /\ ScanFails
    /\ phase' = "node"
    /\ UNCHANGED <<directives, comments, child, todo, children, outcome>>

-----------------------------------------------------------------------------
\* the command is the first word of the joined line, if there is one
Command ==
    LET worded == SelectSeq(child.pieces, LAMBDA i : lines[i].cmd # "lone")
    IN  IF worded = <<>> THEN "other" ELSE lines[Head(worded)].cmd

\* heredocsFromLine, for the commands that may have heredocs
HeredocsOf == IF Command = "run"
              THEN FlattenSeq([k \in DOMAIN child.pieces |-> lines[child.pieces[k]].docs])
              ELSE <<>>

MakeNode ==
    /\ phase = "node" /\ Command # "bad"
    /\ todo' = HeredocsOf
    /\ child' = [child EXCEPT !.comments = comments, !.docs = HeredocsOf]
    /\ phase' = "heredoc"
    /\ UNCHANGED <<pos, scan, directives, comments, children, outcome>>

BadInstruction ==
    /\ phase = "node" /\ Command = "bad"
    /\ Fail("instruction") /\ UNCHANGED <<pos, scan>>

\* mutation of Ends: leading tabs are always taken off
EndsAnyhow(t, doc) == t.kind = "text" /\ t.word = doc.name

\* the line is the delimiter, after leading tabs for <<-
Ends(t, doc) == t.kind = "text" /\ t.word = doc.name /\ (t.indent => doc.chomp)

\* the lines of the body so far
Body == IF Len(child.bodies) = Len(child.ends) THEN <<>> ELSE child.bodies[Len(child.bodies)]

Bodies(b) == IF Len(child.bodies) = Len(child.ends) THEN Append(child.bodies, b)
             ELSE [child.bodies EXCEPT ![Len(child.bodies)] = b]

HeredocLine ==
    /\ phase = "heredoc" /\ todo # <<>> /\ Scans
    /\ Scanned
    /\ IF Ends(Token, Head(todo))
       THEN /\ child' = [child EXCEPT !.bodies = Bodies(Body), !.ends = Append(@, pos + 1)]
            /\ todo' = Tail(todo)
       ELSE /\ child' = [child EXCEPT !.bodies = Bodies(Append(Body, pos + 1))]
            /\ UNCHANGED todo
    /\ UNCHANGED <<phase, directives, comments, children, outcome>>

Unterminated ==
    /\ phase = "heredoc" /\ todo # <<>> /\ ScanFails
    /\ Fail("unterminated")

\* mutation of AddChild: the comments stay for the next instruction
AddChildKeepsComments ==
    /\ phase = "heredoc" /\ todo = <<>>
    /\ children' = Append(children, [child EXCEPT !.end = pos])
    /\ phase' = "first"
    /\ UNCHANGED <<pos, scan, directives, comments, child, todo, outcome>>

AddChild ==
    /\ phase = "heredoc" /\ todo = <<>>
    /\ children' = Append(children, [child EXCEPT !.end = pos])
    /\ comments' = <<>>
    /\ phase' = "first"
    /\ UNCHANGED <<pos, scan, directives, child, todo, outcome>>

\* the error of the scanner is looked at last of all
Finish ==
    /\ phase = "end"
    /\ phase' = "done"
    /\ outcome' = IF children = <<>> THEN "empty"
                  ELSE IF scan # "ok" THEN "overlong" ELSE "parsed"
    /\ UNCHANGED <<pos, scan, directives, comments, child, todo, children>>

Next == /\ \/ RefuseDirective \/ PassLine \/ BeginInstruction \/ EndOfFile
           \/ Continuation \/ NoContinuation \/ MakeNode \/ BadInstruction
           \/ HeredocLine \/ Unterminated \/ AddChild \/ Finish
        /\ UNCHANGED lines

Spec == Init /\ [][Next]_vars

-----------------------------------------------------------------------------
(* ParseDirectives stops at the first line that has not the form of a      *)
(* directive, whatever its key; of two with the same key it keeps the last.*)
Formed == {i \in DOMAIN lines : \A j \in 1 .. i : lines[j].kind = "directive" /\ ~lines[j].indent}

\* DetectSyntax: the line of the syntax directive, 0 for none
DetectSyntax ==
    LET found == {i \in Formed : lines[i].key = "syntax"}
    IN  IF found = {} THEN 0 ELSE CHOOSE i \in found : \A j \in found : j <= i

-----------------------------------------------------------------------------
Parsed == outcome = "parsed"

Silent(i) == lines[i].kind # "text"

\* the lines a node was made from
PiecesOf(c) == {c.pieces[k] : k \in DOMAIN c.pieces}
BodyLinesOf(c) == UNION {{c.bodies[k][j] : j \in DOMAIN c.bodies[k]} : k \in DOMAIN c.bodies}
EndsOf(c) == {c.ends[k] : k \in DOMAIN c.ends}

(* Nothing of a Dockerfile that parses is lost or read twice: the ranges   *)
(* of its nodes, which errors and warnings point at, follow each other;    *)
(* every line outside them is blank or a comment, every line inside is     *)
(* part of the instruction or of a heredoc unless it is one too, no line   *)
(* was cut off by the scanner, and a node has the comments right before it.*)
LinesAccounted ==
    Parsed =>
        /\ \A i \in DOMAIN lines :
             LET owners == {c \in DOMAIN children : i \in children[c].start .. children[c].end}
             IN  /\ Cardinality(owners) <= 1 /\ ~IsLong(i)
                 /\ owners = {} => Silent(i)
                 /\ \A c \in owners :
                      LET parts == {p \in {PiecesOf(children[c]), BodyLinesOf(children[c]),
                                           EndsOf(children[c])} : i \in p}
                      IN  Cardinality(parts) = 1 \/ (parts = {} /\ Silent(i))
        /\ \A c \in DOMAIN children :
             LET after == IF c = 1 THEN 0 ELSE children[c - 1].end IN
             /\ children[c].start > after
             /\ \A k \in DOMAIN children[c].comments :
                  children[c].comments[k] \in after + 1 .. children[c].start - 1

\* the directives: known ones, before any other line
Directives ==
    {i \in DOMAIN lines : \A j \in 1 .. i : lines[j].kind = "directive" /\ lines[j].key # "other"}
MeantEscape ==
    IF \E i \in Directives : lines[i].key = "escape"
    THEN lines[CHOOSE i \in Directives : lines[i].key = "escape"].value ELSE Backslash

(* An instruction goes on exactly where a line ends in the escape token    *)
(* the Dockerfile has chosen, over comments and empty lines, and no choice *)
(* is made twice or after the first line that is not a directive.          *)
ContinuationIsMeant ==
    Parsed =>
        /\ \A i, j \in Directives : lines[i].key = lines[j].key => i = j
        /\ \A n \in DOMAIN children :
             LET c == children[n]
                 k == Len(c.pieces)
             IN  /\ c.pieces[1] = c.start
                 /\ \A j \in 1 .. k - 1 :
                      /\ lines[c.pieces[j]].last = MeantEscape
                      /\ \A i \in c.pieces[j] + 1 .. c.pieces[j + 1] - 1 : Silent(i)
                 /\ lines[c.pieces[k]].last = MeantEscape =>
                      \A i \in c.pieces[k] + 1 .. Len(lines) : Silent(i)
                 /\ c.docs = <<>> /\ lines[c.pieces[k]].last # MeantEscape => c.end = c.pieces[k]

(* A heredoc is the lines after those of the instruction, or of the        *)
(* heredoc before it, up to the first that is its delimiter: directives,   *)
(* comments, continuations and delimiters of other heredocs among them are *)
(* text.                                                                   *)
HeredocIsVerbatim ==
    Parsed =>
        \A n \in DOMAIN children :
            LET c == children[n]
                before(k) == IF k = 1 THEN c.pieces[Len(c.pieces)] ELSE c.ends[k - 1]
            IN  /\ Len(c.ends) = Len(c.docs) /\ Len(c.bodies) = Len(c.docs)
                /\ \A k \in DOMAIN c.docs :
                     /\ c.bodies[k] = [j \in 1 .. Len(c.bodies[k]) |-> before(k) + j]
                     /\ c.ends[k] = before(k) + Len(c.bodies[k]) + 1
                     /\ lines[c.ends[k]].word = c.docs[k].name
                     /\ lines[c.ends[k]].indent => c.docs[k].chomp
                     /\ \A j \in DOMAIN c.bodies[k] :
                          LET t == lines[c.bodies[k][j]]
                          IN  t.kind = "text" /\ t.word = c.docs[k].name => t.indent /\ ~c.docs[k].chomp
                /\ c.docs # <<>> => c.end = c.ends[Len(c.ends)]

(* "Parser directives must precede any builder instruction or other        *)
(* comments, and cannot be repeated" (possibleParserDirective): in a        *)
(* Dockerfile that parses, the line the frontend is chosen by is one.      *)
SyntaxIsDirective == Parsed /\ DetectSyntax # 0 => DetectSyntax \in Directives
=============================================================================
