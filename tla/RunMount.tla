------------------------------ MODULE RunMount ------------------------------
(***************************************************************************)
(* One --mount of a RUN instruction (parser/instructions/                  *)
(* commands_runmount.go).  It is read twice: when the Dockerfile is        *)
(* parsed, for the stage it comes from only, and when the instruction is   *)
(* dispatched, with variables expanded, for everything.                    *)
(*                                                                         *)
(* Keys, types and booleans are in lower case.  A number is a run of       *)
(* digits, all of them octal, and none is too large for 32 bits.           *)
(***************************************************************************)
EXTENDS InstructionLine

MountTypes == {"bind", "cache", "tmpfs", "secret", "ssh"}
SharingTypes == {"shared", "private", "locked"}

(* csv.Reader.Read of one line: fields between commas, quoted ones between *)
(* double quotes, which are doubled inside                                 *)
CSVChar(st, c) ==
    CASE st.phase \in {"start", "plain", "closing"} /\ c = "," ->
           [st EXCEPT !.phase = "start", !.fields = Append(@, st.field), !.field = <<>>]
      [] st.phase = "start" /\ c = DoubleQuote -> [st EXCEPT !.phase = "quoted"]
      [] st.phase = "quoted" /\ c = DoubleQuote -> [st EXCEPT !.phase = "closing"]
      [] st.phase = "closing" /\ c = DoubleQuote -> [st EXCEPT !.phase = "quoted", !.field = Append(@, c)]
      [] st.phase = "quoted" /\ c # DoubleQuote -> [st EXCEPT !.field = Append(@, c)]
      [] st.phase \in {"start", "plain"} /\ c \notin {DoubleQuote, ","} ->
           [st EXCEPT !.phase = "plain", !.field = Append(@, c)]
      [] OTHER -> [st EXCEPT !.phase = "bad"]

ReadCSV(value) ==
    LET Record(st) == [ok |-> value # <<>> /\ st.phase \notin {"bad", "quoted"}, fields |-> Append(st.fields, st.field)]
    IN  Record(FoldLeft(CSVChar, [phase |-> "start", field |-> <<>>, fields |-> <<>>], value))

-----------------------------------------------------------------------------
IsNumber(value) == value # <<>> /\ ToSet(value) \subseteq Digits
IsTrue(value) == value \in {<<"true">>, <<"t">>, <<"1">>}
IsBool(value) == IsTrue(value) \/ value \in {<<"false">>, <<"f">>, <<"0">>}

\* the word as a member of the set, "none" if it is none
OneOf(word, set) == IF Len(word) = 1 /\ word[1] \in set THEN word[1] ELSE "none"

Keys == {"type", "from", "source", "src", "target", "dst", "destination", "readonly", "ro",
         "readwrite", "rw", "required", "size", "id", "sharing", "mode", "uid", "gid"}

\* owners: those of mode, uid and gid that are set
NewMount == [ok |-> TRUE, type |-> "bind", from |-> <<>>, source |-> <<>>, target |-> <<>>,
             readonly |-> FALSE, roAuto |-> TRUE, required |-> FALSE, size |-> <<>>,
             id |-> <<>>, sharing |-> "none", owners |-> {}]

Refuse(m) == [m EXCEPT !.ok = FALSE]
SetReadOnly(m, ro) == [m EXCEPT !.readonly = ro, !.roAuto = FALSE]

\* a field that is a key alone, in the second pass
KeyOnly(m, key) ==
    CASE key \in {"readonly", "ro"} -> SetReadOnly(m, TRUE)
      [] key \in {"readwrite", "rw"} -> SetReadOnly(m, FALSE)
      [] key = "required" /\ m.type \in {"secret", "ssh"} -> [m EXCEPT !.required = TRUE]
      [] OTHER -> Refuse(m)

\* a field key=value whose value has been processed
KeyValue(m, key, value) ==
    LET If(valid, set) == IF valid THEN set ELSE Refuse(m)
    IN  CASE key = "type" -> If(OneOf(value, MountTypes) # "none", [m EXCEPT !.type = OneOf(value, MountTypes)])
          [] key = "from" -> [m EXCEPT !.from = value]
          [] key \in {"source", "src"} -> [m EXCEPT !.source = value]
          [] key \in {"target", "dst", "destination"} -> [m EXCEPT !.target = value]
          [] key \in {"readonly", "ro"} -> If(IsBool(value), SetReadOnly(m, IsTrue(value)))
          [] key \in {"readwrite", "rw"} -> If(IsBool(value), SetReadOnly(m, ~IsTrue(value)))
          [] key = "required" -> If(m.type \in {"secret", "ssh"} /\ IsBool(value),
                                    [m EXCEPT !.required = IsTrue(value)])
          [] key = "size" -> If(m.type = "tmpfs" /\ IsNumber(value), [m EXCEPT !.size = value])
          [] key = "id" -> [m EXCEPT !.id = value]
          [] key = "sharing" -> If(OneOf(value, SharingTypes) # "none",
                                   [m EXCEPT !.sharing = OneOf(value, SharingTypes)])
          [] key \in {"mode", "uid", "gid"} -> If(IsNumber(value), [m EXCEPT !.owners = @ \cup {key}])
          [] OTHER -> Refuse(m)

\* mutation of Finish: the default of readonly takes the place of what is said
FinishAlwaysAuto(m) ==
    LET auto == [m EXCEPT !.readonly = m.type \notin {"cache", "tmpfs"}]
    IN  IF \/ m.owners # {} /\ m.type \notin {"secret", "ssh", "cache"}
           \/ m.sharing # "none" /\ m.type # "cache"
           \/ /\ m.type = "secret"
              /\ \/ m.from # <<>>
                 \/ m.source = <<>> /\ m.target = <<>> /\ m.id = <<>>
                 \/ m.source # <<>> /\ m.id # <<>>
        THEN Refuse(auto) ELSE auto

\* the checks at the end, made in either pass
Finish(m) ==
    LET auto == IF m.roAuto THEN [m EXCEPT !.readonly = m.type \notin {"cache", "tmpfs"}] ELSE m
    IN  IF \/ m.owners # {} /\ m.type \notin {"secret", "ssh", "cache"}
           \/ m.sharing # "none" /\ m.type # "cache"
           \/ /\ m.type = "secret"
              /\ \/ m.from # <<>>
                 \/ m.source = <<>> /\ m.target = <<>> /\ m.id = <<>>
                 \/ m.source # <<>> /\ m.id # <<>>
        THEN Refuse(auto) ELSE auto

\* the first pass: nothing is expanded, so only from is looked at, which may not have a variable
HasVariable(value) == \E i \in DOMAIN value : value[i] = "$" /\ i < Len(value)

\* mutation of FirstPass: a variable is taken for the name of a stage
FirstPassUnchecked(m, field) ==
    IF ~m.ok \/ ~HasEq(field) \/ Key(field) # <<"from">> THEN m ELSE KeyValue(m, "from", Value(field))

FirstPass(m, field) ==
    IF ~m.ok \/ ~HasEq(field) \/ Key(field) # <<"from">> THEN m
    ELSE IF HasVariable(Value(field)) THEN Refuse(m)
    ELSE KeyValue(m, "from", Value(field))

\* the second pass: every value is expanded
SecondPass(lx, env, m, field) ==
    LET Expanded(value) == IF value.ok THEN KeyValue(m, OneOf(Key(field), Keys), value.text) ELSE Refuse(m)
    IN  IF ~m.ok THEN m
        ELSE IF ~HasEq(field) THEN KeyOnly(m, OneOf(field, Keys))
        ELSE Expanded(Process(lx, env, Value(field)))

ParsedMount(Pass(_, _), csv) ==
    IF csv.ok THEN Finish(FoldLeft(Pass, NewMount, csv.fields)) ELSE Refuse(NewMount)

ParseMount(value) == ParsedMount(FirstPass, ReadCSV(value))

ExpandMount(lx, env, value) ==
    LET Pass(m, field) == SecondPass(lx, env, m, field)
    IN  ParsedMount(Pass, ReadCSV(value))
=============================================================================
