----------------------------- MODULE MCDispatch -----------------------------
(***************************************************************************)
(* Small stage graphs for Dispatch: two stages in a chain whose            *)
(* instructions meet in every pair, and hand-made graphs for siblings,     *)
(* forward references and triggers.                                        *)
(***************************************************************************)
EXTENDS Dispatch, TLC

CONSTANT absent

\* instructions
I(op, key, val) == [op |-> op, key |-> key, val |-> val, bad |-> FALSE]
CopyFrom(src) == I("Copy", "", "c") @@ [from |-> src, paths |-> {}]
CopyPath(p) == I("Copy", "", "p") @@ [from |-> Context, paths |-> {p}]
AddPaths(ps) == I("Add", "", "a") @@ [paths |-> ps]
Mount(type, src, p) == [type |-> type, from |-> src, path |-> p]
RunWith(ms) == I("Run", "", "r") @@ [mounts |-> ms]
Dir(abs, path) == I("WorkingDir", "", [abs |-> abs, path |-> path])
OnBuild(c) == I("OnBuild", "", c)
Bad(c) == [c EXCEPT !.bad = TRUE]

Up(c, layer) == [op |-> c.op, key |-> c.key, val |-> c.val, stage |-> 0, layer |-> layer]

\* the images stages start from
Plain == <<Up(I("Env", "K", "up"), FALSE), Up(RunWith({}), TRUE), Up(I("Cmd", "exec", "up"), FALSE)>>
Triggering == <<Up(I("Labels", "l", "up"), FALSE),
                Up(OnBuild(I("Env", "K", "trigger")), FALSE),
                Up(OnBuild(CopyPath("/t")), FALSE)>>

St(kind, base, upstream, spare, cmds) ==
    [kind |-> kind, base |-> base, upstream |-> upstream, spare |-> spare, cmds |-> cmds]

Lists(set) == {<<>>} \cup {<<a>> : a \in set} \cup {<<a, b>> : a, b \in set}

First == {I("Env", "K", "1"), I("Arg", "K", "2"), I("Arg", "B", absent), I("Labels", "x", "1"),
          I("Cmd", "exec", "1"), I("Entrypoint", "exec", "1"), Dir(TRUE, <<>>),
          Dir(TRUE, <<"w">>), Dir(FALSE, <<"v">>), OnBuild(I("Cmd", "exec", "t")), OnBuild(RunWith({}))}
Second == {I("Arg", "K", "3"), I("Env", "K", "4"), I("Cmd", "shell", "2"), I("Entrypoint", "shell", "2"), Dir(FALSE, <<"u">>),
           I("Volumes", "v", "1"), I("Labels", "y", "1"), Bad(I("ExposedPorts", "p", "1")),
           CopyPath("/a"), RunWith({Mount("bind", Context, "/m"), Mount("cache", Context, "/c")})}

\* FROM image AS one; FROM one: every pair of lists
Bases == {St("image", 0, Plain, 1, <<>>), St("scratch", 0, <<>>, 0, <<>>),
          St("context", 0, Triggering, 1, <<>>), St("override", 0, Plain, 1, <<>>)}
Chains ==
    {<<[b EXCEPT !.cmds = l], St("stage", 1, <<>>, 0, m)>> :
        b \in {c \in Bases : c.kind # "override"}, l \in Lists(First), m \in {<<a>> : a \in Second} \cup {<<>>}}
    \cup {<<b, St("stage", 1, <<>>, 0, m)>> : b \in Bases, m \in Lists(Second)}

Mounts(type, p) == {Mount("bind", 3, "/"), Mount("secret", Context, "/s"), Mount(type, Context, p)}

\* every other instruction, three stages in a row, a source before its reader
Rows ==
    {<<St("image", 0, Plain, 2, <<I("User", "", "u"), I("Author", "", "m"), I("StopSignal", "", "s")>>),
       St("stage", 1, <<>>, 0, <<I("Healthcheck", "", "h"), I("Shell", "", "s"), AddPaths(ps), I("ExposedPorts", "q", "1")>>),
       St("image", 0, <<>>, 0, <<I("User", "", "v"), RunWith({})>>),
       St("stage", 2, <<>>, 0, <<I("Cmd", "shell", "k"), I("Shell", "", "z"), I("Author", "", "n"),
                                 I("Entrypoint", "shell", "e"), CopyFrom(3),
                                 RunWith(Mounts(type, p))>>)>> :
       ps \in {{}, {"/x"}, {"/", "/x"}}, type \in {"bind", "tmpfs"}, p \in {"/", "/y"}}

ChainPlans == Chains \cup Rows

\* FROM image AS one; FROM one AS two; FROM one AS three; FROM two, COPY --from=three
SiblingPlans ==
    {<<St("image", 0, Plain, spare, <<I("Env", "K", "1")>>), St("stage", 1, <<>>, 0, l),
       St("stage", 1, <<>>, 0, m), St("stage", 2, <<>>, 0, <<CopyFrom(3)>>)>> :
       spare \in {0, 1, 2}, l \in {<<I("Labels", "x", "1")>>, <<RunWith({})>>},
       m \in {<<I("Env", "K", "2")>>, <<I("Labels", "y", "1")>>}}

\* COPY --from a later stage, by an instruction, of a stage based on the one that copies,
\* and by a trigger
ForwardPlans ==
    {<<St("image", 0, Plain, 1, <<CopyFrom(2)>>), St("image", 0, Plain, 0, <<RunWith({})>>),
       St("stage", 1, <<>>, 0, <<>>)>>,
     <<St("image", 0, Triggering, 1, <<CopyFrom(2)>>), St("stage", 1, <<>>, 0, <<I("Labels", "y", "1")>>)>>,
     <<St("image", 0, Plain, 1, <<OnBuild(CopyFrom(Fresh))>>), St("stage", 1, <<>>, 0, <<CopyPath("/a")>>)>>}

AllPlans == ChainPlans \cup SiblingPlans \cup ForwardPlans

\* the instructions of the plans and of the images they start from, and the triggers
Others ==
    {I("Env", "K", v) : v \in {"up", "1", "2", "trigger"}}
    \cup {I("Cmd", "exec", "up"), I("Cmd", "shell", "k"), I("Entrypoint", "shell", "e")}
    \cup {I("User", "", v) : v \in {"u", "v"}} \cup {I("Author", "", v) : v \in {"m", "n"}}
    \cup {I("Shell", "", v) : v \in {"s", "z"}} \cup {I("StopSignal", "", "s"), I("Healthcheck", "", "h")}
    \cup {I("ExposedPorts", "q", "1"), I("Labels", "l", "up")}
    \cup {AddPaths(ps) : ps \in {{}, {"/x"}, {"/", "/x"}}}
    \cup {CopyFrom(src) : src \in {Fresh, 2, 3}} \cup {CopyPath("/t")}
    \cup {RunWith({})} \cup {RunWith(Mounts(type, p)) : type \in {"bind", "tmpfs"}, p \in {"/", "/y"}}
Untriggered == First \cup Second \cup Others
AllInstructions ==
    Untriggered \cup {OnBuild(c) : c \in {I("Env", "K", "trigger"), CopyPath("/t"), CopyFrom(Fresh)}}
                \cup {c.val : c \in {b \in Untriggered : b.op = "OnBuild"}}
=============================================================================
