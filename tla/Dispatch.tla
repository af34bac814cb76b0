------------------------------ MODULE Dispatch ------------------------------
(***************************************************************************)
(* The dispatch loop of Dockerfile2LLB (dockerfile2llb/convert.go): the    *)
(* reachable stages are gone through in list order; each takes over the    *)
(* state and the image config of its base, runs the base's ONBUILD         *)
(* triggers and then its own instructions.                                 *)
(*                                                                         *)
(* An image config is a Go struct copied by value: `clone' copies Env, Cmd *)
(* and Entrypoint, while the History slice and the Labels, ExposedPorts    *)
(* and Volumes maps keep pointing to the memory of the base's config.  So  *)
(* slices and maps are modelled as references into `arrays' and `maps'.    *)
(***************************************************************************)
EXTENDS Integers, Sequences, FiniteSets, StageDigraph

CONSTANTS Plans,               \* the stage graphs considered
          Instructions,        \* the instructions they are made of, and their triggers
          Names,               \* the elements of a WORKDIR's path
          FileOps,             \* values of useFileOp: whether the daemon has file operations
          OptLabels,           \* keys of opt.Labels
          Absent               \* a config value that is not set

(* A plan has, for every dispatch state in list order:                     *)
(*   kind      "stage" based on the state `base'; "image" pulled from a    *)
(*             registry; "context" given by a named context for the base   *)
(*             name, or without layers; "scratch"; "override", a stage a   *)
(*             named context replaced                                      *)
(*   upstream  the instructions the image it starts from was built with    *)
(*   spare     unused capacity of that image's history slice               *)
(*   cmds      its own instructions                                        *)
(* An instruction has an op, a key and a value, and `bad' when its         *)
(* dispatch fails; COPY has a source `from' and `paths', ADD the paths     *)
(* that are no URLs, RUN a set of mounts.  The value of an OnBuild is the  *)
(* instruction to run, that of a WORKDIR a list of path elements that may  *)
(* be absolute; the key of CMD and ENTRYPOINT is "shell" or "exec", their  *)
(* form.  A source is the number of a state, Context for the *)
(* build context, or Fresh for a state toCommand makes when a trigger      *)
(* names an image: it is added to no list, so nothing ever resolves it.    *)
Context == 0
Fresh == -1

MapFields == {"Labels", "ExposedPorts", "Volumes"}
SetFields == {"Author", "WorkingDir", "User", "StopSignal", "Healthcheck", "Shell"}

\* an instruction with the stage it ran in and whether it made a layer
Ran(c, stage, layer) == [op |-> c.op, key |-> c.key, val |-> c.val, stage |-> stage, layer |-> layer]

\* the images the stages start from were built with instructions too, in a stage 0
Upstream == {Ran(c, 0, layer) : c \in Instructions, layer \in BOOLEAN}

IsStage(s) ==
    /\ s.kind \in {"stage", "image", "context", "scratch", "override"}
    /\ s.upstream \in Seq(Upstream)
    /\ s.spare \in Nat
    /\ s.cmds \in Seq(Instructions)

ASSUME DispatchAssumption ==
    /\ FileOps \subseteq BOOLEAN
    /\ \A c \in Instructions :
         /\ c.op = "OnBuild" => c.val \in Instructions
         /\ c.op = "WorkingDir" => c.val \in [abs : BOOLEAN, path : Seq(Names)]
    /\ \A p \in Plans :
         /\ DOMAIN p = 1 .. Len(p) /\ Len(p) \in Nat
         /\ \A d \in DOMAIN p :
              /\ IsStage(p[d])
              /\ p[d].kind = "stage" => p[d].base \in 1 .. d - 1 /\ p[d].upstream = <<>>
              /\ p[d].kind = "override" => p[d].cmds = <<>>

VARIABLES plan, target,        \* the stages, and the one to build
          fileOp,              \* useFileOp
          cur,                 \* the stage the loop is at
          phase,               \* "stage", "triggers", "commands", "done", "failed"
          todo,                \* triggers, then instructions, left to dispatch
          ds,                  \* what the loop writes to the dispatch states
          arrays, maps,        \* the memory behind history slices and config maps
          ctxPaths,            \* context paths of the stages done
          log,                 \* history variable: the instructions behind each image
          reads                \* history variable: the sources read

vars == <<plan, target, fileOp, cur, phase, todo, ds, arrays, maps, ctxPaths, log, reads>>

Node == DOMAIN plan
S == ds[cur]

-----------------------------------------------------------------------------
(* Reference: what an image config is after a list of instructions, each   *)
(* tagged with the stage it ran in (0 for those of the image it is FROM).  *)
Which(l, Test(_)) == {i \in 1 .. Len(l) : Test(l[i])}
Latest(I) == CHOOSE i \in I : \A j \in I : j <= i

\* what a list has at the positions I, in its order
Kth(I, k) == CHOOSE i \in I : Cardinality({j \in I : j <= i}) = k
Picked(l, I) == [k \in 1 .. Cardinality(I) |-> l[Kth(I, k)]]

\* relative to the one before; the root and a directory that is not set are both <<>>
WorkdirOf(l) ==
    LET dir[i \in 0 .. Len(l)] ==
            IF i = 0 THEN <<>>
            ELSE IF l[i].op # "WorkingDir" THEN dir[i - 1]
            ELSE IF l[i].val.abs THEN l[i].val.path ELSE dir[i - 1] \o l[i].val.path
    IN  dir[Len(l)]

\* the value of the last instruction that sets a field
SetValue(l, f) ==
    LET I == Which(l, LAMBDA c : c.op = f)
    IN  IF f = "WorkingDir" THEN WorkdirOf(l)
        ELSE IF I = {} THEN Absent ELSE l[Latest(I)].val

\* the arguments of instruction i: in the shell form, run by the SHELL given before it
ArgsOf(l, i) ==
    IF l[i].key = "shell" THEN <<SetValue(SubSeq(l, 1, i - 1), "Shell"), l[i].val>> ELSE <<l[i].val>>

EntrypointOf(l) ==
    LET I == Which(l, LAMBDA c : c.op = "Entrypoint")
    IN  IF I = {} THEN Absent ELSE ArgsOf(l, Latest(I))

EnvOf(l) ==
    [k \in {l[i].key : i \in Which(l, LAMBDA c : c.op = "Env")} |->
       l[Latest(Which(l, LAMBDA c : c.op = "Env" /\ c.key = k))].val]

KeysOf(l, f) == {l[i].key : i \in Which(l, LAMBDA c : c.op = f)}

\* a CMD lasts until an ENTRYPOINT of a later stage
CmdOf(l) ==
    LET I == Which(l, LAMBDA c : c.op = "Cmd")
        i == Latest(I)
    IN  IF I = {} THEN Absent
        ELSE IF \E j \in i + 1 .. Len(l) : l[j].op = "Entrypoint" /\ l[j].stage # l[i].stage
             THEN Absent ELSE ArgsOf(l, i)

\* the triggers given
OnBuildOf(l) ==
    LET given == Picked(l, Which(l, LAMBDA c : c.op = "OnBuild"))
    IN  [i \in 1 .. Len(given) |-> given[i].val]

\* ONBUILD is the one instruction that leaves no history
HistoryOf(l) == Picked(l, Which(l, LAMBDA c : c.op # "OnBuild"))

LayersIn(h) == Cardinality(Which(h, LAMBDA c : c.layer))

-----------------------------------------------------------------------------
(* The memory.  A history slice is [arr, len] over one of the `arrays'; a  *)
(* map is named by the stage that made it, 0 for nil.                      *)
Capacity(h) == Len(arrays[h.arr])
Elements(h) == [i \in 1 .. h.len |-> arrays[h.arr][i]]

\* append(h, e): in place while there is capacity, else into twice the memory
Grown(h, e) == [i \in 1 .. (IF h.len = 0 THEN 1 ELSE 2 * h.len) |->
                  IF i <= h.len THEN arrays[h.arr][i] ELSE IF i = h.len + 1 THEN e ELSE Absent]
\* mutation of AppendTo: the last entry is overwritten
AppendOverLast(h, e) ==
    IF h.len < Capacity(h)
    THEN [slice |-> [h EXCEPT !.len = @ + 1], mem |-> [arrays EXCEPT ![h.arr][h.len] = e]]
    ELSE [slice |-> [arr |-> Len(arrays) + 1, len |-> h.len + 1], mem |-> Append(arrays, Grown(h, e))]

AppendTo(h, e) ==
    IF h.len < Capacity(h)
    THEN [slice |-> [h EXCEPT !.len = @ + 1], mem |-> [arrays EXCEPT ![h.arr][h.len + 1] = e]]
    ELSE [slice |-> [arr |-> Len(arrays) + 1, len |-> h.len + 1], mem |-> Append(arrays, Grown(h, e))]

-----------------------------------------------------------------------------
CountedOps == {"Add", "Copy", "Run"} \cup (IF fileOp THEN {"WorkingDir"} ELSE {})

\* cmdTotal, as the registration of the stages computes it
Total(d) ==
    IF plan[d].kind = "override" THEN 0
    ELSE Cardinality(Which(plan[d].cmds, LAMBDA c : c.op \in CountedOps))
         + (IF plan[d].kind \in {"image", "context"} THEN 1 ELSE 0)

SourcesIn(c) ==
    (CASE c.op = "Copy" -> {c.from}
       [] c.op = "Run" -> {m.from : m \in c.mounts}
       [] OTHER -> {}) \ {Context, Fresh}

Edges == [d \in Node |-> (IF plan[d].kind = "stage" THEN {plan[d].base} ELSE {})
                           \cup UNION {SourcesIn(plan[d].cmds[i]) : i \in DOMAIN plan[d].cmds}]
Reachable(d) == Reaches(Edges, target, d)

\* a state as the resolution of the base images leaves it
Resolved(d) ==
    LET l == plan[d].upstream
    IN  [layers   |-> LayersIn(HistoryOf(l)),
         env      |-> [k \in {} |-> Absent],
         hist     |-> [arr |-> d, len |-> Len(HistoryOf(l))],
         maps     |-> [f \in MapFields |-> IF KeysOf(l, f) = {} THEN 0 ELSE d],
         imageEnv |-> EnvOf(l),
         fields   |-> [f \in SetFields |-> SetValue(l, f)],
         cmd      |-> CmdOf(l),
         entrypoint |-> EntrypointOf(l),
         onBuild  |-> OnBuildOf(l),
         cmdSet   |-> FALSE,
         cmdIndex |-> IF plan[d].kind = "image" THEN 1 ELSE 0,
         ctxPaths |-> {}]

Init ==
    /\ plan \in Plans
    /\ target \in DOMAIN plan
    /\ fileOp \in FileOps
    /\ cur = 1 /\ phase = "stage" /\ todo = <<>>
    /\ ds = [d \in Node |-> Resolved(d)]
    /\ arrays = [d \in Node |-> HistoryOf(plan[d].upstream) \o [i \in 1 .. plan[d].spare |-> Absent]]
    /\ maps = [f \in MapFields |-> [d \in Node |-> KeysOf(plan[d].upstream, f)]]
    /\ ctxPaths = {} /\ reads = {}
    /\ log = [d \in Node |-> plan[d].upstream]

-----------------------------------------------------------------------------
\* isReachable(target, d) is false
SkipStage ==
    /\ phase = "stage" /\ cur <= Len(plan) /\ ~Reachable(cur)
    /\ cur' = cur + 1
    /\ UNCHANGED <<phase, todo, ds, arrays, maps, ctxPaths, log, reads>>

AddEnv(e, k, v) == [n \in DOMAIN e \cup {k} |-> IF n = k THEN v ELSE e[n]]

\* the PATH every image gets
WithPath(e) == IF "PATH" \in DOMAIN e THEN e ELSE AddEnv(e, "PATH", "default")

\* every variable of e added to f
Over(e, f) == [n \in DOMAIN e \cup DOMAIN f |-> IF n \in DOMAIN e THEN e[n] ELSE f[n]]

\* mutation of WithImageEnv: what the base's state has wins
WithImageEnvUnder(s) ==
    LET image == WithPath(s.imageEnv)
    IN  [s EXCEPT !.imageEnv = image, !.env = Over(@, image)]

\* the image's environment is put into the state again
WithImageEnv(s) ==
    LET image == WithPath(s.imageEnv)
    IN  [s EXCEPT !.imageEnv = image, !.env = Over(image, @)]

\* mutation of Inherited: the steps of the base are counted again
InheritedWithCount(s, b) == [b EXCEPT !.cmdSet = s.cmdSet, !.ctxPaths = s.ctxPaths]

\* clone: the child starts with the base's values, its own counters and flags
Inherited(s, b) ==
    [s EXCEPT !.layers = b.layers, !.env = b.env, !.hist = b.hist, !.maps = b.maps,
              !.imageEnv = b.imageEnv, !.fields = b.fields, !.cmd = b.cmd,
              !.entrypoint = b.entrypoint, !.onBuild = b.onBuild]

BeginStage ==
    /\ phase = "stage" /\ cur <= Len(plan) /\ Reachable(cur)
    /\ LET based == plan[cur].kind = "stage"
           s == WithImageEnv(IF based THEN Inherited(S, ds[plan[cur].base]) ELSE S)
       IN  /\ ds' = [ds EXCEPT ![cur] = s]
           /\ todo' = s.onBuild
           /\ log' = IF based THEN [log EXCEPT ![cur] = log[plan[cur].base]] ELSE log
    /\ phase' = "triggers"
    /\ UNCHANGED <<cur, arrays, maps, ctxPaths, reads>>

\* mutation of BeginCommands: the triggers are not waited for
BeginCommandsAtOnce ==
    /\ phase = "triggers"
    /\ ds' = [ds EXCEPT ![cur].onBuild = <<>>]
    /\ todo' = plan[cur].cmds
    /\ phase' = "commands"
    /\ UNCHANGED <<cur, arrays, maps, ctxPaths, log, reads>>

\* d.image.Config.OnBuild = nil, once the triggers of the base have run
BeginCommands ==
    /\ phase = "triggers" /\ todo = <<>>
    /\ ds' = [ds EXCEPT ![cur].onBuild = <<>>]
    /\ todo' = plan[cur].cmds
    /\ phase' = "commands"
    /\ UNCHANGED <<cur, arrays, maps, ctxPaths, log, reads>>

\* ctxPaths of the stage are merged and the loop goes on
EndStage ==
    /\ phase = "commands" /\ todo = <<>>
    /\ ctxPaths' = ctxPaths \cup S.ctxPaths
    /\ cur' = cur + 1
    /\ phase' = "stage"
    /\ UNCHANGED <<todo, ds, arrays, maps, log, reads>>

-----------------------------------------------------------------------------
(* Dispatching one instruction or trigger.                                 *)
Instr == Head(todo)

\* a trigger carries the instruction to run
Running == phase \in {"triggers", "commands"} /\ todo # <<>> /\ ~Instr.bad

Entry(layer) == Ran(Instr, cur, layer)

\* what a handler ends with: commitToHistory on the image it changed
Commit(s, layer) ==
    LET h == AppendTo(s.hist, Entry(layer))
    IN  /\ ds' = [ds EXCEPT ![cur] = [s EXCEPT !.hist = h.slice]]
        /\ arrays' = h.mem

Executed(layer) ==
    /\ todo' = Tail(todo)
    /\ log' = [log EXCEPT ![cur] = Append(@, Entry(layer))]
    /\ UNCHANGED <<cur, phase, ctxPaths>>

\* prefixCommand counts a step, unless the stage has none
Step(s) == IF Total(cur) = 0 THEN s ELSE [s EXCEPT !.cmdIndex = @ + 1]

WithLayer(s) == [Step(s) EXCEPT !.layers = @ + 1]

DispatchEnv ==
    /\ Running /\ Instr.op = "Env"
    /\ Commit([S EXCEPT !.env = AddEnv(@, Instr.key, Instr.val),
                        !.imageEnv = AddEnv(@, Instr.key, Instr.val)], FALSE)
    /\ Executed(FALSE) /\ UNCHANGED <<maps, reads>>

\* an ARG without a value, given nowhere, is not put into the environment
DispatchArg ==
    /\ Running /\ Instr.op = "Arg"
    /\ Commit(IF Instr.val = Absent THEN S
              ELSE [S EXCEPT !.env = AddEnv(@, Instr.key, Instr.val)], FALSE)
    /\ Executed(FALSE) /\ UNCHANGED <<maps, reads>>

\* LABEL, EXPOSE, VOLUME: a key into the config's map, made if it is nil
SetKey(f) ==
    LET owner == IF S.maps[f] = 0 THEN cur ELSE S.maps[f]
    IN  /\ maps' = [maps EXCEPT ![f][owner] = @ \cup {Instr.key}]
        /\ Commit([S EXCEPT !.maps[f] = owner], FALSE)
        /\ Executed(FALSE) /\ UNCHANGED reads

DispatchLabel == Running /\ Instr.op = "Labels" /\ SetKey("Labels")
DispatchExpose == Running /\ Instr.op = "ExposedPorts" /\ SetKey("ExposedPorts")
DispatchVolume == Running /\ Instr.op = "Volumes" /\ SetKey("Volumes")

\* MAINTAINER, USER, STOPSIGNAL, HEALTHCHECK, SHELL: a field of the config
SetField(f) ==
    /\ Running /\ Instr.op = f
    /\ Commit([S EXCEPT !.fields[f] = Instr.val], FALSE)
    /\ Executed(FALSE) /\ UNCHANGED <<maps, reads>>

DispatchMaintainer == SetField("Author")
DispatchUser == SetField("User")
DispatchStopSignal == SetField("StopSignal")
DispatchHealthcheck == SetField("Healthcheck")
DispatchShell == SetField("Shell")

\* withShell, for the shell form
Args == IF Instr.key = "shell" THEN <<S.fields["Shell"], Instr.val>> ELSE <<Instr.val>>

\* mutation of DispatchEntrypoint: the CMD of the base stays
DispatchEntrypointKeepsCmd ==
    /\ Running /\ Instr.op = "Entrypoint"
    /\ Commit([S EXCEPT !.entrypoint = Args], FALSE)
    /\ Executed(FALSE) /\ UNCHANGED <<maps, reads>>

\* ENTRYPOINT forgets a CMD that was not given in this stage
DispatchEntrypoint ==
    /\ Running /\ Instr.op = "Entrypoint"
    /\ Commit([S EXCEPT !.entrypoint = Args, !.cmd = IF S.cmdSet THEN @ ELSE Absent], FALSE)
    /\ Executed(FALSE) /\ UNCHANGED <<maps, reads>>

DispatchCmd ==
    /\ Running /\ Instr.op = "Cmd"
    /\ Commit([S EXCEPT !.cmd = Args, !.cmdSet = TRUE], FALSE)
    /\ Executed(FALSE) /\ UNCHANGED <<maps, reads>>

\* mutation of DispatchWorkdir: the root makes a layer too
DispatchWorkdirMakesRoot ==
    LET wd == IF Instr.val.abs THEN Instr.val.path ELSE S.fields["WorkingDir"] \o Instr.val.path
        layer == fileOp /\ wd # <<>>
        s == [S EXCEPT !.fields["WorkingDir"] = wd]
    IN  /\ Running /\ Instr.op = "WorkingDir"
        /\ Commit(IF fileOp THEN WithLayer(s) ELSE s, layer)
        /\ Executed(layer) /\ UNCHANGED <<maps, reads>>

\* WORKDIR makes a layer when the daemon can, except for the root
DispatchWorkdir ==
    LET wd == IF Instr.val.abs THEN Instr.val.path ELSE S.fields["WorkingDir"] \o Instr.val.path
        layer == fileOp /\ wd # <<>>
        s == [S EXCEPT !.fields["WorkingDir"] = wd]
    IN  /\ Running /\ Instr.op = "WorkingDir"
        /\ Commit(IF layer THEN WithLayer(s) ELSE s, layer)
        /\ Executed(layer) /\ UNCHANGED <<maps, reads>>

\* ONBUILD is recorded for the children, and leaves no history
DispatchOnbuild ==
    /\ Running /\ Instr.op = "OnBuild"
    /\ ds' = [ds EXCEPT ![cur].onBuild = Append(@, Instr.val)]
    /\ Executed(FALSE) /\ UNCHANGED <<arrays, maps, reads>>

\* mutation of Read: the source's state is the one it had before the loop
ReadWhenLinked(src) == [stage |-> cur, src |-> src,
                        layers |-> IF src = Fresh THEN 0 ELSE LayersIn(plan[src].upstream)]

Read(src) == [stage |-> cur, src |-> src,
              layers |-> IF src = Fresh THEN 0 ELSE ds[src].layers]

\* mutation of DispatchAdd: the paths are not asked for
DispatchAddUnfiltered ==
    /\ Running /\ Instr.op = "Add"
    /\ Commit(WithLayer(S), TRUE)
    /\ Executed(TRUE) /\ UNCHANGED <<maps, reads>>

\* ADD: what is not a URL comes from the build context
DispatchAdd ==
    /\ Running /\ Instr.op = "Add"
    /\ LET s == WithLayer(S)
       IN  Commit([s EXCEPT !.ctxPaths = @ \cup Instr.paths], TRUE)
    /\ Executed(TRUE) /\ UNCHANGED <<maps, reads>>

\* COPY, from the build context or from the source state as it is now
DispatchCopy ==
    /\ Running /\ Instr.op = "Copy"
    /\ LET s == WithLayer(S)
       IN  IF Instr.from = Context
           THEN Commit([s EXCEPT !.ctxPaths = @ \cup Instr.paths], TRUE) /\ UNCHANGED reads
           ELSE Commit(s, TRUE) /\ reads' = reads \cup {Read(Instr.from)}
    /\ Executed(TRUE) /\ UNCHANGED maps

(* RUN, with its mounts: a secret or ssh mount has no source, a tmpfs      *)
(* starts empty, a cache without from starts empty too, and any other      *)
(* mount without from is the build context.                                *)
RunReads == {m \in Instr.mounts : m.type \in {"bind", "cache"} /\ m.from # Context}
RunPaths == {m.path : m \in {n \in Instr.mounts : n.type \in {"bind", "tmpfs"} /\ n.from = Context}}

DispatchRun ==
    /\ Running /\ Instr.op = "Run"
    /\ LET s == WithLayer(S)
       IN  Commit([s EXCEPT !.ctxPaths = @ \cup RunPaths], TRUE)
    /\ reads' = reads \cup {Read(m.from) : m \in RunReads}
    /\ Executed(TRUE) /\ UNCHANGED maps

\* an instruction or trigger is wrong: nothing is returned
DispatchError ==
    /\ phase \in {"triggers", "commands"} /\ todo # <<>> /\ Instr.bad
    /\ phase' = "failed"
    /\ UNCHANGED <<cur, todo, ds, arrays, maps, ctxPaths, log, reads>>

-----------------------------------------------------------------------------
\* the labels of the build option go into the target's map
Finish ==
    /\ phase = "stage" /\ cur > Len(plan)
    /\ IF OptLabels = {} THEN UNCHANGED <<ds, maps>>
       ELSE LET t == target
                owner == IF ds[t].maps["Labels"] = 0 THEN t ELSE ds[t].maps["Labels"]
            IN  /\ maps' = [maps EXCEPT !["Labels"][owner] = @ \cup OptLabels]
                /\ ds' = [ds EXCEPT ![t].maps["Labels"] = owner]
    /\ phase' = "done"
    /\ UNCHANGED <<cur, todo, arrays, ctxPaths, log, reads>>

\* normalizeContextPaths: no filter when everything is asked for, or nothing is
Filtered == ctxPaths # {} /\ "/" \notin ctxPaths

Dispatch ==
    \/ DispatchEnv \/ DispatchArg \/ DispatchLabel \/ DispatchExpose \/ DispatchVolume
    \/ DispatchMaintainer \/ DispatchUser \/ DispatchStopSignal \/ DispatchHealthcheck
    \/ DispatchShell \/ DispatchEntrypoint \/ DispatchCmd \/ DispatchWorkdir
    \/ DispatchOnbuild \/ DispatchAdd \/ DispatchCopy \/ DispatchRun \/ DispatchError

Next == /\ \/ SkipStage \/ BeginStage \/ BeginCommands \/ EndStage \/ Dispatch \/ Finish
        /\ UNCHANGED <<plan, target, fileOp>>

Spec == Init /\ [][Next]_vars

-----------------------------------------------------------------------------
\* the stages the loop has finished
Finished == {d \in Node : Reachable(d) /\ (d < cur \/ phase = "done")}

Child(d, e) == plan[e].kind = "stage" /\ plan[e].base = d

\* no two stages have the same base
NoSiblings == \A b, d, e \in Node : Child(b, d) /\ Child(b, e) => d = e

(* The image config of every finished stage is what its instructions say,  *)
(* along the whole chain of bases: the last value of each field, ENV and   *)
(* never ARG in the environment, the CMD that no later stage's ENTRYPOINT  *)
(* has cleared, and the triggers its own instructions give.                *)
ConfigReplays ==
    \A d \in Finished :
        /\ \A f \in SetFields : ds[d].fields[f] = SetValue(log[d], f)
        /\ ds[d].imageEnv = WithPath(EnvOf(log[d]))
        /\ ds[d].cmd = CmdOf(log[d])
        /\ ds[d].entrypoint = EntrypointOf(log[d])
        /\ ds[d].onBuild = OnBuildOf(plan[d].cmds)

\* c puts a value into the variable k of the state
Assigns(c, k) == c.key = k /\ (c.op = "Env" \/ (c.op = "Arg" /\ c.val # Absent))

\* instruction i of l is an ARG of stage d, and the last to assign k
ArgLast(l, d, k, i) ==
    /\ l[i].op = "Arg" /\ l[i].stage = d /\ Assigns(l[i], k)
    /\ \A j \in i + 1 .. Len(l) : ~Assigns(l[j], k)

(* ENV wins over ARG except over a later ARG of the same stage: what RUN   *)
(* sees of a variable of the image config is its value there, and the one  *)
(* of an ARG only when that ARG is the stage's own and came after the last *)
(* ENV of the variable.                                                    *)
EnvReachesRun ==
    \A d \in Finished : \A k \in DOMAIN ds[d].imageEnv :
        LET late == {i \in DOMAIN log[d] : ArgLast(log[d], d, k, i)}
        IN  /\ \A i \in late : ds[d].env[k] = log[d][i].val
            /\ late = {} => ds[d].env[k] = ds[d].imageEnv[k]

\* what a stage has to run: the triggers of its base, then its own instructions
Triggers(d) == IF plan[d].kind = "stage" THEN ds[plan[d].base].onBuild ELSE OnBuildOf(plan[d].upstream)
Expected(d) == Triggers(d) \o plan[d].cmds

(* The triggers a stage inherits run exactly once, before its own          *)
(* instructions, and in the order they were given.                         *)
Own(d) == Picked(log[d], Which(log[d], LAMBDA c : c.stage = d))
TriggersFirst ==
    \A d \in Finished :
        /\ Len(Own(d)) = Len(Expected(d))
        /\ \A i \in 1 .. Len(Expected(d)) :
             Own(d)[i].op = Expected(d)[i].op /\ Own(d)[i].val = Expected(d)[i].val

(* The history a stage ends with, read from the memory it shares with its  *)
(* base, has an entry not marked EmptyLayer for every operation that the   *)
(* converter put on the state, provided no two stages start from the same  *)
(* one (for those see HistoryScoped).  It is the converter's count: that   *)
(* an operation changed nothing, like the RUN ["ls"] of                    *)
(* dockerfile_test.go:2969, is found out when it runs.                     *)
LayersMatch ==
    NoSiblings => \A d \in Finished : LayersIn(Elements(ds[d].hist)) = ds[d].layers

(* The file transfer asks the client for every path of the build context   *)
(* that an instruction or a trigger of the result reads.                   *)
PathsOf(c) == IF c.op = "Run" THEN {m.path : m \in {n \in c.mounts : n.type = "bind" /\ n.from = Context}}
              ELSE IF c.op = "Add" \/ (c.op = "Copy" /\ c.from = Context) THEN c.paths ELSE {}
FilterCovers ==
    phase = "done" /\ Filtered =>
        \A d \in Finished : \A i \in 1 .. Len(Expected(d)) : PathsOf(Expected(d)[i]) \subseteq ctxPaths

(* The steps of a stage without triggers never exceed the total they are   *)
(* numbered against, and reach it unless WORKDIR / or a base that needed   *)
(* no pull was counted.                                                    *)
StepsWithinTotal ==
    \A d \in Finished :
        LET triggered == Own(d) # <<>> /\ Len(Own(d)) > Len(plan[d].cmds)
            roots == Cardinality(Which(Own(d), LAMBDA c : fileOp /\ c.op = "WorkingDir" /\ ~c.layer))
            unpulled == IF plan[d].kind = "context" THEN 1 ELSE 0
        IN  ~triggered => ds[d].cmdIndex = Total(d) - roots - unpulled

(* What COPY --from and RUN --mount from read of an earlier stage is the   *)
(* finished stage, with everything its triggers and instructions made.     *)
(* The base of a later one, or nothing, is read of a stage that comes      *)
(* after (see ForwardPlans in MCDispatch).                                 *)
SourceIsFinal ==
    phase = "done" =>
        \A r \in reads : r.src \in 1 .. r.stage - 1 => r.layers = ds[r.src].layers

OwnHistory == Elements(ds[target].hist) = HistoryOf(log[target])

OwnKeys ==
    \A f \in MapFields :
        LET owner == ds[target].maps[f]
            keys == IF owner = 0 THEN {} ELSE maps[f][owner]
        IN  keys = KeysOf(log[target], f) \cup (IF f = "Labels" THEN OptLabels ELSE {})

\* the target needs no stage that is based on it: the cycle check does not follow bases
TargetIsTip == \A d \in Node : Reachable(d) => ~Child(target, d)

(* When no two stages start from the same one, the memory the configs      *)
(* share does no harm: the history of the image built is that of its own   *)
(* instructions and its bases', and so are its labels, ports and volumes   *)
(* and the labels of the build option, unless the build goes on from the   *)
(* target to a stage that is based on it (see ForwardPlans in MCDispatch). *)
ScopedInChains ==
    phase = "done" /\ NoSiblings => OwnHistory /\ (TargetIsTip => OwnKeys)

(* "using multi-stage to test that history is scoped to one stage"         *)
(* (dockerfile_test.go): the history of the image built is that of its own *)
(* instructions and its bases'.                                            *)
HistoryScoped == phase = "done" => OwnHistory
=============================================================================
