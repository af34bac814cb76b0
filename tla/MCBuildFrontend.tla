-------------------------- MODULE MCBuildFrontend ---------------------------
(***************************************************************************)
(* Requests and sources for BuildFrontend: a plain request, and those that *)
(* differ from it in what one part of Build looks at.                      *)
(***************************************************************************)
EXTENDS BuildFrontend

Plain == [caps |-> "known", options |-> "good", context |-> "local", forced |-> FALSE,
          filename |-> "Dockerfile", cmdline |-> FALSE, syntaxArg |-> FALSE,
          subrequest |-> "none", platforms |-> << >>, multi |-> "unset"]

PlatformLists == {<< >>, <<"amd64">>, <<"amd64", "arm64">>, <<"arm64", "arm64">>}

MCRequests ==
    {[Plain EXCEPT !.context = c, !.forced = f, !.filename = n] :
         c \in {"local", "git", "archive", "file", "inputs"}, f \in BOOLEAN, n \in {"Dockerfile", "other"}}
    \cup {[Plain EXCEPT !.caps = c, !.cmdline = b, !.syntaxArg = s, !.subrequest = r] :
         c \in {"known", "forwardable", "unsupported"}, b \in BOOLEAN, s \in BOOLEAN,
         r \in {"none", "describe", "unknown"}}
    \cup {[Plain EXCEPT !.platforms = p, !.multi = m] :
         p \in PlatformLists, m \in {"unset", "true", "false", "bad"}}
    \cup {[Plain EXCEPT !.options = "bad"]}

MCSources ==
    [names : SUBSET {"Dockerfile", "dockerfile"}, syntax : {{}}, ignore : Rules, default : Rules]
    \cup [names : SUBSET {"Dockerfile", "dockerfile"}, syntax : {{"dockerfile"}},
          ignore : {"none", "rules"}, default : {"rules"}]
    \cup [names : {{"Dockerfile", "other"}}, syntax : {{"Dockerfile", "context"}},
          ignore : {"none", "rules"}, default : {"rules"}]
=============================================================================
