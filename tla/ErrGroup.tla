------------------------------ MODULE ErrGroup ------------------------------
(***************************************************************************)
(* The errgroup.Group the converter and the builder run their goroutines   *)
(* in (golang.org/x/sync/errgroup), as a value: who is running, the first  *)
(* error, and whether the group's context is cancelled.                    *)
(***************************************************************************)
EXTENDS Naturals

CONSTANT NoError               \* a nil error

\* WithContext
NewGroup == [running |-> {}, err |-> NoError, cancelled |-> FALSE]

\* Go(f): task t is started
Started(g, t) == [g EXCEPT !.running = @ \cup {t}]

\* f returns e; errOnce keeps the first error and cancels the context
Returned(g, t, e) ==
    [running   |-> g.running \ {t},
     err       |-> IF g.err = NoError THEN e ELSE g.err,
     cancelled |-> g.cancelled \/ e # NoError]

\* Wait returns: every task has, and the context is cancelled
Joined(g) == g.running = {}
=============================================================================
