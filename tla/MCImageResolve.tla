--------------------------- MODULE MCImageResolve ---------------------------
(***************************************************************************)
(* The kinds of stages that make a difference to the goroutines.           *)
(***************************************************************************)
EXTENDS ImageResolve

In(kind, reachable, explicit, badName, context) ==
    [kind |-> kind, reachable |-> reachable, explicit |-> explicit,
     badName |-> badName, context |-> context]

MCInputs == {In("based", TRUE, FALSE, FALSE, "nothing"),
             In("override", TRUE, FALSE, FALSE, "nothing"),
             In("scratch", TRUE, FALSE, FALSE, "nothing"),
             In("image", TRUE, FALSE, FALSE, "nothing"),
             In("image", TRUE, TRUE, FALSE, "nothing"),
             In("image", FALSE, FALSE, FALSE, "nothing"),
             In("image", FALSE, FALSE, TRUE, "nothing"),
             In("image", TRUE, FALSE, FALSE, "state"),
             In("image", FALSE, TRUE, FALSE, "state and config"),
             In("image", FALSE, FALSE, FALSE, "error")}
=============================================================================
