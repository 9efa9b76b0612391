----------------------------- MODULE MCRuntime -----------------------------
(***************************************************************************)
(* Small instances of Runtime for TLC.                                     *)
(***************************************************************************)
EXTENDS Runtime

Plain ==
    [cpus |-> 1, mem |-> 1, gpus |-> 0, partition |-> "cpu", exclusive |-> FALSE,
     alloc |-> FALSE, requeue |-> FALSE, limited |-> FALSE, warn |-> FALSE,
     name |-> "a", dep |-> <<>>, tasks |-> 0, limit |-> 0, begin |-> 0]

\* one kind of job; requeued with a time limit and a warning before it
OneKind == {Plain}
Warned == {[Plain EXCEPT !.requeue = TRUE, !.limited = TRUE, !.warn = TRUE]}
=============================================================================
