---------------------------- MODULE MCForeground ----------------------------
(***************************************************************************)
(* Small instances of Foreground for TLC.                                  *)
(***************************************************************************)
EXTENDS Foreground

Limited ==
    {[cpus |-> 1, mem |-> 1, gpus |-> 0, partition |-> "cpu", exclusive |-> FALSE,
      alloc |-> TRUE, requeue |-> FALSE, limited |-> TRUE, warn |-> FALSE,
      name |-> "a", dep |-> <<>>, tasks |-> 0, limit |-> 0, begin |-> 0]}
=============================================================================
