------------------------------ MODULE MCOutput ------------------------------
(***************************************************************************)
(* Small instances of Output for TLC.                                      *)
(***************************************************************************)
EXTENDS Output

TwoRuns == 1 .. 2

Option(out, err, label, unbuffered) ==
    [out |-> out, err |-> err, label |-> label, unbuffered |-> unbuffered]

\* two tasks; a requeue that appends to one file; a requeue that truncates,
\* with a step that forwards to one file; steps that print to one file
\* themselves, or of which one stream goes to the job's file
Job(tasks, append, split, requeue, steps) ==
    [tasks |-> tasks, append |-> append, split |-> split, requeue |-> requeue, steps |-> steps]
Jobs ==
    {Job(2, FALSE, FALSE, FALSE, {}),
     Job(1, TRUE, FALSE, TRUE, {}),
     Job(1, FALSE, FALSE, TRUE, {Option("step.out", "step.out", TRUE, TRUE)}),
     Job(1, FALSE, TRUE, FALSE, {Option("step.out", "step.out", FALSE, FALSE),
                                 Option("none", "step.err", FALSE, TRUE)})}
=============================================================================
