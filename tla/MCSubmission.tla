---------------------------- MODULE MCSubmission ----------------------------
(***************************************************************************)
(* Small instances of Submission for TLC.                                  *)
(***************************************************************************)
EXTENDS Submission

Plain ==
    [cpus |-> 1, mem |-> 1, gpus |-> 0, partition |-> "cpu", exclusive |-> FALSE,
     alloc |-> FALSE, requeue |-> FALSE, limited |-> FALSE, warn |-> FALSE,
     name |-> "a", dep |-> <<>>, tasks |-> 0, limit |-> 0, begin |-> 0]

\* a job that is requeued, and an array whose segments overlap: 7-10:3,10
Overlapping == [Plain EXCEPT !.tasks = 2]
Again == [Plain EXCEPT !.requeue = TRUE]
Mixed == {Again, Overlapping}
Ids == [r \in Mixed |->
            IF r = Overlapping
            THEN {[first |-> 7, last |-> 10, step |-> 3], [first |-> 10, last |-> 10, step |-> 1]}
            ELSE {}]

OneKind == {Plain}
NoIds == [r \in OneKind |-> {}]
=============================================================================
