----------------------------- MODULE Lifecycle -----------------------------
(***************************************************************************)
(* What slotd promises about the state of a batch job (JobState in         *)
(* src/model/job.rs, docs-site runtime-model and sbatch): the abstract     *)
(* specification that module Runtime implements, however the daemon, the   *)
(* processes and the crashes interleave.                                   *)
(*                                                                         *)
(* A job is submitted, runs, may be stopped, and ends; one submitted with  *)
(* --requeue whose first run does not succeed waits and runs once more.    *)
(* Nothing follows an end.                                                 *)
(***************************************************************************)
EXTENDS Naturals

CONSTANT Jobs

VARIABLE life   \* life[j]: the state of job j, and whether it may be requeued

Failure == {"FAILED", "TIMEOUT", "OUT_OF_MEMORY"}
Final == Failure \cup {"COMPLETED", "CANCELLED"}

Absent == [state |-> "NONE", requeue |-> FALSE]
Set(j, s, again) == life' = [life EXCEPT ![j] = [state |-> s, requeue |-> again]]

Init == life = [j \in Jobs |-> Absent]

Submit(j) ==
    /\ life[j].state = "NONE"
    /\ \E again \in BOOLEAN : Set(j, "PENDING", again)

Start(j) ==
    /\ life[j].state = "PENDING"
    /\ Set(j, "RUNNING", life[j].requeue)

CancelWaiting(j) ==
    /\ life[j].state = "PENDING"
    /\ Set(j, "CANCELLED", life[j].requeue)

Stop(j) ==
    /\ life[j].state = "RUNNING"
    /\ Set(j, "COMPLETING", life[j].requeue)

(* a run that was not stopped is never CANCELLED or TIMEOUT, and one that  *)
(* was is never COMPLETED                                                  *)
Outcome(j) ==
    CASE life[j].state = "RUNNING"    -> {"COMPLETED", "FAILED", "OUT_OF_MEMORY"}
      [] life[j].state = "COMPLETING" -> {"CANCELLED", "TIMEOUT", "OUT_OF_MEMORY"}
      [] OTHER                        -> {}

End(j) ==
    \E final \in Outcome(j) :
        IF life[j].requeue /\ final \in Failure
        THEN Set(j, "PENDING", FALSE)
        ELSE Set(j, final, life[j].requeue)

Next == \E j \in Jobs : Submit(j) \/ Start(j) \/ CancelWaiting(j) \/ Stop(j) \/ End(j)

Spec == Init /\ [][Next]_life
=============================================================================
