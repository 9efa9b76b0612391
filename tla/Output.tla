------------------------------- MODULE Output -------------------------------
(***************************************************************************)
(* What becomes of the lines the commands print (src/runtime/launch.rs,    *)
(* runner_launch.rs, foreground_launch.rs and foreground_io.rs): the files *)
(* a batch job's output goes to, the srun steps its script calls, the      *)
(* launcher script that starts one process per task, and, with             *)
(* --unbuffered, the two threads of srun that forward the step's output.   *)
(*                                                                         *)
(* A "program" is a run of the batch job or a step.  Its tasks print to    *)
(* the streams they inherit; a stream leads to an open file description,   *)
(* which has an offset of its own, or to a socket pair that a forwarder    *)
(* reads.                                                                  *)
(***************************************************************************)
EXTENDS Integers, Sequences, FiniteSets

CONSTANTS
    Runs,         \* 1 .. n: the runs of one batch job (a second one: requeue)
    Steps,        \* the srun commands its script calls
    MaxTasks,     \* bound on --ntasks
    JobOptions,   \* how the output of the job and its steps is asked for
    MaxLines,     \* bound on the lines printed
    MaxLeft,      \* bound on processes that tasks leave behind at a time
    MaxFaults     \* bound on failing writes, killed groups and killed clients

Stream == {"out", "err"}
Rank == 0 .. MaxTasks - 1
Program == Runs \cup Steps

(***************************************************************************)
(* Of a job: --open-mode, whether --error names another path than          *)
(* --output does, --requeue, --ntasks, which its steps inherit, and how    *)
(* its script calls srun.                                                  *)
(* Of a step: the paths -o and -e ("none" falls back to the stream that    *)
(* srun inherited), --label and --unbuffered.  File names stand for        *)
(* resolved paths.                                                         *)
(***************************************************************************)
StepOption == [out : {"none", "step.out"}, err : {"none", "step.out", "step.err"},
               label : BOOLEAN, unbuffered : BOOLEAN]
JobOption == [append : BOOLEAN, split : BOOLEAN, requeue : BOOLEAN, tasks : 1 .. MaxTasks,
              steps : SUBSET StepOption]

ASSUME OutputAssumption ==
    /\ IsFiniteSet(Runs) /\ Runs = 1 .. Cardinality(Runs)
    /\ Steps \cap Runs = {}
    /\ MaxTasks \in Nat \ {0}
    /\ JobOptions \subseteq JobOption
    /\ MaxLines \in Nat /\ MaxLeft \in Nat
    /\ MaxFaults \in Nat

File == {"job.out", "job.err", "step.out", "step.err"}
Hole == <<"hole">>

VARIABLES
    job,       \* the job's options
    step,      \* the options of each step, and the run whose script called it
    file,      \* the contents of the files
    desc,      \* the description each stream of a program is opened with
    shared,    \* programs whose stderr is a clone of their stdout
    launcher,  \* the launcher script of each program
    task,      \* and its tasks
    sent,      \* the lines printed to each stream: by which task
    sed,       \* with --label: lines on their way through the task's `sed`
    pipe,      \* with --unbuffered: what is in the socket pair
    thread,    \* and the forwarder of the stream
    client,    \* where each srun is
    faults

vars == <<job, step, file, desc, shared, launcher, task, sent, sed, pipe, thread,
          client, faults>>
setup == <<job, step, desc, shared>>
channels == <<file, sent, sed, pipe, thread>>

(* the i-th line that was printed to a stream *)
Line(p, s, i) == <<p, s, i>>
Lines == Program \X Stream \X (Nat \ {0})

NoDescription == [file |-> "none", pos |-> 0]
NoStep == [run |-> 0, out |-> "none", err |-> "none", label |-> FALSE, unbuffered |-> FALSE]
NoThread == [state |-> "none", buf |-> <<>>]

Launcher == [state : {"idle", "running", "exited", "killed"}, waited : 0 .. MaxTasks,
             status : {"ok", "fail"}, alone : BOOLEAN]
Task == [state : {"none", "running", "background", "gone"}, code : {"ok", "fail"}]
ThreadState == {"none", "reading", "ended", "failed"}
ClientState == {"idle", "waiting", "joinOut", "joinErr", "finish", "reported", "failed"}

(* The types of the variables *)
TypeOK ==
    /\ job \in JobOptions
    /\ step \in [Steps -> [run : {0} \cup Runs, out : {"none", "step.out"},
                           err : {"none", "step.out", "step.err"},
                           label : BOOLEAN, unbuffered : BOOLEAN]]
    /\ file \in [File -> Seq(Lines \cup {Hole})]
    /\ desc \in [Program \X Stream -> [file : File \cup {"none"}, pos : Nat]]
    /\ shared \subseteq Program
    /\ launcher \in [Program -> Launcher]
    /\ task \in [Program \X Rank -> Task]
    /\ sent \in [Program \X Stream -> Seq(Rank)]
    /\ sed \in [Program \X Stream -> [Rank -> Seq(Lines)]]
    /\ pipe \in [Steps \X Stream -> Seq(Lines)]
    /\ thread \in [Steps \X Stream -> [state : ThreadState, buf : Seq(Lines)]]
    /\ client \in [Steps -> ClientState]
    /\ faults \in 0 .. MaxFaults

Init ==
    /\ job \in JobOptions
    /\ step = [s \in Steps |-> NoStep]
    /\ file = [f \in File |-> <<>>]
    /\ desc = [c \in Program \X Stream |-> NoDescription]
    /\ shared = {}
    /\ launcher = [p \in Program |-> [state |-> "idle", waited |-> 0, status |-> "ok",
                                    alone |-> TRUE]]
    /\ task = [t \in Program \X Rank |-> [state |-> "none", code |-> "ok"]]
    /\ sent = [c \in Program \X Stream |-> <<>>]
    /\ sed = [c \in Program \X Stream |-> [k \in Rank |-> <<>>]]
    /\ pipe = [c \in Steps \X Stream |-> <<>>]
    /\ thread = [c \in Steps \X Stream |-> NoThread]
    /\ client = [s \in Steps |-> "idle"]
    /\ faults = 0

----------------------------------------------------------------------------
(* Files *)

Streamed(p) == p \in Steps /\ step[p].unbuffered
Labelled(p) == p \in Steps /\ step[p].label

(* stdout.try_clone(): one description, one offset *)
Target(p, s) == IF p \in shared THEN <<p, "out">> ELSE <<p, s>>

(* O_APPEND: only the job's own files are ever opened with it *)
Appends(p) == p \in Runs /\ job.append

Larger(a, b) == IF a > b THEN a ELSE b

(* write(2) of the lines ls at offset pos of contents c *)
Overwrite(c, pos, ls) ==
    [i \in 1 .. Larger(Len(c), pos + Len(ls)) |->
        IF i \in pos + 1 .. pos + Len(ls) THEN ls[i - pos]
        ELSE IF i <= Len(c) THEN c[i] ELSE Hole]

(* the stream s of p gets the lines ls *)
WriteTo(p, s, ls) ==
    LET d == desc[Target(p, s)]
        pos == IF Appends(p) THEN Len(file[d.file]) ELSE d.pos
    IN  /\ file' = [file EXCEPT ![d.file] = Overwrite(@, pos, ls)]
        /\ desc' = [desc EXCEPT ![Target(p, s)].pos = pos + Len(ls)]

Opened(f) == [file |-> f, pos |-> 0]
Emptied(fs) == [f \in File |-> IF f \in fs THEN <<>> ELSE file[f]]

----------------------------------------------------------------------------
(* Launching *)

Alive(p, k) == task[<<p, k>>].state \in {"running", "background"}

(* alone: nothing that an earlier run started is left when it begins *)
Begin(p) ==
    /\ launcher' = [launcher EXCEPT
                       ![p].state = "running",
                       ![p].alone = \A q \in Program, k \in Rank : ~Alive(q, k)]
    /\ task' = [t \in Program \X Rank |->
                  IF t[1] = p /\ t[2] < job.tasks
                  THEN [state |-> "running", code |-> "ok"] ELSE task[t]]

Ended(p) == launcher[p].state \in {"exited", "killed"}

(* the job's stdout and stderr *)
JobFile(s) == IF s = "err" /\ job.split THEN "job.err" ELSE "job.out"

\* mutant: stderr is opened once more although the paths are equal
LaunchRunOpeningTwice(r) ==
    /\ launcher[r].state = "idle"
    /\ \A q \in Runs : q < r => job.requeue /\ Ended(q) /\ launcher[q].status = "fail"
    /\ shared' = shared
    /\ desc' = [c \in Program \X Stream |-> IF c[1] = r THEN Opened(JobFile(c[2])) ELSE desc[c]]
    /\ file' = IF job.append THEN file ELSE Emptied({JobFile(s) : s \in Stream})
    /\ Begin(r)
    /\ UNCHANGED <<job, step, sent, sed, pipe, thread, client, faults>>

(* launch_running_job with open_output_file: the first run, or the next    *)
(* one after a requeue                                                     *)
LaunchRun(r) ==
    /\ launcher[r].state = "idle"
    /\ \A q \in Runs : q < r => job.requeue /\ Ended(q) /\ launcher[q].status = "fail"
    /\ shared' = IF job.split THEN shared ELSE shared \cup {r}
    /\ desc' = [c \in Program \X Stream |-> IF c[1] = r THEN Opened(JobFile(c[2])) ELSE desc[c]]
    /\ file' = IF job.append THEN file ELSE Emptied({JobFile(s) : s \in Stream})
    /\ Begin(r)
    /\ UNCHANGED <<job, step, sent, sed, pipe, thread, client, faults>>

(* open_foreground_stdio: a path that is given is truncated; without one   *)
(* srun's own stdout (/dev/stdout) is opened anew                          *)
StepFile(r, o, s) ==
    LET path == IF s = "out" THEN o.out ELSE o.err
    IN  IF path = "none" THEN JobFile(s) ELSE path
SamePath(o) == o.out # "none" /\ o.out = o.err

(* srun in the job's script: configure_foreground_stdio and the spawn *)
LaunchStep(p, r, o) ==
    /\ client[p] = "idle"
    /\ \E k \in Rank : task[<<r, k>>].state = "running"
    /\ step' = [step EXCEPT ![p] = [run |-> r, out |-> o.out, err |-> o.err,
                                    label |-> o.label, unbuffered |-> o.unbuffered]]
    /\ shared' = IF SamePath(o) THEN shared \cup {p} ELSE shared
    /\ desc' = [c \in Program \X Stream |->
                  IF c[1] = p THEN Opened(StepFile(r, o, c[2])) ELSE desc[c]]
    /\ file' = Emptied({o.out, o.err} \cap File)
    /\ thread' = [c \in Steps \X Stream |->
                    IF c[1] = p /\ o.unbuffered
                    THEN [state |-> "reading", buf |-> <<>>] ELSE thread[c]]
    /\ client' = [client EXCEPT ![p] = "waiting"]
    /\ Begin(p)
    /\ UNCHANGED <<job, sent, sed, pipe, faults>>

----------------------------------------------------------------------------
(* The tasks *)

Printed == Cardinality({x \in (Program \X Stream) \X (1 .. MaxLines) : x[2] <= Len(sent[x[1]])})

(* a task, or a process it left behind, prints a line *)
PrintLine(p, k, s) ==
    LET line == Line(p, s, Len(sent[<<p, s>>]) + 1)
    IN  /\ Alive(p, k)
        /\ Printed < MaxLines
        /\ ~(Streamed(p) /\ thread[<<p, s>>].state = "failed")
        /\ sent' = [sent EXCEPT ![<<p, s>>] = Append(@, k)]
        /\ IF Labelled(p)
           THEN /\ sed' = [sed EXCEPT ![<<p, s>>][k] = Append(@, line)]
                /\ UNCHANGED <<file, desc, pipe>>
           ELSE IF Streamed(p)
           THEN /\ pipe' = [pipe EXCEPT ![<<p, s>>] = Append(@, line)]
                /\ UNCHANGED <<file, desc, sed>>
           ELSE /\ WriteTo(p, s, <<line>>)
                /\ UNCHANGED <<sed, pipe>>
        /\ UNCHANGED <<job, step, shared, launcher, task, thread, client, faults>>

(* sed -u passes one line on *)
SedPrints(p, k, s) ==
    /\ sed[<<p, s>>][k] # <<>>
    /\ sed' = [sed EXCEPT ![<<p, s>>][k] = Tail(@)]
    /\ LET line == Head(sed[<<p, s>>][k])
       IN  IF Streamed(p)
           THEN /\ pipe' = IF thread[<<p, s>>].state = "failed" THEN pipe
                           ELSE [pipe EXCEPT ![<<p, s>>] = Append(@, line)]
                /\ UNCHANGED <<file, desc>>
           ELSE WriteTo(p, s, <<line>>) /\ UNCHANGED pipe
    /\ UNCHANGED <<job, step, shared, launcher, task, sent, thread, client, faults>>

LeftBehind == {t \in Program \X Rank : task[t].state = "background"}

(* a task returns, and may leave a process behind that keeps its streams;  *)
(* SIGPIPE ends a task whose forwarder is gone                             *)
TaskExits(p, k) ==
    /\ task[<<p, k>>].state = "running"
    /\ \E code \in {"ok", "fail"}, state \in {"background", "gone"} :
          /\ state = "background" => Cardinality(LeftBehind) < MaxLeft
          /\ task' = [task EXCEPT ![<<p, k>>] = [state |-> state, code |-> code]]
    /\ UNCHANGED <<setup, channels, launcher, client, faults>>

BackgroundExits(p, k) ==
    /\ task[<<p, k>>].state = "background"
    /\ task' = [task EXCEPT ![<<p, k>>].state = "gone"]
    /\ UNCHANGED <<setup, channels, launcher, client, faults>>

\* mutant: the status of the last task
StatusOfLast(p, code) == code

(* slotd_status: the first code that is not 0, in the order of the ranks *)
StatusAfter(p, code) == IF launcher[p].status = "ok" THEN code ELSE launcher[p].status

(* `wait "$pid"`, for one rank after the other *)
Wait(p) ==
    LET k == launcher[p].waited
    IN  /\ launcher[p].state = "running" /\ k \in Rank
        /\ task[<<p, k>>].state \in {"background", "gone"}
        /\ launcher' = [launcher EXCEPT ![p] =
                          [@ EXCEPT !.state = IF k + 1 = job.tasks THEN "exited" ELSE "running",
                                    !.waited = k + 1,
                                    !.status = StatusAfter(p, task[<<p, k>>].code)]]
        /\ UNCHANGED <<setup, channels, task, client, faults>>

(* the threads of the clients ps end with them *)
ClientsExit(ps) ==
    /\ client' = [p \in Steps |-> IF p \in ps THEN "failed" ELSE client[p]]
    /\ thread' = [c \in Steps \X Stream |->
                    IF c[1] \in ps /\ thread[c].state = "reading"
                    THEN [state |-> "failed", buf |-> <<>>] ELSE thread[c]]
    /\ pipe' = [c \in Steps \X Stream |-> IF c[1] \in ps THEN <<>> ELSE pipe[c]]

ClientAlive(p) == client[p] \notin {"idle", "reported", "failed"}

(* A signal to the group (scancel, the time limit): the launcher and the   *)
(* tasks die, and with a run the srun commands of its script, but not the  *)
(* steps, which have sessions of their own.  What a task left behind may   *)
(* have left the group too.                                                *)
Kill(p) ==
    /\ launcher[p].state = "running"
    /\ faults < MaxFaults
    /\ faults' = faults + 1
    /\ launcher' = [launcher EXCEPT ![p].state = "killed", ![p].status = "fail"]
    /\ task' = [t \in Program \X Rank |->
                  IF t[1] = p /\ task[t].state = "running"
                  THEN [state |-> "gone", code |-> "fail"] ELSE task[t]]
    /\ ClientsExit({q \in Steps : step[q].run = p /\ ClientAlive(q)})
    /\ UNCHANGED <<setup, file, sent, sed>>

----------------------------------------------------------------------------
(* srun's forwarders *)

\* mutant: srun keeps the Command, and with it a writer, to the end
HeldBySrun(p, s) == TRUE

(* processes that hold the stream's end of the socket pair; srun's own     *)
(* copy goes with the Command when the launch returns                      *)
Held(p, s) ==
    \/ launcher[p].state = "running"
    \/ \E k \in Rank : Alive(p, k) \/ sed[<<p, s>>][k] # <<>>

Reading(p, s) == thread[<<p, s>>].state = "reading"

ReadPipe(p, s) ==
    /\ Reading(p, s) /\ thread[<<p, s>>].buf = <<>> /\ pipe[<<p, s>>] # <<>>
    /\ thread' = [thread EXCEPT ![<<p, s>>].buf = pipe[<<p, s>>]]
    /\ pipe' = [pipe EXCEPT ![<<p, s>>] = <<>>]
    /\ UNCHANGED <<setup, file, launcher, task, sent, sed, client, faults>>

(* write_all *)
Forward(p, s) ==
    /\ Reading(p, s) /\ thread[<<p, s>>].buf # <<>>
    /\ WriteTo(p, s, thread[<<p, s>>].buf)
    /\ thread' = [thread EXCEPT ![<<p, s>>].buf = <<>>]
    /\ UNCHANGED <<job, step, shared, launcher, task, sent, sed, pipe, client, faults>>

(* the thread returns, and its end of the socket pair is closed *)
Closed(p, s) ==
    /\ thread' = [thread EXCEPT ![<<p, s>>] = [state |-> "failed", buf |-> <<>>]]
    /\ pipe' = [pipe EXCEPT ![<<p, s>>] = <<>>]

ForwardFails(p, s) ==
    /\ Reading(p, s) /\ thread[<<p, s>>].buf # <<>>
    /\ faults < MaxFaults
    /\ faults' = faults + 1
    /\ Closed(p, s)
    /\ UNCHANGED <<setup, file, launcher, task, sent, sed, client>>

EndOfFile(p, s) ==
    /\ Reading(p, s) /\ thread[<<p, s>>].buf = <<>> /\ pipe[<<p, s>>] = <<>>
    /\ ~Held(p, s)
    /\ thread' = [thread EXCEPT ![<<p, s>>].state = "ended"]
    /\ UNCHANGED <<setup, file, launcher, task, sent, sed, pipe, client, faults>>

----------------------------------------------------------------------------
(* srun *)

ClientGoes(p, pc) == client' = [client EXCEPT ![p] = pc]

(* child.wait() *)
ChildEnds(p) ==
    /\ client[p] = "waiting" /\ Ended(p)
    /\ ClientGoes(p, IF Streamed(p) THEN "joinOut" ELSE "finish")
    /\ UNCHANGED <<setup, channels, launcher, task, faults>>

\* mutant: only the first forwarder is joined
JoinFirst(p) ==
    /\ client[p] = "joinOut" /\ thread[<<p, "out">>].state = "ended"
    /\ ClientGoes(p, "finish")
    /\ UNCHANGED <<setup, channels, launcher, task, faults>>

(* io_state.finish(): the threads are joined, stdout's first *)
Join(p) ==
    /\ \/ /\ client[p] = "joinOut" /\ thread[<<p, "out">>].state = "ended"
          /\ ClientGoes(p, "joinErr")
       \/ /\ client[p] = "joinErr" /\ thread[<<p, "err">>].state = "ended"
          /\ ClientGoes(p, "finish")
    /\ UNCHANGED <<setup, channels, launcher, task, faults>>

(* the error of a forwarder: nothing is reported *)
JoinFails(p) ==
    /\ \/ client[p] = "joinOut" /\ thread[<<p, "out">>].state = "failed"
       \/ client[p] = "joinErr" /\ thread[<<p, "err">>].state = "failed"
    /\ ClientsExit({p})
    /\ UNCHANGED <<setup, file, launcher, task, sent, sed, faults>>

ClientDies(p) ==
    /\ ClientAlive(p)
    /\ faults < MaxFaults
    /\ faults' = faults + 1
    /\ ClientsExit({p})
    /\ UNCHANGED <<setup, file, launcher, task, sent, sed>>

(* FinishAllocation *)
Report(p) ==
    /\ client[p] = "finish"
    /\ ClientGoes(p, "reported")
    /\ UNCHANGED <<setup, channels, launcher, task, faults>>

----------------------------------------------------------------------------
Tasks ==
    \E p \in Program, k \in Rank :
        \/ \E s \in Stream : PrintLine(p, k, s)
        \/ TaskExits(p, k) \/ BackgroundExits(p, k)

Machinery(p) ==
    \/ Wait(p)
    \/ \E k \in Rank, s \in Stream : SedPrints(p, k, s)
    \/ p \in Steps /\ \/ \E s \in Stream : ReadPipe(p, s) \/ Forward(p, s) \/ EndOfFile(p, s)
                      \/ ChildEnds(p) \/ Join(p) \/ JoinFails(p) \/ Report(p)

Failure ==
    \/ \E p \in Program : Kill(p)
    \/ \E p \in Steps : ClientDies(p) \/ \E s \in Stream : ForwardFails(p, s)

Next ==
    \/ \E r \in Runs : LaunchRun(r)
    \/ \E p \in Steps, r \in Runs, o \in job.steps : LaunchStep(p, r, o)
    \/ Tasks \/ Failure
    \/ \E p \in Program : Machinery(p)

Spec == Init /\ [][Next]_vars

(* launchers, sed, the forwarders and srun keep running; the tasks owe     *)
(* nothing                                                                 *)
FairSpec == Spec /\ \A p \in Program : WF_vars(Machinery(p))

----------------------------------------------------------------------------
(* Properties *)

(* every line that p printed to s so far is in the file it was meant for,  *)
(* and the lines of one task are in the order it printed them              *)
Kept(p, s) ==
    LET f == file[desc[Target(p, s)].file]
    IN  \A i \in 1 .. Len(sent[<<p, s>>]) : \E n \in DOMAIN f :
            /\ f[n] = Line(p, s, i)
            /\ \A m \in 1 .. n, j \in 1 .. Len(sent[<<p, s>>]) :
                   f[m] = Line(p, s, j) /\ sent[<<p, s>>][i] = sent[<<p, s>>][j] => j <= i

Launched(p) == launcher[p].state # "idle"
Current(r) == Launched(r) /\ \A q \in Runs : q > r => ~Launched(q)
Inherits(p) == Launched(p) /\ "none" \in {step[p].out, step[p].err}

(* The output of a batch job is all there: two streams in one file do not  *)
(* overwrite each other, with --open-mode=append a requeue keeps what the  *)
(* earlier run and its leftovers print, and without it the new run's lines *)
(* are safe as long as nothing of the earlier run is left.  Steps that     *)
(* open the job's stdout anew are excepted: they start at its beginning.   *)
JobOutputKept ==
    \A r \in Runs, s \in Stream :
        /\ Launched(r)
        /\ job.append \/ (Current(r) /\ launcher[r].alone)
        /\ \A p \in Steps : ~Inherits(p)
        => Kept(r, s)

(* When srun reports the end of a step, all that its tasks and whatever    *)
(* they left behind have printed to -o and -e is in the files, with        *)
(* --unbuffered too, where two threads, socket pairs and (with --label) a  *)
(* sed per task are in between.  With --label alone nothing waits for sed. *)
StepOutputKept ==
    \A p \in Steps, s \in Stream :
        /\ client[p] = "reported"
        /\ (IF s = "out" THEN step[p].out ELSE step[p].err) # "none"
        /\ Streamed(p) \/ ~Labelled(p)
        /\ \A q \in Steps \ {p} : ~Launched(q)
        => Kept(p, s)

(* The launcher returns 0 if and only if every task did, in whatever order *)
(* they ended.  Its status is what the daemon that spawned it, and srun,   *)
(* get from wait(2); no file keeps it, because the launcher's own `exit`   *)
(* comes before the line that would write exit_status.                     *)
StatusOfAllTasks ==
    \A p \in Program :
        launcher[p].state = "exited" =>
            (launcher[p].status = "ok" <=> \A k \in Rank : task[<<p, k>>].code = "ok")

(* srun never hangs on its forwarders: once every process of the step is   *)
(* gone it reports, or fails with the error of a forwarder.                *)
StepsReport ==
    \A p \in Steps :
        (Launched(p) /\ \A k \in Rank : ~Alive(p, k)) ~> client[p] \in {"reported", "failed"}
=============================================================================
