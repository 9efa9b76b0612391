------------------------------ MODULE Request ------------------------------
(***************************************************************************)
(* How sbatch makes a request out of the command line, the SBATCH_*        *)
(* variables, the script's #SBATCH lines and the configuration, and what   *)
(* scontrol update changes of it later (src/submit/sbatch.rs,              *)
(* src/command/helpers.rs, args.rs, submit/sbatch.rs and                   *)
(* handlers/scontrol/update.rs, src/app/config.rs).                        *)
(*                                                                         *)
(* The script is read line by line.  What a source gives is a function on  *)
(* the options it names; a text that is not there, or cannot be parsed, is *)
(* <<>>, any other one is <<value>>.  -J, -c, -n, -o, -e, -D, -d and -a    *)
(* are treated like --partition or --gpus and are left out.                *)
(***************************************************************************)
EXTENDS Calendar, SequencesExt

CONSTANTS
    CpuPartitions, GpuPartitions,   \* as configured, in their order
    LocalFeatures,                  \* SLOTD_FEATURES and the GPU's model
    Inputs,                         \* scripts, SBATCH_* variables and command lines
    Now,
    Updates                         \* scontrol's updates: sequences of [key |-> value]

Valued == {"partition", "gpus", "mem", "time", "constraint", "begin"}
Flags == {"exclusive", "requeue"}

IsSequence(s) == s \in Seq(Range(s))

(* the numbers of a text have no sign; one that is too large for its type  *)
(* makes the text one that cannot be parsed                                *)
IsDuration(text) ==
    text.days \in Seq(U64) /\ Len(text.days) <= 1 /\ text.parts \in Seq(U64)
IsText(opt, text) ==
    /\ opt = "time" => IsDuration(text)
    /\ opt = "begin" => /\ text.kind = "later" => IsDuration(text.after)
                        /\ text.kind = "date" => text.date \in [1 .. 6 -> 0 .. MaxI32]
AreTexts(options) == \A opt \in DOMAIN options : IsText(opt, options[opt])

(* a line's tokens: `--opt=text`, `--opt` with its text in the next token, *)
(* `--flag`, and words that are none of them; a text is [opt |-> value]    *)
Form == {"glued", "name", "flag", "word"}
LineKind == {"shebang", "comment", "directive", "command"}

AreTokens(tokens) ==
    /\ IsSequence(tokens)
    /\ \A i \in DOMAIN tokens :
          /\ tokens[i].form \in Form
          /\ tokens[i].form \in {"glued", "word"} => AreTexts(tokens[i].text)
          /\ tokens[i].form = "glued" => tokens[i].opt \in DOMAIN tokens[i].text
          /\ tokens[i].form = "name" /\ i < Len(tokens) =>
                /\ tokens[i + 1].form = "word"
                /\ tokens[i].opt \in DOMAIN tokens[i + 1].text
IsLine(line) == line.kind \in LineKind /\ AreTokens(line.tokens)

ASSUME RequestAssumption ==
    \A in \in Inputs :
        /\ IsSequence(in.script) /\ \A n \in DOMAIN in.script : IsLine(in.script[n])
        /\ AreTexts(in.env.given) /\ AreTexts(in.cli.given)
        /\ DOMAIN in.env.given \subseteq Valued /\ DOMAIN in.env.flags \subseteq Flags
        /\ DOMAIN in.cli.given \subseteq Valued /\ in.cli.flags \subseteq Flags

(* scontrol's keys, and the configured partitions, of which                *)
(* env_partition_list never makes none for CPUs                            *)
ASSUME UpdateAssumption ==
    \A update \in Updates :
        IsSequence(update) /\ \A i \in DOMAIN update : AreTexts(update[i])
ASSUME PartitionAssumption ==
    IsSequence(CpuPartitions) /\ CpuPartitions # <<>> /\ IsSequence(GpuPartitions)

VARIABLES
    script, env, cli,   \* the inputs
    read,               \* lines of the script that were read
    given, flags,       \* BatchDirectives: of the lines read
    phase,              \* "reading", "resolving", "submitted", "updated" or "refused"
    row                 \* the job's row, once submitted

vars == <<script, env, cli, read, given, flags, phase, row>>
inputs == <<script, env, cli>>

NoRow == [partition |-> "none"]

Init ==
    /\ \E in \in Inputs : script = in.script /\ env = in.env /\ cli = in.cli
    /\ read = 0
    /\ given = <<>>
    /\ flags = {}
    /\ phase = "reading"
    /\ row = NoRow

----------------------------------------------------------------------------
(* The configuration *)

IsGpuPartition(p) == p \in Range(GpuPartitions)
HasPartition(p) == p \in Range(CpuPartitions) \cup Range(GpuPartitions)

DefaultPartition ==
    IF GpuPartitions # <<>> THEN GpuPartitions[1]
    ELSE IF CpuPartitions # <<>> THEN CpuPartitions[1] ELSE "cpu"

DefaultGpus(p) == IF IsGpuPartition(p) THEN 1 ELSE 0

Features == LocalFeatures \cup {"cpu"} \cup (IF GpuPartitions # <<>> THEN {"gpu"} ELSE {})

AvailableFeatures(p) == {f \in Features : f = "cpu" \/ (IsGpuPartition(p) /\ f # "gpu")}

(* constraint: the set of its terms *)
MatchesConstraint(constraint, p) ==
    \A term \in constraint : term = p \/ term \in AvailableFeatures(p)

----------------------------------------------------------------------------
(* Values *)

Saturated(n) == IF n > MaxWord THEN MaxWord ELSE n
CeilDiv(a, b) == (a + b - 1) \div b

MemMb(v) ==
    CASE v.unit = "K" -> CeilDiv(v.n, 1024)
      [] v.unit = "M" -> v.n
      [] v.unit = "G" -> Saturated(v.n * 1024)
      [] v.unit = "T" -> Saturated(v.n * 1024 * 1024)

(* the value of an option's text; names and --begin are taken as they are *)
Parsed(opt, text) ==
    CASE opt = "mem"  -> IF text.unit \in {"K", "M", "G", "T"} THEN <<MemMb(text)>> ELSE <<>>
      [] opt = "time" -> IF IsTimeLimit(text) THEN <<TimeLimitSecs(text)>> ELSE <<>>
      [] opt = "gpus" -> IF text \in Nat THEN <<text>> ELSE <<>>
      [] OTHER        -> <<text>>

----------------------------------------------------------------------------
(* The script: parse_directives and apply_tokens *)

(* the tokens at which the loop is: not those a `--opt` before them takes *)
AtToken(tokens) ==
    LET at[i \in 1 .. Len(tokens)] == IF i = 1 THEN TRUE
                                      ELSE ~(at[i - 1] /\ tokens[i - 1].form = "name")
    IN  {i \in DOMAIN tokens : at[i]}

(* the options of f, and those of g that f leaves open *)
Over(f, g) ==
    [opt \in DOMAIN f \cup DOMAIN g |-> IF opt \in DOMAIN f THEN f[opt] ELSE g[opt]]

(* the text that the token at i gives to its option *)
TextAt(tokens, i) ==
    LET opt == tokens[i].opt
    IN  IF tokens[i].form = "glued" THEN <<tokens[i].text[opt]>>
        ELSE IF i = Len(tokens) THEN <<>>
        ELSE <<tokens[i + 1].text[opt]>>

GivenAt(tokens) == {i \in AtToken(tokens) : tokens[i].form \in {"glued", "name"}}

LineIsValid(tokens) ==
    \A i \in GivenAt(tokens) :
        /\ TextAt(tokens, i) # <<>>
        /\ Parsed(tokens[i].opt, TextAt(tokens, i)[1]) # <<>>

(* the last value of a line counts *)
GivenBy(tokens) ==
    [opt \in {tokens[i].opt : i \in GivenAt(tokens)} |->
        LET last == Max({i \in GivenAt(tokens) : tokens[i].opt = opt})
        IN  Parsed(opt, TextAt(tokens, last)[1])[1]]

FlagsBy(tokens) ==
    {tokens[i].opt : i \in {k \in AtToken(tokens) : tokens[k].form = "flag"}}

ReadDirective(line) ==
    IF LineIsValid(line.tokens)
    THEN /\ given' = Over(GivenBy(line.tokens), given)
         /\ flags' = flags \cup FlagsBy(line.tokens)
         /\ UNCHANGED phase
    ELSE /\ phase' = "refused"
         /\ UNCHANGED <<given, flags>>

(* the first command ends the header *)
ReadLine ==
    /\ phase = "reading" /\ read < Len(script)
    /\ LET line == script[read + 1]
       IN  /\ IF line.kind = "directive" THEN ReadDirective(line)
              ELSE /\ phase' = IF line.kind = "command" THEN "resolving" ELSE phase
                   /\ UNCHANGED <<given, flags>>
           /\ read' = read + 1
    /\ UNCHANGED <<inputs, row>>

(* a script without commands, and --wrap, which has no header *)
ReadEnd ==
    /\ phase = "reading" /\ read = Len(script)
    /\ phase' = "resolving"
    /\ UNCHANGED <<inputs, read, given, flags, row>>

----------------------------------------------------------------------------
(* The other sources, and the request *)

(* load_sbatch_env_overrides: what cannot be parsed is as if not given *)
EnvGiven ==
    LET valid == {opt \in DOMAIN env.given : Parsed(opt, env.given[opt]) # <<>>}
    IN  [opt \in valid |-> Parsed(opt, env.given[opt])[1]]

(* parse_env_flag, with "1" for 1, true and yes *)
EnvFlags == {f \in DOMAIN env.flags : env.flags[f] = "1"}

\* mutant: the script wins over the environment
MergedScriptFirst == Over(given, EnvGiven)

(* merge_batch_directives *)
Merged == Over(EnvGiven, given)

CliIsValid == \A opt \in DOMAIN cli.given : Parsed(opt, cli.given[opt]) # <<>>

(* cli.or(merged).unwrap_or(default) *)
Resolved(opt, default) ==
    IF opt \in DOMAIN cli.given THEN Parsed(opt, cli.given[opt])[1]
    ELSE IF opt \in DOMAIN Merged THEN Merged[opt] ELSE default

Optional(opt) ==
    IF opt \in DOMAIN cli.given \cup DOMAIN Merged THEN <<Resolved(opt, 0)>> ELSE <<>>

(* ResourceArgs::resolve *)
Built ==
    LET p == Resolved("partition", DefaultPartition)
    IN  [partition |-> p,
         mem |-> Resolved("mem", 512),
         gpus |-> Resolved("gpus", DefaultGpus(p)),
         time |-> Optional("time"),
         constraint |-> Resolved("constraint", {}),
         begin |-> Optional("begin"),
         flags |-> cli.flags \cup EnvFlags \cup flags]

Acceptable(r) ==
    /\ HasPartition(r.partition)
    /\ MatchesConstraint(r.constraint, r.partition)
    /\ \A b \in Range(r.begin) : IsBegin(b)

TimesOf(begin) == [i \in DOMAIN begin |-> BeginTime(begin[i], Now)]

(* build_sbatch_request *)
Resolve ==
    /\ phase = "resolving"
    /\ IF CliIsValid /\ Acceptable(Built)
       THEN /\ phase' = "submitted"
            /\ row' = [Built EXCEPT !.begin = TimesOf(@)]
       ELSE phase' = "refused" /\ UNCHANGED row
    /\ UNCHANGED <<inputs, read, given, flags>>

(* timed_out_jobs: the seconds after its start after which the job is      *)
(* stopped                                                                 *)
Granted(limit) == IF Signed(limit) > 0 THEN Signed(limit) ELSE 0

----------------------------------------------------------------------------
(* scontrol update of the waiting job *)

(* the last value of a key counts *)
LastOf(update, key) ==
    LET at == {i \in DOMAIN update : key \in DOMAIN update[i]}
    IN  IF at = {} THEN <<>> ELSE <<update[Max(at)][key]>>

TimesAreValid(update) ==
    \A i \in DOMAIN update : "time" \in DOMAIN update[i] => IsTimeLimit(update[i].time)

\* mutant: the constraint is compared with the partition the job leaves
UpdateIsValidStale(update) ==
    /\ TimesAreValid(update)
    /\ \A p \in Range(LastOf(update, "partition")) :
           MatchesConstraint(row.constraint, row.partition)

(* run_update_job: whether there is such a partition is not asked *)
UpdateIsValid(update) ==
    /\ TimesAreValid(update)
    /\ \A p \in Range(LastOf(update, "partition")) : MatchesConstraint(row.constraint, p)

(* update_job_fields *)
Update(update) ==
    /\ phase \in {"submitted", "updated"}
    /\ UpdateIsValid(update)
    /\ LET p == LastOf(update, "partition")
           t == LastOf(update, "time")
       IN  row' = [row EXCEPT !.partition = IF p = <<>> THEN @ ELSE p[1],
                              !.time = IF t = <<>> THEN @ ELSE <<TimeLimitSecs(t[1])>>]
    /\ phase' = "updated"
    /\ UNCHANGED <<inputs, read, given, flags>>

----------------------------------------------------------------------------
Next ==
    \/ ReadLine \/ ReadEnd \/ Resolve
    \/ \E update \in Updates : Update(update)

Spec == Init /\ [][Next]_vars

----------------------------------------------------------------------------
(* Properties *)

(* the lines before the first command, and their tokens in a row *)
Header ==
    LET commands == {n \in DOMAIN script : script[n].kind = "command"}
    IN  SubSeq(script, 1, IF commands = {} THEN Len(script) ELSE Min(commands) - 1)
HeaderTokens ==
    FlattenSeq([n \in DOMAIN Header |->
                  IF Header[n].kind = "directive" THEN Header[n].tokens ELSE <<>>])

(* what the last #SBATCH that names the option says *)
Directive(opt) ==
    LET at == {i \in GivenAt(HeaderTokens) : HeaderTokens[i].opt = opt}
    IN  IF at = {} THEN <<>> ELSE Parsed(opt, TextAt(HeaderTokens, Max(at))[1])

(* "Precedence: 1. command-line options 2. SBATCH_* environment variables  *)
(* 3. #SBATCH directives" (docs-site sbatch): whichever way the sources    *)
(* are merged, the request has the value of the strongest source that      *)
(* gives a readable one, of the last #SBATCH that names the option before  *)
(* the first command, also when --opt takes its value from the next token. *)
(* Flags have no "off": each source can only add one.                      *)
Asked(opt) ==
    IF opt \in DOMAIN cli.given THEN Parsed(opt, cli.given[opt])
    ELSE IF opt \in DOMAIN env.given /\ Parsed(opt, env.given[opt]) # <<>>
         THEN Parsed(opt, env.given[opt])
    ELSE Directive(opt)

StrongestSourceWins ==
    phase = "submitted" =>
        /\ \A opt \in {"partition", "gpus", "mem", "constraint"} :
               Asked(opt) # <<>> => row[opt] = Asked(opt)[1]
        /\ row.time = Asked("time") /\ row.begin = TimesOf(Asked("begin"))
        /\ row.flags = cli.flags \cup {f \in DOMAIN env.flags : env.flags[f] = "1"}
                                 \cup FlagsBy(HeaderTokens)

(* A job that asks for a feature is never in a partition that does not     *)
(* have it: not by sbatch, whichever sources the two come from, and not    *)
(* by scontrol update, whose later keys replace earlier ones.  CPU         *)
(* partitions have "cpu"; GPU partitions also have the local features      *)
(* except the generic "gpu".                                               *)
FeaturesOf(p) ==
    {"cpu", p} \cup (IF p \in Range(GpuPartitions) THEN LocalFeatures \ {"gpu"} ELSE {})
ConstraintHolds ==
    phase \in {"submitted", "updated"} => row.constraint \subseteq FeaturesOf(row.partition)

(* The calendar counted year by year and month by month from 1970-01-01.   *)
(* A century has no leap day unless it is a fourth one.                    *)
LeapDays(y) == y \div 4 - y \div 100 + y \div 400     \* in the years 1 .. y
Length(y, m) == IF m = 2 /\ LeapDays(y) > LeapDays(y - 1) THEN 29
                ELSE <<31, 28, 31, 30, 31, 30, 31, 31, 30, 31, 30, 31>>[m]
DaysCounted(y, m, d) ==
    LET before[n \in 1 .. 12] == IF n = 1 THEN 0 ELSE before[n - 1] + Length(y, n - 1)
    IN  365 * (y - 1970) + LeapDays(y - 1) - LeapDays(1969) + before[m] + d - 1
Real(date) == /\ date[2] \in 1 .. 12 /\ date[3] \in 1 .. Length(date[1], date[2])
              /\ date[4] < 24 /\ date[5] < 60 /\ date[6] < 60

(* sbatch refuses the dates the calendar does not have, and no others.  A  *)
(* date that --begin names is stored as the second the calendar counts,    *)
(* and scontrol and squeue show the date that was asked for: the code's    *)
(* conversions, whose divisions truncate, agree with the calendar and with *)
(* each other over leap years, centuries, eras of 400 years and the year   *)
(* 0.                                                                      *)
OnlyDateGiven == DOMAIN cli.given = {"begin"} /\ script = <<>> /\ DOMAIN env.given = {}
BeginIsAsAsked ==
    \A b \in Range(Asked("begin")) : b.kind = "date" =>
        LET d == b.date
        IN  /\ phase = "submitted" =>
                /\ Real(d)
                /\ row.begin[1] = <<DaysCounted(d[1], d[2], d[3]), d[4] * 3600 + d[5] * 60 + d[6]>>
                /\ FromEpoch(row.begin[1]) = d
            /\ phase = "refused" /\ OnlyDateGiven => ~Real(d)

(* What squeue and scontrol show as the job's time limit is the time the   *)
(* daemon grants it, and can be given to --time or scontrol update again   *)
(* without changing that, also when the sum wrapped around.  The column    *)
(* and the conversions of those who read it are signed: 2^63 seconds and   *)
(* more are shown as 00:00:00, and such a job is stopped at once.          *)
LimitReadsBack ==
    phase \in {"submitted", "updated"} => \A limit \in Range(row.time) :
        LET shown == Duration(Signed(limit))
        IN  IsTimeLimit(shown) /\ TimeLimitSecs(shown) = Granted(limit)
=============================================================================
