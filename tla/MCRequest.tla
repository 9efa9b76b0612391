----------------------------- MODULE MCRequest -----------------------------
(***************************************************************************)
(* A small instance of Request: three sources that differ, and one source  *)
(* with every kind of date and duration.                                   *)
(***************************************************************************)
EXTENDS Request

Glued(opt, val) == [form |-> "glued", opt |-> opt, text |-> (opt :> val)]
Name(opt) == [form |-> "name", opt |-> opt]
Word(opt, val) == [form |-> "word", text |-> (opt :> val)]
Flag(opt) == [form |-> "flag", opt |-> opt]
Line(kind, tokens) == [kind |-> kind, tokens |-> tokens]
SBATCH(tokens) == Line("directive", tokens)
Mem(n, unit) == [n |-> n, unit |-> unit]
Text(parts) == [days |-> <<>>, parts |-> parts]

Command == Line("command", <<>>)
Skipped == {Line("shebang", <<>>), Line("comment", <<>>)}
Directives ==
    {SBATCH(<<Glued("partition", "cpu"), Name("mem"), Word("mem", Mem(3, "G"))>>),
     SBATCH(<<Name("partition"), Word("partition", "gpu"), Word("gpus", 7), Glued("constraint", {"fast"})>>),
     SBATCH(<<Glued("time", Text(<<90>>)), Flag("exclusive"), Glued("time", Text(<<1, 30>>))>>),
     SBATCH(<<Glued("mem", Mem(1, "X"))>>),
     SBATCH(<<Glued("gpus", 2), Name("mem")>>)}
HeaderLine == Skipped \cup Directives

\* up to three lines, with commands among them
Scripts3 ==
    {<<>>} \cup {<<l>> : l \in HeaderLine}
    \cup {<<a, b, c>> : a \in HeaderLine, b \in HeaderLine \cup {Command}, c \in Directives}

Source(options, marks) == [given |-> options, flags |-> marks]
NoFlags == <<>>
Envs ==
    {Source(<<>>, NoFlags),
     Source("partition" :> "gpu" @@ "mem" :> Mem(5, "X") @@ "gpus" :> 0, "exclusive" :> "0"),
     Source("mem" :> Mem(1025, "K") @@ "begin" :> [kind |-> "date", date |-> <<2023, 2, 29, 0, 0, 0>>],
           "requeue" :> "1")}
Clis ==
    {Source(<<>>, {}),
     Source("partition" :> "cpu" @@ "begin" :> [kind |-> "now"], {"requeue"}),
     Source("constraint" :> {"fast", "cpu"} @@ "mem" :> Mem(1025, "K"), {}),
     Source("mem" :> Mem(1001, "T") @@ "constraint" :> {"gpu"}, {}),
     Source("partition" :> "nowhere" @@ "mem" :> Mem(0, "M"), {}),
     Source("mem" :> Mem(2, "G") @@ "time" :> [days |-> <<1>>, parts |-> <<0, 0, 1>>], {})}

ScontrolUpdates ==
    {<<"partition" :> p>> : p \in {"cpu", "gpu", "nowhere"}}
    \cup {<<"partition" :> "gpu", "partition" :> "cpu">>,
          <<"time" :> Text(<<5>>)>>,
          <<"time" :> Text(<<1, 2, 3, 4>>), "partition" :> "cpu">>}

(* every day there could be, in years around the year 0, centuries, leap   *)
(* years and the borders of eras                                           *)
Dates ==
    {<<y, m, d, 23, 59, 59>> : y \in {0, 1, 1600, 1900, 1970, 1999, 2000, 2023, 2024, 2100},
                               m \in 0 .. 13, d \in 0 .. 32}
    \cup {<<2024, 2, 29, h, 0, s>> : h \in {0, 24}, s \in {1, 60}}
Begins ==
    {[kind |-> "date", date |-> date] : date \in Dates}
    \cup {[kind |-> "later", after |-> Text(<<0, 30>>)], [kind |-> "later", after |-> Text(<<>>)],
          [kind |-> "epoch", at |-> <<0, 0>>], [kind |-> "other"]}

(* every kind of carry, and more days than the integer has seconds for *)
Limits ==
    {[days |-> days, parts |-> <<h, m, s>>] : days \in {<<>>, <<0>>, <<1>>, <<6068>>, <<12136>>, <<12137>>},
                                              h \in {0, 1, 23, 24}, m \in {0, 59}, s \in {0, 59, 60}}

Input(s, e, c) == [script |-> s, env |-> e, cli |-> c]
CheckedInputs ==
    {Input(s, e, c) : s \in Scripts3, e \in Envs, c \in Clis}
    \cup {Input(<<>>, Source(<<>>, NoFlags), Source("begin" :> b, {})) : b \in Begins}
    \cup {Input(<<>>, Source(<<>>, NoFlags), Source("time" :> t, {})) : t \in Limits}

Cpu == <<"cpu">>
Gpu == <<"gpu">>
Evening == <<19752, 86000>>
=============================================================================
