---------------------------- MODULE OutputProofs ----------------------------
(***************************************************************************)
(* Theorems about Output, for any runs, steps, tasks and options: the      *)
(* launcher's status, and that no line of a job or a step is lost on its   *)
(* way to the file it was meant for.                                       *)
(***************************************************************************)
EXTENDS Output, SequenceTheorems, FiniteSetTheorems, TLAPS

----------------------------------------------------------------------------
(* Sequences of lines *)

(* No element of S that comes later is related before one that comes       *)
(* earlier; every element of S comes before those of T.  R holds the pairs *)
(* <<x, y>> for which x must not be left of y.                             *)
Ordered(S, R) == \A m, n \in DOMAIN S : m < n => <<S[m], S[n]>> \notin R
Precede(S, T, R) == \A m \in DOMAIN S, n \in DOMAIN T : <<S[m], T[n]>> \notin R
Has(S, x) == \E n \in DOMAIN S : S[n] = x

LEMMA Concat ==
    ASSUME NEW A, NEW a \in Seq(A), NEW b \in Seq(A), NEW c \in Seq(A), NEW R
    PROVE  /\ Ordered(a, R) /\ Ordered(b, R) /\ Precede(a, b, R) => Ordered(a \o b, R)
           /\ Precede(a, c, R) /\ Precede(b, c, R) => Precede(a \o b, c, R)
           /\ Precede(c, a, R) /\ Precede(c, b, R) => Precede(c, a \o b, R)
           /\ \A x : Has(a \o b, x) <=> Has(a, x) \/ Has(b, x)
<1> DEFINE ab == a \o b
<1>1. /\ ab \in Seq(A) /\ Len(ab) = Len(a) + Len(b) /\ Len(a) \in Nat /\ Len(b) \in Nat
      /\ DOMAIN ab = 1 .. Len(a) + Len(b) /\ DOMAIN a = 1 .. Len(a) /\ DOMAIN b = 1 .. Len(b)
  BY ConcatProperties, LenProperties
<1>2. \A i \in 1 .. Len(a) + Len(b) : ab[i] = IF i <= Len(a) THEN a[i] ELSE b[i - Len(a)]
  BY ConcatProperties
<1> HIDE DEF ab
<1>3. ASSUME NEW i \in DOMAIN ab
      PROVE  \/ i \in DOMAIN a /\ ab[i] = a[i]
             \/ i > Len(a) /\ i - Len(a) \in DOMAIN b /\ ab[i] = b[i - Len(a)]
  BY <1>1, <1>2
<1>4. /\ \A i \in DOMAIN a : i \in DOMAIN ab /\ ab[i] = a[i]
      /\ \A i \in DOMAIN b : i + Len(a) \in DOMAIN ab /\ ab[i + Len(a)] = b[i]
  BY <1>1, <1>2
<1>5. ASSUME Ordered(a, R), Ordered(b, R), Precede(a, b, R), NEW m \in DOMAIN ab, NEW n \in DOMAIN ab, m < n
      PROVE  <<ab[m], ab[n]>> \notin R
  <2>1. CASE m \in DOMAIN a /\ ab[m] = a[m]
    <3>1. CASE n \in DOMAIN a /\ ab[n] = a[n]
      BY <1>5, <2>1, <3>1 DEF Ordered
    <3>2. CASE n > Len(a) /\ n - Len(a) \in DOMAIN b /\ ab[n] = b[n - Len(a)]
      BY <1>5, <2>1, <3>2 DEF Precede
    <3>3. QED
      BY <1>3, <3>1, <3>2
  <2>2. CASE m > Len(a) /\ m - Len(a) \in DOMAIN b /\ ab[m] = b[m - Len(a)]
    <3>1. n > Len(a) /\ n - Len(a) \in DOMAIN b /\ ab[n] = b[n - Len(a)]
          /\ m - Len(a) < n - Len(a)
      BY <1>1, <1>3, <1>5, <2>2
    <3>2. QED
      BY <1>5, <2>2, <3>1 DEF Ordered
  <2>3. QED
    BY <1>3, <2>1, <2>2
<1>6. ASSUME Precede(a, c, R), Precede(b, c, R)
      PROVE  Precede(ab, c, R)
  BY <1>3, <1>6 DEF Precede
<1>7. ASSUME Precede(c, a, R), Precede(c, b, R)
      PROVE  Precede(c, ab, R)
  BY <1>3, <1>7 DEF Precede
<1>8. \A x : Has(ab, x) <=> Has(a, x) \/ Has(b, x)
  BY <1>3, <1>4 DEF Has
<1>9. QED
  BY <1>5, <1>6, <1>7, <1>8 DEF Ordered, ab

(* One line, and taking the first one off. *)
LEMMA One ==
    ASSUME NEW A, NEW h \in A
    PROVE  /\ <<h>> \in Seq(A) /\ \A R : Ordered(<<h>>, R)
           /\ \A x : Has(<<h>>, x) <=> x = h
           /\ \A S, R : Precede(S, <<h>>, R) <=> \A m \in DOMAIN S : <<S[m], h>> \notin R
           /\ \A S, R : Precede(<<h>>, S, R) <=> \A m \in DOMAIN S : <<h, S[m]>> \notin R
           /\ <<>> \in Seq(A) /\ \A R : Ordered(<<>>, R)
           /\ \A x : ~Has(<<>>, x)
           /\ \A S, R : Precede(S, <<>>, R) /\ Precede(<<>>, S, R)
<1>1. DOMAIN <<h>> = {1} /\ <<h>>[1] = h /\ <<h>> \in Seq(A)
  OBVIOUS
<1>2. \A n \in DOMAIN << >> : FALSE
  OBVIOUS
<1>3. <<>> \in Seq(A)
  BY EmptySeq
<1>4. QED
  BY <1>1, <1>2, <1>3 DEF Ordered, Has, Precede

LEMMA First ==
    ASSUME NEW A, NEW s \in Seq(A), s # <<>>, NEW R
    PROVE  /\ Head(s) \in A /\ Tail(s) \in Seq(A)
           /\ Ordered(s, R) => Ordered(Tail(s), R) /\ Precede(<<Head(s)>>, Tail(s), R)
           /\ \A S : Precede(S, s, R) => Precede(S, <<Head(s)>>, R) /\ Precede(S, Tail(s), R)
           /\ \A x : Has(s, x) <=> x = Head(s) \/ Has(Tail(s), x)
<1> DEFINE t == Tail(s)
           h == Head(s)
<1>1. /\ h \in A /\ t \in Seq(A) /\ Len(t) = Len(s) - 1
      /\ \A i \in 1 .. Len(t) : t[i] = s[i + 1]
  BY HeadTailProperties
<1>2. /\ DOMAIN s = 1 .. Len(s) /\ Len(s) \in Nat \ {0} /\ DOMAIN t = 1 .. Len(t) /\ Len(t) \in Nat
  BY <1>1, LenProperties, EmptySeq
<1>3. h = s[1]
  OBVIOUS
<1> HIDE DEF t, h
<1>4. \A i \in DOMAIN t : i + 1 \in DOMAIN s /\ t[i] = s[i + 1]
  BY <1>1, <1>2
<1>5. 1 \in DOMAIN s /\ \A i \in DOMAIN s : i = 1 \/ (i - 1 \in DOMAIN t /\ s[i] = t[i - 1])
  BY <1>1, <1>2
<1>6. Ordered(s, R) => Ordered(t, R)
  <2>1. SUFFICES ASSUME Ordered(s, R), NEW m \in DOMAIN t, NEW n \in DOMAIN t, m < n
                 PROVE  <<t[m], t[n]>> \notin R
    BY DEF Ordered
  <2>2. m + 1 < n + 1 /\ m + 1 \in DOMAIN s /\ n + 1 \in DOMAIN s
    BY <1>2, <1>4, <2>1
  <2>3. QED
    BY <1>4, <2>1, <2>2 DEF Ordered
<1>7. Ordered(s, R) => Precede(<<h>>, t, R)
  <2>1. SUFFICES ASSUME Ordered(s, R), NEW m \in DOMAIN t PROVE <<h, t[m]>> \notin R
    BY <1>1, One
  <2>2. 1 < m + 1 /\ m + 1 \in DOMAIN s /\ t[m] = s[m + 1]
    BY <1>2, <1>4
  <2>3. QED
    BY <1>3, <1>5, <2>1, <2>2 DEF Ordered
<1>8. \A S : Precede(S, s, R) => Precede(S, <<h>>, R) /\ Precede(S, t, R)
  <2>1. ASSUME NEW S, Precede(S, s, R)
        PROVE  Precede(S, <<h>>, R)
    <3>1. SUFFICES ASSUME NEW m \in DOMAIN S PROVE <<S[m], h>> \notin R
      BY <1>1, One
    <3>2. QED
      BY <1>3, <1>5, <2>1 DEF Precede
  <2>2. ASSUME NEW S, Precede(S, s, R)
        PROVE  Precede(S, t, R)
    BY <1>4, <2>2 DEF Precede
  <2>3. QED
    BY <2>1, <2>2
<1>9. \A x : Has(s, x) <=> x = h \/ Has(t, x)
  BY <1>3, <1>4, <1>5 DEF Has
<1>10. QED
  BY <1>1, <1>6, <1>7, <1>8, <1>9 DEF t, h

----------------------------------------------------------------------------
(* write(2) *)

LEMMA LargerOf == ASSUME NEW a \in Nat, NEW b \in Nat
                  PROVE  Larger(a, b) \in Nat /\ Larger(a, b) >= a /\ Larger(a, b) >= b
BY DEF Larger

(* A write at the end of a file appends to it. *)
LEMMA WriteAtEnd ==
    ASSUME NEW A, NEW c \in Seq(A), NEW ls \in Seq(A)
    PROVE  Overwrite(c, Len(c), ls) = c \o ls
<1> DEFINE w == Overwrite(c, Len(c), ls)
<1>1. /\ Len(c) \in Nat /\ Len(ls) \in Nat
      /\ c \in [1 .. Len(c) -> A] /\ ls \in [1 .. Len(ls) -> A]
  BY LenProperties
<1>2. Larger(Len(c), Len(c) + Len(ls)) = Len(c) + Len(ls)
  BY <1>1 DEF Larger
<1>3. w = [i \in 1 .. Len(c) + Len(ls) |-> IF i <= Len(c) THEN c[i] ELSE ls[i - Len(c)]]
  BY <1>1, <1>2 DEF Overwrite
<1>4. w \in [1 .. Len(c) + Len(ls) -> A]
  BY <1>1, <1>3
<1>5. w \in Seq(A) /\ Len(w) = Len(c) + Len(ls)
  BY <1>1, <1>4
<1>6. /\ c \o ls \in Seq(A) /\ Len(c \o ls) = Len(c) + Len(ls)
      /\ \A i \in 1 .. Len(c) + Len(ls) :
            (c \o ls)[i] = IF i <= Len(c) THEN c[i] ELSE ls[i - Len(c)]
  BY ConcatProperties
<1> HIDE DEF w
<1>7. \A i \in 1 .. Len(w) : w[i] = (c \o ls)[i]
  BY <1>3, <1>5, <1>6
<1>8. w = c \o ls
  BY <1>5, <1>6, <1>7, SeqEqual
<1>9. QED
  BY <1>8 DEF w

(* Elsewhere it overwrites lines, or leaves a hole. *)
LEMMA WriteType ==
    ASSUME NEW A, Hole \in A, NEW c \in Seq(A), NEW ls \in Seq(A), NEW pos \in Nat
    PROVE  Overwrite(c, pos, ls) \in Seq(A)
<1> DEFINE n == Larger(Len(c), pos + Len(ls))
<1>1. /\ Len(c) \in Nat /\ Len(ls) \in Nat
      /\ c \in [1 .. Len(c) -> A] /\ ls \in [1 .. Len(ls) -> A]
  BY LenProperties
<1>2. n \in Nat
  <2>1. pos + Len(ls) \in Nat
    BY <1>1
  <2>2. QED
    BY <1>1, <2>1, LargerOf
<1> HIDE DEF n
<1>3. ASSUME NEW i \in 1 .. n
      PROVE  (IF i \in pos + 1 .. pos + Len(ls) THEN ls[i - pos]
              ELSE IF i <= Len(c) THEN c[i] ELSE Hole) \in A
  BY <1>1, <1>2
<1>4. Overwrite(c, pos, ls) \in [1 .. n -> A]
  BY <1>3 DEF Overwrite, n
<1>5. QED
  BY <1>2, <1>4

----------------------------------------------------------------------------
(***************************************************************************)
(* The way of a line: it waits in a task's sed (Z), then in the socket     *)
(* pair (P) and in the forwarder's buffer (B), and arrives in the file     *)
(* (F).  Whatever is missing on the way of a stream is empty.              *)
(***************************************************************************)
Way(F, B, P, Z, R) ==
    /\ Ordered(F, R) /\ Ordered(B, R) /\ Ordered(P, R) /\ Ordered(Z, R)
    /\ Precede(F, B, R) /\ Precede(F, P, R) /\ Precede(F, Z, R)
    /\ Precede(B, P, R) /\ Precede(B, Z, R) /\ Precede(P, Z, R)
OnWay(F, B, P, Z, x) == Has(F, x) \/ Has(B, x) \/ Has(P, x) \/ Has(Z, x)

(* Lines of another stream may come to the file at any time. *)
LEMMA WayForeign ==
    ASSUME NEW A, NEW F \in Seq(A), NEW B \in Seq(A), NEW P \in Seq(A), NEW Z \in Seq(A), NEW R,
           Way(F, B, P, Z, R), NEW a \in Seq(A),
           \A m \in DOMAIN a : \A x : <<a[m], x>> \notin R /\ <<x, a[m]>> \notin R
    PROVE  /\ Way(F \o a, B, P, Z, R)
           /\ \A x : OnWay(F, B, P, Z, x) => OnWay(F \o a, B, P, Z, x)
<1>1. Ordered(a, R) /\ \A S : Precede(a, S, R) /\ Precede(S, a, R)
  BY DEF Ordered, Precede
<1>2. /\ Ordered(F \o a, R) /\ Precede(F \o a, B, R) /\ Precede(F \o a, P, R)
      /\ Precede(F \o a, Z, R) /\ \A x : Has(F \o a, x) <=> Has(F, x) \/ Has(a, x)
  BY <1>1, Concat DEF Way
<1>3. QED
  BY <1>2 DEF Way, OnWay

(* ReadPipe *)
LEMMA WayRead ==
    ASSUME NEW F, NEW P, NEW Z, NEW R, Way(F, <<>>, P, Z, R)
    PROVE  /\ Way(F, P, <<>>, Z, R)
           /\ \A x : OnWay(F, <<>>, P, Z, x) => OnWay(F, P, <<>>, Z, x)
BY One DEF Way, OnWay

(* Forward *)
LEMMA WayForward ==
    ASSUME NEW A, NEW F \in Seq(A), NEW B \in Seq(A), NEW P \in Seq(A), NEW Z \in Seq(A), NEW R,
           Way(F, B, P, Z, R)
    PROVE  /\ Way(F \o B, <<>>, P, Z, R)
           /\ \A x : OnWay(F, B, P, Z, x) => OnWay(F \o B, <<>>, P, Z, x)
<1>1. /\ Ordered(F \o B, R) /\ Precede(F \o B, P, R) /\ Precede(F \o B, Z, R)
      /\ \A x : Has(F \o B, x) <=> Has(F, x) \/ Has(B, x)
  BY Concat DEF Way
<1>2. QED
  BY <1>1, One DEF Way, OnWay

(* A line comes to the socket pair. *)
LEMMA WayPush ==
    ASSUME NEW A, NEW F \in Seq(A), NEW B \in Seq(A), NEW P \in Seq(A), NEW Z \in Seq(A), NEW R,
           Way(F, B, P, Z, R), NEW h \in A,
           Precede(F, <<h>>, R), Precede(B, <<h>>, R), Precede(P, <<h>>, R), Precede(<<h>>, Z, R)
    PROVE  /\ Way(F, B, P \o <<h>>, Z, R)
           /\ \A x : OnWay(F, B, P, Z, x) \/ x = h => OnWay(F, B, P \o <<h>>, Z, x)
<1>1. <<h>> \in Seq(A) /\ Ordered(<<h>>, R) /\ \A x : Has(<<h>>, x) <=> x = h
  BY One
<1>2. /\ Ordered(P \o <<h>>, R) /\ Precede(P \o <<h>>, Z, R)
      /\ Precede(F, P \o <<h>>, R) /\ Precede(B, P \o <<h>>, R)
      /\ \A x : Has(P \o <<h>>, x) <=> Has(P, x) \/ Has(<<h>>, x)
  BY <1>1, Concat DEF Way
<1>3. QED
  BY <1>1, <1>2 DEF Way, OnWay

(* A line comes to sed. *)
LEMMA WayNew ==
    ASSUME NEW A, NEW F \in Seq(A), NEW B \in Seq(A), NEW P \in Seq(A), NEW Z \in Seq(A), NEW R,
           Way(F, B, P, Z, R), NEW h \in A,
           Precede(F, <<h>>, R), Precede(B, <<h>>, R), Precede(P, <<h>>, R), Precede(Z, <<h>>, R)
    PROVE  /\ Way(F, B, P, Z \o <<h>>, R)
           /\ \A x : OnWay(F, B, P, Z, x) \/ x = h => OnWay(F, B, P, Z \o <<h>>, x)
<1>1. <<h>> \in Seq(A) /\ Ordered(<<h>>, R) /\ \A x : Has(<<h>>, x) <=> x = h
  BY One
<1>2. /\ Ordered(Z \o <<h>>, R) /\ Precede(P, Z \o <<h>>, R)
      /\ Precede(F, Z \o <<h>>, R) /\ Precede(B, Z \o <<h>>, R)
      /\ \A x : Has(Z \o <<h>>, x) <=> Has(Z, x) \/ Has(<<h>>, x)
  BY <1>1, Concat DEF Way
<1>3. QED
  BY <1>1, <1>2 DEF Way, OnWay

(* A line that needs no forwarder comes to the file. *)
LEMMA WayStraight ==
    ASSUME NEW A, NEW F \in Seq(A), NEW Z \in Seq(A), NEW R,
           Way(F, <<>>, <<>>, Z, R), NEW h \in A, Precede(F, <<h>>, R), Precede(<<h>>, Z, R)
    PROVE  /\ Way(F \o <<h>>, <<>>, <<>>, Z, R)
           /\ \A x : OnWay(F, <<>>, <<>>, Z, x) \/ x = h => OnWay(F \o <<h>>, <<>>, <<>>, Z, x)
<1>1. <<h>> \in Seq(A) /\ Ordered(<<h>>, R) /\ \A x : Has(<<h>>, x) <=> x = h
  BY One
<1>2. /\ Ordered(F \o <<h>>, R) /\ Precede(F \o <<h>>, Z, R)
      /\ \A x : Has(F \o <<h>>, x) <=> Has(F, x) \/ Has(<<h>>, x)
  BY <1>1, Concat DEF Way
<1>3. QED
  BY <1>1, <1>2, One DEF Way, OnWay

(* The head of sed's queue leaves it. *)
LEMMA WayPop ==
    ASSUME NEW A, NEW F, NEW B, NEW P, NEW Z \in Seq(A), NEW R, Way(F, B, P, Z, R), Z # <<>>
    PROVE  /\ Way(F, B, P, Tail(Z), R)
           /\ Precede(F, <<Head(Z)>>, R) /\ Precede(B, <<Head(Z)>>, R) /\ Precede(P, <<Head(Z)>>, R)
           /\ Precede(<<Head(Z)>>, Tail(Z), R)
           /\ \A x : OnWay(F, B, P, Z, x) => OnWay(F, B, P, Tail(Z), x) \/ x = Head(Z)
<1>1. /\ Ordered(Tail(Z), R) /\ Precede(<<Head(Z)>>, Tail(Z), R)
      /\ \A x : Has(Z, x) <=> x = Head(Z) \/ Has(Tail(Z), x)
  BY First DEF Way
<1>2. \A S : Precede(S, Z, R) => Precede(S, <<Head(Z)>>, R) /\ Precede(S, Tail(Z), R)
  BY First
<1>3. QED
  BY <1>1, <1>2 DEF Way, OnWay

----------------------------------------------------------------------------
(* The inductive invariant *)

(* The lines that task k, or any task, printed to a stream so far *)
OwnOf(p, s, k) == {Line(p, s, i) : i \in {j \in DOMAIN sent[<<p, s>>] : sent[<<p, s>>][j] = k}}
Own(p, s) == {Line(p, s, i) : i \in DOMAIN sent[<<p, s>>]}
AllOwn == UNION {Own(p, s) : p \in Program, s \in Stream}

(* Nothing but what was printed is on its way or in a file. *)
LinesInv ==
    /\ \A p \in Program, s \in Stream, k \in Rank : sed[<<p, s>>][k] \in Seq(OwnOf(p, s, k))
    /\ \A p \in Steps, s \in Stream :
          pipe[<<p, s>>] \in Seq(Own(p, s)) /\ thread[<<p, s>>].buf \in Seq(Own(p, s))
    /\ \A f \in File : file[f] \in Seq(AllOwn \cup {Hole})

(* A program that was not launched has done nothing. *)
IdleInv ==
    \A p \in Program : ~Launched(p) =>
        /\ launcher[p].waited = 0 /\ launcher[p].status = "ok" /\ p \notin shared
        /\ \A k \in Rank : task[<<p, k>>] = [state |-> "none", code |-> "ok"]
        /\ \A s \in Stream : sent[<<p, s>>] = <<>>
        /\ p \in Steps => client[p] = "idle" /\ step[p] = NoStep

FileOf(p, s) == IF p \in Runs THEN JobFile(s) ELSE StepFile(step[p].run, step[p], s)
OneFile(p) == IF p \in Runs THEN ~job.split ELSE SamePath(step[p])

(* The files of a program that was launched, and its descriptions. *)
LaunchedInv ==
    \A p \in Program : Launched(p) =>
        /\ \A s \in Stream : desc[<<p, s>>].file = FileOf(p, s)
        /\ p \in shared <=> OneFile(p)
        /\ p \in Steps => client[p] # "idle"

(* What is on its way, and where nothing can be any more. *)
ThreadInv ==
    /\ \A p \in Program, s \in Stream, k \in Rank : ~Labelled(p) => sed[<<p, s>>][k] = <<>>
    /\ \A p \in Steps, s \in Stream :
          /\ thread[<<p, s>>].state # "none" <=> Streamed(p)
          /\ thread[<<p, s>>].state # "reading" =>
                thread[<<p, s>>].buf = <<>> /\ pipe[<<p, s>>] = <<>>
          /\ thread[<<p, s>>].state = "ended" => ~Held(p, s)

(* The forwarders srun has joined. *)
ClientInv ==
    \A p \in Steps :
        /\ client[p] \in {"joinOut", "joinErr"} => Streamed(p)
        /\ client[p] \in {"joinErr", "finish", "reported"} /\ Streamed(p) =>
              thread[<<p, "out">>].state = "ended"
        /\ client[p] \in {"finish", "reported"} /\ Streamed(p) =>
              thread[<<p, "err">>].state = "ended"

(* The launcher has waited for the tasks before `waited`, and none of      *)
(* these runs; a task that does not exist has the code of an idle one.     *)
StatusInv ==
    \A p \in Program :
        /\ \A k \in Rank : k >= job.tasks =>
              task[<<p, k>>].state = "none" /\ task[<<p, k>>].code = "ok"
        /\ launcher[p].state = "running" => launcher[p].waited < job.tasks
        /\ launcher[p].state = "exited" => launcher[p].waited = job.tasks
        /\ launcher[p].state \in {"running", "exited"} =>
              /\ \A k \in Rank : k < launcher[p].waited =>
                    task[<<p, k>>].state \in {"background", "gone"}
              /\ launcher[p].status = "ok" <=>
                    \A k \in Rank : k < launcher[p].waited => task[<<p, k>>].code = "ok"

(* One run begins when the one before has ended; a run that was alone when *)
(* it began is the only one with processes.                                *)
AloneInv ==
    /\ \A r, q \in Runs : Launched(r) /\ q < r => Ended(q)
    /\ \A r \in Runs : Current(r) /\ ~job.append /\ launcher[r].alone =>
          \A q \in Runs \ {r}, k \in Rank : ~Alive(q, k)

(* The streams JobOutputKept and StepOutputKept are about *)
JobSafe(r) == (job.append \/ (Current(r) /\ launcher[r].alone)) /\ \A p \in Steps : ~Inherits(p)
StepPath(p, s) == IF s = "out" THEN step[p].out ELSE step[p].err
StepSafe(p, s) == StepPath(p, s) # "none" /\ \A q \in Steps \ {p} : ~Launched(q)
Safe(p, s) == Launched(p) /\ (IF p \in Runs THEN JobSafe(p) ELSE StepSafe(p, s))
Flowing(p, s) == Streamed(p) => thread[<<p, s>>].state # "failed"

(* They are written at the end of the file. *)
OffsetInv ==
    \A p \in Program, s \in Stream :
        Safe(p, s) /\ ~Appends(p) => desc[Target(p, s)].pos = Len(file[FileOf(p, s)])

(* No line of theirs is lost on its way, and no task's lines are mixed up. *)
Later(p, s) ==
    {w \in Own(p, s) \X Own(p, s) :
        \E i, j \in DOMAIN sent[<<p, s>>] :
            /\ w = <<Line(p, s, i), Line(p, s, j)>>
            /\ sent[<<p, s>>][i] = sent[<<p, s>>][j] /\ j <= i}
Buf(p, s) == IF p \in Steps THEN thread[<<p, s>>].buf ELSE <<>>
Pipe(p, s) == IF p \in Steps THEN pipe[<<p, s>>] ELSE <<>>
Flow(p, s) ==
    LET F == file[FileOf(p, s)]
    IN  /\ \A k \in Rank : Way(F, Buf(p, s), Pipe(p, s), sed[<<p, s>>][k], Later(p, s))
        /\ \A i \in DOMAIN sent[<<p, s>>] :
              OnWay(F, Buf(p, s), Pipe(p, s), sed[<<p, s>>][sent[<<p, s>>][i]], Line(p, s, i))
FlowInv == \A p \in Program, s \in Stream : Safe(p, s) /\ Flowing(p, s) => Flow(p, s)

IInv ==
    /\ TypeOK /\ LinesInv /\ IdleInv /\ LaunchedInv /\ ThreadInv /\ ClientInv
    /\ StatusInv /\ AloneInv /\ OffsetInv /\ FlowInv

(* Facts about the constants *)
LEMMA Ranks ==
    ASSUME TypeOK
    PROVE  /\ MaxTasks \in Nat /\ job.tasks \in Nat /\ job.tasks >= 1 /\ job.tasks <= MaxTasks
           /\ job.steps \subseteq StepOption
           /\ job.split \in BOOLEAN /\ job.append \in BOOLEAN
           /\ \A k : k \in Rank <=> k \in Nat /\ k < MaxTasks
<1>1. job \in JobOption /\ MaxTasks \in Nat
  BY OutputAssumption DEF TypeOK
<1>2. QED
  BY <1>1 DEF JobOption, Rank

LEMMA Disjoint == \A p \in Steps : p \notin Runs
BY OutputAssumption

LEMMA InitHolds == Init => IInv
<1> SUFFICES ASSUME Init PROVE IInv
  OBVIOUS
<1>1. TypeOK
  <2>1. \A A : <<>> \in Seq(A)
    OBVIOUS
  <2>2. MaxTasks \in Nat /\ MaxFaults \in Nat
    BY OutputAssumption
  <2>3. step \in [Steps -> [run : {0} \cup Runs, out : {"none", "step.out"},
                           err : {"none", "step.out", "step.err"},
                           label : BOOLEAN, unbuffered : BOOLEAN]]
    BY DEF Init, NoStep
  <2>4. launcher \in [Program -> Launcher] /\ task \in [Program \X Rank -> Task]
    BY <2>2 DEF Init, Launcher, Task
  <2>5. /\ thread \in [Steps \X Stream -> [state : ThreadState, buf : Seq(Lines)]]
        /\ sed \in [Program \X Stream -> [Rank -> Seq(Lines)]]
        /\ pipe \in [Steps \X Stream -> Seq(Lines)]
        /\ sent \in [Program \X Stream -> Seq(Rank)]
        /\ file \in [File -> Seq(Lines \cup {Hole})]
    BY <2>1 DEF Init, NoThread, ThreadState
  <2>6. /\ desc \in [Program \X Stream -> [file : File \cup {"none"}, pos : Nat]]
        /\ client \in [Steps -> ClientState] /\ faults \in 0 .. MaxFaults
        /\ job \in JobOptions /\ shared \subseteq Program
    BY <2>2 DEF Init, NoDescription, ClientState
  <2>7. QED
    BY <2>3, <2>4, <2>5, <2>6 DEF TypeOK
<1>2. \A p \in Program : ~Launched(p)
  BY DEF Init, Launched
<1>3. LinesInv
  BY DEF Init, LinesInv, NoThread, Program
<1>4. IdleInv /\ LaunchedInv /\ OffsetInv /\ FlowInv /\ AloneInv
  BY <1>2 DEF Init, IdleInv, LaunchedInv, OffsetInv, FlowInv, AloneInv, Safe, Current, Program
<1>5. ThreadInv /\ ClientInv
  BY DEF Init, ThreadInv, ClientInv, NoThread, NoStep, Streamed, Labelled, Program
<1>6. StatusInv
  BY <1>2 DEF Init, StatusInv, Launched
<1>7. QED
  BY <1>1, <1>3, <1>4, <1>5, <1>6 DEF IInv

----------------------------------------------------------------------------
(* What a step does to a launcher and its tasks *)

Quiet(p) ==
    /\ launcher'[p] = launcher[p]
    /\ \A k \in Rank :
          \/ task'[<<p, k>>] = task[<<p, k>>]
          \/ /\ task[<<p, k>>].state = "running"
             /\ task'[<<p, k>>].state \in {"background", "gone"}
          \/ /\ task[<<p, k>>].state = "background" /\ task'[<<p, k>>].state = "gone"
             /\ task'[<<p, k>>].code = task[<<p, k>>].code
Starts(p) ==
    /\ launcher[p].state = "idle" /\ launcher'[p].state = "running"
    /\ launcher'[p].waited = launcher[p].waited /\ launcher'[p].status = launcher[p].status
    /\ launcher'[p].alone = (\A q \in Program, k \in Rank : ~Alive(q, k))
    /\ \A k \in Rank :
          task'[<<p, k>>] = IF k < job.tasks THEN [state |-> "running", code |-> "ok"]
                            ELSE task[<<p, k>>]
Waits(p) ==
    /\ launcher[p].state = "running" /\ launcher[p].waited \in Rank
    /\ task[<<p, launcher[p].waited>>].state \in {"background", "gone"}
    /\ launcher'[p].state = IF launcher[p].waited + 1 = job.tasks THEN "exited" ELSE "running"
    /\ launcher'[p].waited = launcher[p].waited + 1 /\ launcher'[p].alone = launcher[p].alone
    /\ launcher'[p].status = StatusAfter(p, task[<<p, launcher[p].waited>>].code)
    /\ \A k \in Rank : task'[<<p, k>>] = task[<<p, k>>]
Dies(p) ==
    /\ launcher[p].state = "running" /\ launcher'[p].state = "killed"
    /\ launcher'[p].alone = launcher[p].alone
    /\ \A k \in Rank :
          task'[<<p, k>>] = IF task[<<p, k>>].state = "running" THEN [state |-> "gone", code |-> "fail"]
                            ELSE task[<<p, k>>]
Typed ==
    launcher' \in [Program -> Launcher] /\ task' \in [Program \X Rank -> Task]

LEMMA Begins ==
    ASSUME IInv, NEW p \in Program, launcher[p].state = "idle", Begin(p)
    PROVE  Typed /\ Starts(p) /\ \A q \in Program \ {p} : Quiet(q)
<1> DEFINE new == [launcher[p] EXCEPT !.state = "running",
                                      !.alone = \A q \in Program, k \in Rank : ~Alive(q, k)]
<1>1. launcher \in [Program -> Launcher] /\ task \in [Program \X Rank -> Task]
  BY DEF IInv, TypeOK
<1>2. /\ new \in Launcher /\ new.state = "running" /\ new.waited = launcher[p].waited
      /\ new.status = launcher[p].status
      /\ new.alone = (\A q \in Program, k \in Rank : ~Alive(q, k))
  BY <1>1 DEF Launcher
<1>3. launcher' = [launcher EXCEPT ![p] = new]
  BY <1>1 DEF Begin
<1> HIDE DEF new
<1>4. task' = [t \in Program \X Rank |->
                  IF t[1] = p /\ t[2] < job.tasks
                  THEN [state |-> "running", code |-> "ok"] ELSE task[t]]
  BY DEF Begin
<1>5. task' \in [Program \X Rank -> Task]
  BY <1>1, <1>4 DEF Task
<1>6. Starts(p)
  BY <1>1, <1>2, <1>3, <1>4 DEF Starts
<1>7. \A q \in Program \ {p} : Quiet(q)
  BY <1>1, <1>3, <1>4 DEF Quiet
<1>8. QED
  BY <1>1, <1>2, <1>3, <1>5, <1>6, <1>7 DEF Typed

LEMMA LauncherStep ==
    ASSUME IInv, Next
    PROVE  Typed /\ job' = job /\ \A p \in Program : Quiet(p) \/ Starts(p) \/ Waits(p) \/ Dies(p)
<1> DEFINE Changed(p) == Quiet(p) \/ Starts(p) \/ Waits(p) \/ Dies(p)
           Claim == Typed /\ job' = job /\ \A p \in Program : Changed(p)
<1>1. launcher \in [Program -> Launcher] /\ task \in [Program \X Rank -> Task]
  BY DEF IInv, TypeOK
<1>2. CASE UNCHANGED <<job, launcher, task>>
  BY <1>1, <1>2 DEF Typed, Quiet
<1>3. ASSUME NEW p \in Program, launcher[p].state = "idle", Begin(p), job' = job
      PROVE  Claim
  BY <1>3, Begins
<1>4. ASSUME NEW r \in Runs, LaunchRun(r)
      PROVE  Claim
  BY <1>3, <1>4 DEF LaunchRun, Program
<1>5. ASSUME NEW p \in Steps, NEW r \in Runs, NEW o \in job.steps, LaunchStep(p, r, o)
      PROVE  Claim
  <2>1. p \in Program /\ client[p] = "idle"
    BY <1>5 DEF LaunchStep, Program
  <2>2. launcher[p].state = "idle"
    BY <1>5, <2>1 DEF IInv, LaunchedInv, Launched
  <2>3. QED
    BY <1>3, <1>5, <2>1, <2>2 DEF LaunchStep
<1>6. ASSUME NEW p \in Program, NEW k \in Rank, TaskExits(p, k) \/ BackgroundExits(p, k)
      PROVE  Claim
  <2>1. launcher' = launcher /\ job' = job
    BY <1>6 DEF TaskExits, BackgroundExits, setup
  <2>2. PICK new \in Task :
           /\ task' = [task EXCEPT ![<<p, k>>] = new]
           /\ \/ task[<<p, k>>].state = "running" /\ new.state \in {"background", "gone"}
              \/ /\ task[<<p, k>>].state = "background" /\ new.state = "gone"
                 /\ new.code = task[<<p, k>>].code
    <3>1. CASE TaskExits(p, k)
      <4>1. PICK code \in {"ok", "fail"}, state \in {"background", "gone"} :
               task' = [task EXCEPT ![<<p, k>>] = [state |-> state, code |-> code]]
        BY <3>1 DEF TaskExits
      <4>2. [state |-> state, code |-> code] \in Task
        BY DEF Task
      <4>3. QED
        BY <3>1, <4>1, <4>2 DEF TaskExits
    <3>2. CASE BackgroundExits(p, k)
      <4> DEFINE new == [task[<<p, k>>] EXCEPT !.state = "gone"]
      <4>1. new \in Task /\ new.state = "gone" /\ new.code = task[<<p, k>>].code
        BY <1>1 DEF Task
      <4>2. task' = [task EXCEPT ![<<p, k>>] = new] /\ task[<<p, k>>].state = "background"
        BY <3>2 DEF BackgroundExits
      <4>3. QED
        BY <4>1, <4>2
    <3>3. QED
      BY <1>6, <3>1, <3>2
  <2>3. task' \in [Program \X Rank -> Task]
    BY <1>1, <2>2
  <2>4. \A q \in Program : Quiet(q)
    BY <1>1, <2>1, <2>2 DEF Quiet
  <2>5. QED
    BY <1>1, <2>1, <2>3, <2>4 DEF Typed
<1>7. ASSUME NEW p \in Program, Wait(p)
      PROVE  Claim
  <2> DEFINE k == launcher[p].waited
             new == [launcher[p] EXCEPT !.state = IF k + 1 = job.tasks THEN "exited" ELSE "running",
                                        !.waited = k + 1,
                                        !.status = StatusAfter(p, task[<<p, k>>].code)]
  <2>1. /\ launcher[p].state = "running" /\ k \in Rank
        /\ task[<<p, k>>].state \in {"background", "gone"}
        /\ launcher' = [launcher EXCEPT ![p] = new] /\ task' = task /\ job' = job
    BY <1>7 DEF Wait, setup
  <2>2. task[<<p, k>>].code \in {"ok", "fail"} /\ launcher[p].status \in {"ok", "fail"}
    BY <1>1, <2>1 DEF Task, Launcher
  <2>3. k + 1 \in 0 .. MaxTasks /\ StatusAfter(p, task[<<p, k>>].code) \in {"ok", "fail"}
    BY <2>1, <2>2, OutputAssumption DEF Rank, StatusAfter
  <2>4. /\ new \in Launcher /\ new.waited = k + 1 /\ new.alone = launcher[p].alone
        /\ new.state = (IF k + 1 = job.tasks THEN "exited" ELSE "running")
        /\ new.status = StatusAfter(p, task[<<p, k>>].code)
    BY <1>1, <2>3 DEF Launcher
  <2> HIDE DEF new
  <2>5. Waits(p)
    BY <1>1, <2>1, <2>4 DEF Waits
  <2>6. \A q \in Program \ {p} : Quiet(q)
    BY <1>1, <2>1 DEF Quiet
  <2>7. QED
    BY <1>1, <2>1, <2>4, <2>5, <2>6 DEF Typed
<1>8. ASSUME NEW p \in Program, Kill(p)
      PROVE  Claim
  <2> DEFINE new == [launcher[p] EXCEPT !.state = "killed", !.status = "fail"]
  <2>1. /\ launcher[p].state = "running" /\ job' = job
        /\ launcher' = [launcher EXCEPT ![p] = new]
        /\ task' = [t \in Program \X Rank |->
                      IF t[1] = p /\ task[t].state = "running"
                      THEN [state |-> "gone", code |-> "fail"] ELSE task[t]]
    BY <1>1, <1>8 DEF Kill, setup
  <2>2. new \in Launcher /\ new.state = "killed" /\ new.alone = launcher[p].alone
    BY <1>1 DEF Launcher
  <2> HIDE DEF new
  <2>3. task' \in [Program \X Rank -> Task]
    BY <1>1, <2>1 DEF Task
  <2>4. Dies(p)
    BY <1>1, <2>1, <2>2 DEF Dies
  <2>5. \A q \in Program \ {p} : Quiet(q)
    BY <1>1, <2>1 DEF Quiet
  <2>6. QED
    BY <1>1, <2>1, <2>2, <2>3, <2>4, <2>5 DEF Typed
<1>9. QED
  BY <1>2, <1>4, <1>5, <1>6, <1>7, <1>8
  DEF Next, Tasks, Failure, Machinery, PrintLine, ClientDies, ForwardFails, SedPrints, ReadPipe,
      Forward, EndOfFile, ChildEnds, Join, JoinFails, Report, setup

(* The status is that of the tasks the launcher has waited for. *)
LEMMA StatusNext ==
    ASSUME IInv, Next
    PROVE  StatusInv'
<1> SUFFICES ASSUME NEW p \in Program
             PROVE  /\ \A k \in Rank : k >= job.tasks =>
                          task'[<<p, k>>].state = "none" /\ task'[<<p, k>>].code = "ok"
                    /\ launcher'[p].state = "running" => launcher'[p].waited < job.tasks
                    /\ launcher'[p].state = "exited" => launcher'[p].waited = job.tasks
                    /\ launcher'[p].state \in {"running", "exited"} =>
                          /\ \A k \in Rank : k < launcher'[p].waited =>
                                task'[<<p, k>>].state \in {"background", "gone"}
                          /\ launcher'[p].status = "ok" <=>
                                \A k \in Rank : k < launcher'[p].waited => task'[<<p, k>>].code = "ok"
  BY LauncherStep DEF StatusInv
<1>1. /\ job.tasks \in Nat /\ job.tasks >= 1 /\ job.tasks <= MaxTasks
      /\ \A k : k \in Rank <=> k \in Nat /\ k < MaxTasks
  BY Ranks DEF IInv
<1>2. /\ \A k \in Rank : k >= job.tasks =>
            task[<<p, k>>].state = "none" /\ task[<<p, k>>].code = "ok"
      /\ launcher[p].state = "running" => launcher[p].waited < job.tasks
      /\ launcher[p].state = "exited" => launcher[p].waited = job.tasks
      /\ launcher[p].state \in {"running", "exited"} =>
            /\ \A k \in Rank : k < launcher[p].waited =>
                  task[<<p, k>>].state \in {"background", "gone"}
            /\ launcher[p].status = "ok" <=>
                  \A k \in Rank : k < launcher[p].waited => task[<<p, k>>].code = "ok"
  BY DEF IInv, StatusInv
<1>3. ~Launched(p) => /\ launcher[p].waited = 0 /\ launcher[p].status = "ok"
                      /\ \A k \in Rank : task[<<p, k>>] = [state |-> "none", code |-> "ok"]
  BY DEF IInv, IdleInv
<1>4. CASE Quiet(p)
  BY <1>2, <1>4 DEF Quiet
<1>5. CASE Starts(p)
  BY <1>1, <1>2, <1>3, <1>5 DEF Starts, Launched
<1>6. CASE Waits(p)
  <2>1. PICK k : k = launcher[p].waited
    OBVIOUS
  <2>2. /\ k \in Rank /\ task[<<p, k>>].state \in {"background", "gone"}
        /\ launcher'[p].waited = k + 1 /\ k < job.tasks
        /\ \A l \in Rank : task'[<<p, l>>] = task[<<p, l>>]
        /\ launcher'[p].state = IF k + 1 = job.tasks THEN "exited" ELSE "running"
        /\ launcher'[p].status = (IF launcher[p].status = "ok" THEN task[<<p, k>>].code
                                  ELSE launcher[p].status)
    BY <1>2, <1>6, <2>1 DEF Waits, StatusAfter
  <2>3. \A l \in Rank : l < k + 1 <=> l < k \/ l = k
    BY <1>1, <2>2
  <2>4. launcher'[p].status = "ok" <=> launcher[p].status = "ok" /\ task[<<p, k>>].code = "ok"
    BY <2>2
  <2>5. k + 1 # job.tasks => k + 1 < job.tasks
    BY <1>1, <2>2
  <2>6. launcher[p].state = "running"
    BY <1>6 DEF Waits
  <2>7. launcher'[p].status = "ok" <=>
           \A l \in Rank : l < launcher'[p].waited => task'[<<p, l>>].code = "ok"
    BY <1>2, <2>1, <2>2, <2>3, <2>4, <2>6
  <2>8. \A l \in Rank : l < launcher'[p].waited => task'[<<p, l>>].state \in {"background", "gone"}
    BY <1>2, <2>1, <2>2, <2>3, <2>6
  <2>9. QED
    BY <1>2, <2>2, <2>5, <2>7, <2>8
<1>7. CASE Dies(p)
  BY <1>2, <1>7 DEF Dies
<1>8. QED
  BY <1>4, <1>5, <1>6, <1>7, LauncherStep

----------------------------------------------------------------------------
(* Writes *)

JobPath == {"job.out", "job.err"}

(* The description and the file that a stream of a launched program has. *)
LEMMA TargetFact ==
    ASSUME IInv, NEW p \in Program, Launched(p), NEW s \in Stream
    PROVE  /\ Target(p, s) \in Program \X Stream
           /\ Target(p, s) = IF OneFile(p) THEN <<p, "out">> ELSE <<p, s>>
           /\ desc[Target(p, s)].file = FileOf(p, s) /\ FileOf(p, s) \in File
           /\ p \in Runs => FileOf(p, s) \in JobPath
           /\ p \in Steps /\ StepPath(p, s) = "none" => FileOf(p, s) \in JobPath
           /\ p \in Steps /\ StepPath(p, s) # "none" =>
                 FileOf(p, s) = StepPath(p, s) /\ FileOf(p, s) \notin JobPath
<1>1. /\ \A t \in Stream : desc[<<p, t>>].file = FileOf(p, t)
      /\ p \in shared <=> OneFile(p)
  BY DEF IInv, LaunchedInv
<1>2. p \in Steps => /\ step[p].out \in {"none", "step.out"}
                     /\ step[p].err \in {"none", "step.out", "step.err"}
  BY DEF IInv, TypeOK
<1>3. p \in Runs \/ p \in Steps
  BY DEF Program
<1>4. /\ FileOf(p, s) \in File
      /\ p \in Runs => FileOf(p, s) \in JobPath
      /\ p \in Steps /\ StepPath(p, s) = "none" => FileOf(p, s) \in JobPath
      /\ p \in Steps /\ StepPath(p, s) # "none" =>
                 FileOf(p, s) = StepPath(p, s) /\ FileOf(p, s) \notin JobPath
  BY <1>2, <1>3, Disjoint DEF FileOf, StepFile, StepPath, JobFile, File, JobPath, Stream
<1>5. OneFile(p) => FileOf(p, "out") = FileOf(p, s)
  BY <1>3 DEF OneFile, FileOf, SamePath, StepFile, JobFile, Stream
<1>6. QED
  BY <1>1, <1>4, <1>5 DEF Target, Stream

(* WriteTo changes one file, and one offset. *)
LEMMA WriteFact ==
    ASSUME IInv, NEW p \in Program, Launched(p), NEW s \in Stream, NEW ls \in Seq(Lines),
           WriteTo(p, s, ls)
    PROVE  /\ file' \in [File -> Seq(Lines \cup {Hole})]
           /\ desc' \in [Program \X Stream -> [file : File \cup {"none"}, pos : Nat]]
           /\ \A c \in Program \X Stream : desc'[c].file = desc[c].file
           /\ \A c \in Program \X Stream : c # Target(p, s) => desc'[c] = desc[c]
           /\ \A f \in File : f # FileOf(p, s) => file'[f] = file[f]
           /\ \E pos \in Nat :
                 /\ pos = IF Appends(p) THEN Len(file[FileOf(p, s)]) ELSE desc[Target(p, s)].pos
                 /\ file'[FileOf(p, s)] = Overwrite(file[FileOf(p, s)], pos, ls)
                 /\ desc'[Target(p, s)].pos = pos + Len(ls)
<1> DEFINE T == Target(p, s)
           f == FileOf(p, s)
           pos == IF Appends(p) THEN Len(file[f]) ELSE desc[T].pos
           new == [desc[T] EXCEPT !.pos = pos + Len(ls)]
<1>1. /\ file \in [File -> Seq(Lines \cup {Hole})]
      /\ desc \in [Program \X Stream -> [file : File \cup {"none"}, pos : Nat]]
  BY DEF IInv, TypeOK
<1>2. T \in Program \X Stream /\ desc[T].file = f /\ f \in File
  BY TargetFact
<1>3. /\ file' = [file EXCEPT ![desc[T].file] = Overwrite(file[desc[T].file], pos, ls)]
      /\ desc' = [desc EXCEPT ![T] = new]
  BY <1>2 DEF WriteTo
<1>4. ls \in Seq(Lines \cup {Hole})
  BY SeqMonotonic
<1>5. Len(file[f]) \in Nat /\ Len(ls) \in Nat /\ desc[T].pos \in Nat
  BY <1>1, <1>2, LenProperties
<1>6. pos \in Nat /\ pos + Len(ls) \in Nat
  BY <1>5
<1> HIDE DEF T, pos
<1>7. Overwrite(file[f], pos, ls) \in Seq(Lines \cup {Hole})
  BY <1>1, <1>2, <1>4, <1>6, WriteType
<1>8. new \in [file : File \cup {"none"}, pos : Nat] /\ new.file = desc[T].file /\ new.pos = pos + Len(ls)
  BY <1>1, <1>2, <1>6
<1> HIDE DEF new, f
<1>9. /\ file' \in [File -> Seq(Lines \cup {Hole})]
      /\ desc' \in [Program \X Stream -> [file : File \cup {"none"}, pos : Nat]]
      /\ \A c \in Program \X Stream : desc'[c].file = desc[c].file
      /\ \A c \in Program \X Stream : c # T => desc'[c] = desc[c]
      /\ \A g \in File : g # f => file'[g] = file[g]
      /\ file'[f] = Overwrite(file[f], pos, ls) /\ desc'[T].pos = pos + Len(ls)
  BY <1>1, <1>2, <1>3, <1>7, <1>8
<1>10. QED
  BY <1>6, <1>9 DEF T, f, pos

(* Only a program that was launched prints, or has lines on their way. *)
LEMMA Active ==
    ASSUME IInv
    PROVE  /\ \A p \in Program, k \in Rank : Alive(p, k) => Launched(p)
           /\ \A p \in Program, k \in Rank, s \in Stream :
                 sed[<<p, s>>][k] # <<>> => Launched(p) /\ Labelled(p) /\ p \in Steps
           /\ \A p \in Steps, s \in Stream :
                 thread[<<p, s>>].state # "none" => Launched(p) /\ Streamed(p)
           /\ \A p \in Program : Streamed(p) \/ Labelled(p) => Launched(p) /\ p \in Steps
           /\ \A p \in Steps : client[p] # "idle" <=> Launched(p)
<1>1. \A p \in Program, k \in Rank : Alive(p, k) => Launched(p)
  BY DEF IInv, IdleInv, Alive
<1>2. \A p \in Program : Streamed(p) \/ Labelled(p) => Launched(p) /\ p \in Steps
  BY DEF IInv, IdleInv, Streamed, Labelled, NoStep
<1>3. \A p \in Steps : p \in Program
  BY DEF Program
<1>4. QED
  BY <1>1, <1>2, <1>3 DEF IInv, ThreadInv, LaunchedInv, IdleInv

(* The lines a step may write, and the program they belong to *)
LEMMA Printing ==
    ASSUME IInv, NEW p \in Program, NEW k \in Rank, NEW s \in Stream
    PROVE  /\ Line(p, s, Len(sent[<<p, s>>]) + 1) \in Lines
           /\ sed[<<p, s>>][k] # <<>> =>
                 Head(sed[<<p, s>>][k]) \in Lines /\ Tail(sed[<<p, s>>][k]) \in Seq(Lines)
           /\ sed[<<p, s>>][k] \in Seq(Lines) /\ sent[<<p, s>>] \in Seq(Rank)
<1>1. sed[<<p, s>>][k] \in Seq(Lines) /\ sent[<<p, s>>] \in Seq(Rank)
  BY DEF IInv, TypeOK
<1>2. Len(sent[<<p, s>>]) + 1 \in Nat \ {0}
  BY <1>1, LenProperties
<1>3. QED
  BY <1>1, <1>2, HeadTailProperties DEF Lines, Line

(***************************************************************************)
(* The files and descriptions change in three ways: a program writes, a    *)
(* run of the job is launched, or a step.                                  *)
(***************************************************************************)
Mover(p, s) ==
    \/ \E k \in Rank : PrintLine(p, k, s) \/ SedPrints(p, k, s)
    \/ p \in Steps /\ (ReadPipe(p, s) \/ Forward(p, s))
Writes(p, s, ls) ==
    /\ Launched(p) /\ ls \in Seq(Lines) /\ WriteTo(p, s, ls)
    /\ p \in Runs => \E k \in Rank : Alive(p, k)
Writing(p, s, ls) ==
    /\ Mover(p, s) /\ Writes(p, s, ls)
    /\ \A i \in DOMAIN ls : ls[i] \in Own(p, s)'
    /\ UNCHANGED <<job, step, shared, launcher, task>>

LEMMA FileStep ==
    ASSUME IInv, Next
    PROVE  \/ UNCHANGED <<job, step, shared, file, desc>>
           \/ \E p \in Program, s \in Stream, ls \in Seq(Lines) : Writing(p, s, ls)
           \/ \E r \in Runs : LaunchRun(r)
           \/ \E p \in Steps, r \in Runs, o \in job.steps : LaunchStep(p, r, o)
<1> DEFINE Claim == \/ UNCHANGED <<job, step, shared, file, desc>>
                    \/ \E p \in Program, s \in Stream, ls \in Seq(Lines) : Writing(p, s, ls)
                    \/ \E r \in Runs : LaunchRun(r)
                    \/ \E p \in Steps, r \in Runs, o \in job.steps : LaunchStep(p, r, o)
<1>1. ASSUME NEW p \in Program, NEW k \in Rank, NEW s \in Stream, PrintLine(p, k, s)
      PROVE  Claim
  <2> DEFINE line == Line(p, s, Len(sent[<<p, s>>]) + 1)
  <2>1. CASE Labelled(p) \/ Streamed(p)
    BY <1>1, <2>1 DEF PrintLine
  <2>2. CASE ~(Labelled(p) \/ Streamed(p))
    <3>1. line \in Lines /\ <<line>> \in Seq(Lines)
      BY Printing
    <3>2. WriteTo(p, s, <<line>>) /\ UNCHANGED <<job, step, shared, launcher, task>> /\ Alive(p, k)
      BY <1>1, <2>2 DEF PrintLine
    <3>3. line \in Own(p, s)'
      <4>1. sent' = [sent EXCEPT ![<<p, s>>] = Append(@, k)] /\ <<p, s>> \in Program \X Stream
            /\ sent \in [Program \X Stream -> Seq(Rank)]
        BY <1>1 DEF PrintLine, IInv, TypeOK
      <4>2. sent'[<<p, s>>] = Append(sent[<<p, s>>], k) /\ sent[<<p, s>>] \in Seq(Rank)
        BY <4>1
      <4>3. Len(sent[<<p, s>>]) + 1 \in DOMAIN sent'[<<p, s>>]
        BY <4>2
      <4>4. QED
        BY <4>3 DEF Own
    <3>4. Launched(p)
      BY <3>2, Active
    <3>5. Writing(p, s, <<line>>)
      BY <1>1, <3>1, <3>2, <3>3, <3>4 DEF Writing, Writes, Mover
    <3>6. QED
      BY <3>1, <3>5
  <2>3. QED
    BY <2>1, <2>2
<1>2. ASSUME NEW p \in Program, NEW k \in Rank, NEW s \in Stream, SedPrints(p, k, s)
      PROVE  Claim
  <2> DEFINE line == Head(sed[<<p, s>>][k])
  <2>1. CASE Streamed(p)
    BY <1>2, <2>1 DEF SedPrints
  <2>2. CASE ~Streamed(p)
    <3>1. line \in Lines /\ <<line>> \in Seq(Lines)
      BY <1>2, Printing DEF SedPrints
    <3>2. /\ WriteTo(p, s, <<line>>) /\ UNCHANGED <<job, step, shared, launcher, task, sent>>
          /\ sed[<<p, s>>][k] # <<>>
      BY <1>2, <2>2 DEF SedPrints
    <3>3. line \in Own(p, s)'
      <4>1. sed[<<p, s>>][k] \in Seq(OwnOf(p, s, k))
        BY DEF IInv, LinesInv
      <4>2. line \in OwnOf(p, s, k)
        BY <3>2, <4>1, HeadTailProperties
      <4>3. QED
        BY <3>2, <4>2 DEF OwnOf, Own
    <3>4. Launched(p) /\ p \in Steps
      BY <3>2, Active
    <3>5. Writing(p, s, <<line>>)
      BY <1>2, <3>1, <3>2, <3>3, <3>4, Disjoint DEF Writing, Writes, Mover
    <3>6. QED
      BY <3>1, <3>5
  <2>3. QED
    BY <2>1, <2>2
<1>3. ASSUME NEW p \in Steps, NEW s \in Stream, Forward(p, s)
      PROVE  Claim
  <2> DEFINE ls == thread[<<p, s>>].buf
  <2>1. /\ WriteTo(p, s, ls) /\ UNCHANGED <<job, step, shared, launcher, task, sent>>
        /\ thread[<<p, s>>].state # "none" /\ p \in Program
    BY <1>3 DEF Forward, Reading, Program
  <2>2. ls \in Seq(Own(p, s)) /\ ls \in Seq(Lines)
    BY DEF IInv, LinesInv, TypeOK
  <2>3. \A i \in DOMAIN ls : ls[i] \in Own(p, s)'
    <3>1. \A i \in DOMAIN ls : ls[i] \in Own(p, s)
      BY <2>2, LenProperties
    <3>2. QED
      BY <2>1, <3>1 DEF Own
  <2>4. Writing(p, s, ls)
    BY <1>3, <2>1, <2>2, <2>3, Active, Disjoint DEF Writing, Writes, Mover
  <2>5. QED
    BY <2>1, <2>2, <2>4
<1>4. ASSUME NEW p \in Program,
             \/ \E k \in Rank : TaskExits(p, k) \/ BackgroundExits(p, k)
             \/ Wait(p) \/ Kill(p)
      PROVE  Claim
  BY <1>4 DEF TaskExits, BackgroundExits, Wait, Kill, setup, channels
<1>5. ASSUME NEW p \in Steps,
             \/ \E s \in Stream : ReadPipe(p, s) \/ EndOfFile(p, s) \/ ForwardFails(p, s)
             \/ ChildEnds(p) \/ Join(p) \/ JoinFails(p) \/ Report(p) \/ ClientDies(p)
      PROVE  Claim
  BY <1>5 DEF ReadPipe, EndOfFile, ForwardFails, ChildEnds, Join, JoinFails, Report, ClientDies,
              setup, channels
<1>6. QED
  BY <1>1, <1>2, <1>3, <1>4, <1>5 DEF Next, Tasks, Failure, Machinery

(* What is settled when a program is launched stays so. *)
LEMMA Stays ==
    ASSUME IInv, Next, NEW p \in Program
    PROVE  /\ launcher'[p].state = "idle" => ~Launched(p)
           /\ Launched(p) => /\ launcher'[p].state # "idle"
                             /\ launcher'[p].alone = launcher[p].alone
                             /\ p \in Steps => step'[p] = step[p]
                             /\ p \in shared' <=> p \in shared
                             /\ \A s \in Stream : desc'[<<p, s>>].file = desc[<<p, s>>].file
           /\ ~Launched(p) /\ launcher'[p].state = "idle" =>
                             /\ p \in Steps => step'[p] = step[p]
                             /\ p \in shared' <=> p \in shared
<1> DEFINE Same == /\ p \in Steps => step'[p] = step[p]
                   /\ p \in shared' <=> p \in shared
                   /\ \A s \in Stream : desc'[<<p, s>>].file = desc[<<p, s>>].file
<1>1. /\ launcher'[p].state = "idle" => ~Launched(p)
      /\ Launched(p) => launcher'[p].state # "idle" /\ launcher'[p].alone = launcher[p].alone
  <2>1. Quiet(p) \/ Starts(p) \/ Waits(p) \/ Dies(p)
    BY LauncherStep
  <2>2. QED
    BY <2>1 DEF Quiet, Starts, Waits, Dies, Launched
<1>2. /\ step \in [Steps -> [run : {0} \cup Runs, out : {"none", "step.out"},
                           err : {"none", "step.out", "step.err"},
                           label : BOOLEAN, unbuffered : BOOLEAN]]
      /\ desc \in [Program \X Stream -> [file : File \cup {"none"}, pos : Nat]]
  BY DEF IInv, TypeOK
<1>3. CASE UNCHANGED <<job, step, shared, file, desc>>
  BY <1>1, <1>3
<1>4. ASSUME NEW q \in Program, NEW s \in Stream, NEW ls \in Seq(Lines), Writing(q, s, ls)
      PROVE  Same
  <2>1. \A c \in Program \X Stream : desc'[c].file = desc[c].file
    BY <1>4, WriteFact DEF Writing, Writes
  <2>2. QED
    BY <1>4, <2>1 DEF Writing, Writes
<1>5. ASSUME NEW r \in Runs, LaunchRun(r)
      PROVE  Launched(p) \/ launcher'[p].state = "idle" => Same
  <2>1. /\ step' = step /\ launcher[r].state = "idle" /\ r \in Program
        /\ shared' = shared \/ shared' = shared \cup {r}
        /\ desc' = [c \in Program \X Stream |-> IF c[1] = r THEN Opened(JobFile(c[2])) ELSE desc[c]]
    BY <1>5 DEF LaunchRun, Program
  <2>2. launcher'[r].state = "running"
    BY <1>5, <2>1, Begins DEF LaunchRun, Starts
  <2>3. Launched(p) \/ launcher'[p].state = "idle" => p # r
    BY <2>1, <2>2 DEF Launched
  <2>4. QED
    BY <1>2, <2>1, <2>3
<1>6. ASSUME NEW q \in Steps, NEW r \in Runs, NEW o \in job.steps, LaunchStep(q, r, o)
      PROVE  Launched(p) \/ launcher'[p].state = "idle" => Same
  <2>1. /\ step' = [step EXCEPT ![q] = [run |-> r, out |-> o.out, err |-> o.err,
                                    label |-> o.label, unbuffered |-> o.unbuffered]]
        /\ shared' = shared \/ shared' = shared \cup {q}
        /\ desc' = [c \in Program \X Stream |->
                      IF c[1] = q THEN Opened(StepFile(r, o, c[2])) ELSE desc[c]]
        /\ client[q] = "idle" /\ q \in Program
    BY <1>6 DEF LaunchStep, Program
  <2>2. launcher[q].state = "idle"
    BY <2>1, Active DEF Launched
  <2>3. launcher'[q].state = "running"
    BY <1>6, <2>1, <2>2, Begins DEF LaunchStep, Starts
  <2>4. Launched(p) \/ launcher'[p].state = "idle" => p # q
    BY <2>2, <2>3 DEF Launched
  <2>5. QED
    BY <1>2, <2>1, <2>4
<1>7. Launched(p) \/ launcher'[p].state = "idle" => Same
  BY <1>3, <1>4, <1>5, <1>6, FileStep
<1>8. QED
  BY <1>1, <1>7

----------------------------------------------------------------------------
(* What a step does to the lines on their way *)

LEMMA SentStep ==
    ASSUME IInv, Next
    PROVE  /\ sent' \in [Program \X Stream -> Seq(Rank)]
           /\ \A p \in Program, s \in Stream :
                 \/ sent'[<<p, s>>] = sent[<<p, s>>]
                 \/ \E k \in Rank : /\ PrintLine(p, k, s)
                                   /\ sent'[<<p, s>>] = Append(sent[<<p, s>>], k)
<1>1. sent \in [Program \X Stream -> Seq(Rank)]
  BY DEF IInv, TypeOK
<1>2. CASE UNCHANGED sent
  BY <1>1, <1>2
<1>3. ASSUME NEW p \in Program, NEW k \in Rank, NEW s \in Stream, PrintLine(p, k, s)
      PROVE  /\ sent' \in [Program \X Stream -> Seq(Rank)]
             /\ sent'[<<p, s>>] = Append(sent[<<p, s>>], k)
             /\ \A c \in Program \X Stream : c # <<p, s>> => sent'[c] = sent[c]
  <2>1. sent' = [sent EXCEPT ![<<p, s>>] = Append(sent[<<p, s>>], k)]
    BY <1>3 DEF PrintLine
  <2>2. Append(sent[<<p, s>>], k) \in Seq(Rank)
    BY <1>1
  <2>3. QED
    BY <1>1, <2>1, <2>2
<1>4. UNCHANGED sent \/ \E p \in Program, k \in Rank, s \in Stream : PrintLine(p, k, s)
  BY DEF Next, Tasks, Failure, Machinery, LaunchRun, LaunchStep, TaskExits, BackgroundExits, Wait,
         Kill, ClientDies, ForwardFails, SedPrints, ReadPipe, Forward, EndOfFile, ChildEnds, Join,
         JoinFails, Report, setup, channels
<1>5. QED
  BY <1>2, <1>3, <1>4

(* Nothing that was printed is forgotten. *)
LEMMA OwnGrows ==
    ASSUME IInv, Next, NEW p \in Program, NEW s \in Stream
    PROVE  /\ \A i \in DOMAIN sent[<<p, s>>] :
                 i \in DOMAIN sent'[<<p, s>>] /\ sent'[<<p, s>>][i] = sent[<<p, s>>][i]
           /\ \A k : OwnOf(p, s, k) \subseteq OwnOf(p, s, k)'
           /\ Own(p, s) \subseteq Own(p, s)'
<1>1. sent[<<p, s>>] \in Seq(Rank)
  BY DEF IInv, TypeOK
<1>2. \A i \in DOMAIN sent[<<p, s>>] :
         i \in DOMAIN sent'[<<p, s>>] /\ sent'[<<p, s>>][i] = sent[<<p, s>>][i]
  <2>1. CASE sent'[<<p, s>>] = sent[<<p, s>>]
    BY <2>1
  <2>2. ASSUME NEW k \in Rank, sent'[<<p, s>>] = Append(sent[<<p, s>>], k)
        PROVE  \A i \in DOMAIN sent[<<p, s>>] :
                 i \in DOMAIN sent'[<<p, s>>] /\ sent'[<<p, s>>][i] = sent[<<p, s>>][i]
    BY <1>1, <2>2, AppendProperties, LenProperties
  <2>3. QED
    BY <2>1, <2>2, SentStep
<1>3. QED
  BY <1>2 DEF OwnOf, Own

LEMMA OwnLines ==
    ASSUME IInv, NEW p \in Program, NEW s \in Stream
    PROVE  Own(p, s) \subseteq Lines /\ \A k : OwnOf(p, s, k) \subseteq Own(p, s)
<1>1. sent[<<p, s>>] \in Seq(Rank)
  BY DEF IInv, TypeOK
<1>2. \A i \in DOMAIN sent[<<p, s>>] : i \in Nat \ {0}
  BY <1>1, LenProperties
<1>3. QED
  BY <1>2 DEF Own, OwnOf, Line, Lines

(* One queue of a sed changes. *)
SedOnly(p, s, k) ==
    /\ sed' \in [Program \X Stream -> [Rank -> Seq(Lines)]]
    /\ \A q \in Program, t \in Stream, l \in Rank :
          sed'[<<q, t>>][l] = sed[<<q, t>>][l] \/ (q = p /\ t = s /\ l = k)

SedGets(p, s, k, new) == sed' = [sed EXCEPT ![<<p, s>>] = [sed[<<p, s>>] EXCEPT ![k] = new]]

LEMMA SedPut ==
    ASSUME IInv, NEW p \in Program, NEW s \in Stream, NEW k \in Rank, NEW new \in Seq(Lines),
           SedGets(p, s, k, new)
    PROVE  SedOnly(p, s, k) /\ sed'[<<p, s>>][k] = new
<1> DEFINE row == [sed[<<p, s>>] EXCEPT ![k] = new]
<1>1. sed \in [Program \X Stream -> [Rank -> Seq(Lines)]]
  BY DEF IInv, TypeOK
<1>2. sed[<<p, s>>] \in [Rank -> Seq(Lines)] /\ <<p, s>> \in Program \X Stream
  BY <1>1
<1>3. row \in [Rank -> Seq(Lines)] /\ row[k] = new /\ \A l \in Rank \ {k} : row[l] = sed[<<p, s>>][l]
  BY <1>2
<1> HIDE DEF row
<1>4. sed' = [sed EXCEPT ![<<p, s>>] = row]
  BY DEF row, SedGets
<1>5. sed'[<<p, s>>] = row /\ \A c \in Program \X Stream : c # <<p, s>> => sed'[c] = sed[c]
  BY <1>1, <1>2, <1>4
<1>6. sed' \in [Program \X Stream -> [Rank -> Seq(Lines)]]
  BY <1>1, <1>3, <1>4
<1>7. QED
  BY <1>3, <1>5, <1>6 DEF SedOnly

SedTakes(p, s, k) ==
    /\ PrintLine(p, k, s) /\ Labelled(p)
    /\ sed'[<<p, s>>][k] = Append(sed[<<p, s>>][k], Line(p, s, Len(sent[<<p, s>>]) + 1))
SedGives(p, s, k) ==
    /\ SedPrints(p, k, s) /\ sed[<<p, s>>][k] # <<>>
    /\ sed'[<<p, s>>][k] = Tail(sed[<<p, s>>][k])

LEMMA SedStep ==
    ASSUME IInv, Next
    PROVE  /\ sed' \in [Program \X Stream -> [Rank -> Seq(Lines)]]
           /\ \A p \in Program, s \in Stream, k \in Rank :
                 \/ sed'[<<p, s>>][k] = sed[<<p, s>>][k]
                 \/ SedTakes(p, s, k) \/ SedGives(p, s, k)
<1> DEFINE Claim == /\ sed' \in [Program \X Stream -> [Rank -> Seq(Lines)]]
                    /\ \A p \in Program, s \in Stream, k \in Rank :
                          \/ sed'[<<p, s>>][k] = sed[<<p, s>>][k]
                          \/ SedTakes(p, s, k) \/ SedGives(p, s, k)
<1>1. CASE UNCHANGED sed
  BY <1>1 DEF IInv, TypeOK
<1>2. ASSUME NEW p \in Program, NEW k \in Rank, NEW s \in Stream, PrintLine(p, k, s), Labelled(p)
      PROVE  Claim
  <2>1. PICK new \in Seq(Lines) :
           new = Append(sed[<<p, s>>][k], Line(p, s, Len(sent[<<p, s>>]) + 1))
    BY Printing, AppendProperties
  <2>2. SedGets(p, s, k, new)
    BY <1>2, <2>1 DEF PrintLine, SedGets
  <2>3. SedOnly(p, s, k) /\ sed'[<<p, s>>][k] = new
    BY <2>2, SedPut
  <2>4. SedTakes(p, s, k)
    BY <1>2, <2>1, <2>3 DEF SedTakes
  <2>5. QED
    BY <2>3, <2>4 DEF SedOnly
<1>3. ASSUME NEW p \in Program, NEW k \in Rank, NEW s \in Stream, SedPrints(p, k, s)
      PROVE  Claim
  <2>1. PICK new \in Seq(Lines) : sed[<<p, s>>][k] # <<>> /\ new = Tail(sed[<<p, s>>][k])
    BY <1>3, Printing DEF SedPrints
  <2>2. SedGets(p, s, k, new)
    BY <1>3, <2>1 DEF SedPrints, SedGets
  <2>3. SedOnly(p, s, k) /\ sed'[<<p, s>>][k] = new
    BY <2>2, SedPut
  <2>4. SedGives(p, s, k)
    BY <1>3, <2>1, <2>3 DEF SedGives
  <2>5. QED
    BY <2>3, <2>4 DEF SedOnly
<1>4. \/ UNCHANGED sed
      \/ \E p \in Program, k \in Rank, s \in Stream :
            (PrintLine(p, k, s) /\ Labelled(p)) \/ SedPrints(p, k, s)
  <2>1. ASSUME NEW p \in Program, NEW k \in Rank, NEW s \in Stream, PrintLine(p, k, s), ~Labelled(p)
        PROVE  UNCHANGED sed
    BY <2>1 DEF PrintLine
  <2>2. ASSUME NEW p \in Program,
               \/ \E k \in Rank : TaskExits(p, k) \/ BackgroundExits(p, k)
               \/ Wait(p) \/ Kill(p) \/ LaunchRun(p)
               \/ \E r \in Runs, o \in job.steps : LaunchStep(p, r, o)
        PROVE  UNCHANGED sed
    BY <2>2 DEF TaskExits, BackgroundExits, Wait, Kill, LaunchRun, LaunchStep, channels
  <2>3. ASSUME NEW p \in Steps,
               \/ \E s \in Stream : ReadPipe(p, s) \/ EndOfFile(p, s) \/ ForwardFails(p, s)
                                  \/ Forward(p, s)
               \/ ChildEnds(p) \/ Join(p) \/ JoinFails(p) \/ Report(p) \/ ClientDies(p)
        PROVE  UNCHANGED sed
    BY <2>3 DEF ReadPipe, EndOfFile, ForwardFails, Forward, ChildEnds, Join, JoinFails, Report,
                ClientDies, channels
  <2>4. QED
    BY <2>1, <2>2, <2>3 DEF Next, Tasks, Failure, Machinery, Program
<1>5. QED
  BY <1>1, <1>2, <1>3, <1>4

(* And what it does to a stream with a forwarder *)
StreamStill(p, s) == pipe'[<<p, s>>] = pipe[<<p, s>>] /\ thread'[<<p, s>>] = thread[<<p, s>>]
StreamTakes(p, s, x) ==
    /\ Streamed(p) /\ thread[<<p, s>>].state # "failed"
    /\ pipe'[<<p, s>>] = Append(pipe[<<p, s>>], x) /\ thread'[<<p, s>>] = thread[<<p, s>>]
StreamReads(p, s) ==
    /\ ReadPipe(p, s) /\ thread[<<p, s>>].state = "reading" /\ thread[<<p, s>>].buf = <<>>
    /\ thread'[<<p, s>>].state = "reading" /\ thread'[<<p, s>>].buf = pipe[<<p, s>>]
    /\ pipe'[<<p, s>>] = <<>>
StreamForwards(p, s) ==
    /\ Forward(p, s) /\ thread[<<p, s>>].state = "reading"
    /\ thread'[<<p, s>>].state = "reading" /\ thread'[<<p, s>>].buf = <<>>
    /\ pipe'[<<p, s>>] = pipe[<<p, s>>]
StreamEnds(p, s) ==
    /\ EndOfFile(p, s) /\ thread[<<p, s>>].state = "reading" /\ thread'[<<p, s>>].state = "ended"
    /\ thread[<<p, s>>].buf = <<>> /\ thread'[<<p, s>>].buf = <<>>
    /\ pipe[<<p, s>>] = <<>> /\ pipe'[<<p, s>>] = <<>>
StreamBreaks(p, s) ==
    /\ pipe'[<<p, s>>] = <<>>
    /\ IF thread[<<p, s>>].state = "reading"
       THEN thread'[<<p, s>>].state = "failed" /\ thread'[<<p, s>>].buf = <<>>
       ELSE thread'[<<p, s>>] = thread[<<p, s>>]
StreamOpens(p, s) ==
    \E r \in Runs, o \in job.steps :
        /\ LaunchStep(p, r, o) /\ pipe'[<<p, s>>] = pipe[<<p, s>>]
        /\ IF o.unbuffered
           THEN thread'[<<p, s>>].state = "reading" /\ thread'[<<p, s>>].buf = <<>>
           ELSE thread'[<<p, s>>] = thread[<<p, s>>]
StreamMoves(p, s) ==
    \/ StreamStill(p, s)
    \/ \E k \in Rank :
          \/ PrintLine(p, k, s) /\ StreamTakes(p, s, Line(p, s, Len(sent[<<p, s>>]) + 1))
          \/ SedPrints(p, k, s) /\ StreamTakes(p, s, Head(sed[<<p, s>>][k]))
    \/ StreamReads(p, s) \/ StreamForwards(p, s) \/ StreamEnds(p, s)
    \/ StreamBreaks(p, s) \/ StreamOpens(p, s)
StreamTyped ==
    /\ pipe' \in [Steps \X Stream -> Seq(Lines)]
    /\ thread' \in [Steps \X Stream -> [state : ThreadState, buf : Seq(Lines)]]

(* One stream changes. *)
StreamGets(p, s, t, b) ==
    thread' = [thread EXCEPT ![<<p, s>>] = t] /\ pipe' = [pipe EXCEPT ![<<p, s>>] = b]

LEMMA StreamPut ==
    ASSUME IInv, NEW p \in Steps, NEW s \in Stream,
           NEW t \in [state : ThreadState, buf : Seq(Lines)], NEW b \in Seq(Lines),
           StreamGets(p, s, t, b)
    PROVE  /\ StreamTyped /\ thread'[<<p, s>>] = t /\ pipe'[<<p, s>>] = b
           /\ \A q \in Steps, v \in Stream : StreamStill(q, v) \/ (q = p /\ v = s)
<1>1. /\ pipe \in [Steps \X Stream -> Seq(Lines)]
      /\ thread \in [Steps \X Stream -> [state : ThreadState, buf : Seq(Lines)]]
      /\ <<p, s>> \in Steps \X Stream
  BY DEF IInv, TypeOK
<1>2. QED
  BY <1>1 DEF StreamTyped, StreamStill, StreamGets

LEMMA Exits ==
    ASSUME IInv, NEW ps, ClientsExit(ps)
    PROVE  /\ StreamTyped
           /\ \A p \in Steps, s \in Stream : StreamStill(p, s) \/ StreamBreaks(p, s)
           /\ client' \in [Steps -> ClientState]
           /\ \A p \in Steps : client'[p] = IF p \in ps THEN "failed" ELSE client[p]
<1> DEFINE T == [state : ThreadState, buf : Seq(Lines)]
<1>1. /\ pipe \in [Steps \X Stream -> Seq(Lines)] /\ thread \in [Steps \X Stream -> T]
      /\ client \in [Steps -> ClientState]
  BY DEF IInv, TypeOK
<1>2. <<>> \in Seq(Lines)
  BY EmptySeq
<1>3. [state |-> "failed", buf |-> <<>>] \in T
  BY <1>2 DEF ThreadState
<1> HIDE DEF T
<1>4. /\ pipe' = [c \in Steps \X Stream |-> IF c[1] \in ps THEN <<>> ELSE pipe[c]]
      /\ thread' = [c \in Steps \X Stream |->
                      IF c[1] \in ps /\ thread[c].state = "reading"
                      THEN [state |-> "failed", buf |-> <<>>] ELSE thread[c]]
      /\ client' = [p \in Steps |-> IF p \in ps THEN "failed" ELSE client[p]]
  BY DEF ClientsExit
<1>5. pipe' \in [Steps \X Stream -> Seq(Lines)] /\ thread' \in [Steps \X Stream -> T]
  BY <1>1, <1>2, <1>3, <1>4
<1>6. client' \in [Steps -> ClientState]
  BY <1>1, <1>4 DEF ClientState
<1>7. \A p \in Steps, s \in Stream : StreamStill(p, s) \/ StreamBreaks(p, s)
  BY <1>4 DEF StreamStill, StreamBreaks
<1>8. QED
  BY <1>4, <1>5, <1>6, <1>7 DEF StreamTyped, T

LEMMA StreamStep ==
    ASSUME IInv, Next
    PROVE  StreamTyped /\ \A p \in Steps, s \in Stream : StreamMoves(p, s)
<1> DEFINE Claim == StreamTyped /\ \A p \in Steps, s \in Stream : StreamMoves(p, s)
           T == [state : ThreadState, buf : Seq(Lines)]
<1>1. /\ pipe \in [Steps \X Stream -> Seq(Lines)] /\ thread \in [Steps \X Stream -> T]
  BY DEF IInv, TypeOK
<1>2. CASE UNCHANGED <<pipe, thread>>
  BY <1>1, <1>2 DEF StreamTyped, StreamStill, StreamMoves
<1>3. ASSUME NEW p \in Program, NEW k \in Rank, NEW s \in Stream, PrintLine(p, k, s)
      PROVE  Claim
  <2>1. CASE Labelled(p) \/ ~Streamed(p)
    BY <1>2, <1>3, <2>1 DEF PrintLine
  <2>2. CASE ~Labelled(p) /\ Streamed(p)
    <3>1. PICK x \in Lines : x = Line(p, s, Len(sent[<<p, s>>]) + 1)
      BY Printing
    <3>2. p \in Steps
      BY <2>2 DEF Streamed
    <3>3. pipe[<<p, s>>] \in Seq(Lines) /\ thread[<<p, s>>] \in T
      BY <1>1, <3>2
    <3>4. PICK t \in T, b \in Seq(Lines) :
             t = thread[<<p, s>>] /\ b = Append(pipe[<<p, s>>], x)
      BY <3>1, <3>3, AppendProperties
    <3>5. StreamGets(p, s, t, b) /\ t.state # "failed"
      BY <1>1, <1>3, <2>2, <3>1, <3>4 DEF PrintLine, StreamGets
    <3>6. /\ StreamTyped /\ thread'[<<p, s>>] = t /\ pipe'[<<p, s>>] = b
          /\ \A q \in Steps, v \in Stream : StreamStill(q, v) \/ (q = p /\ v = s)
      BY <3>2, <3>5, StreamPut
    <3>7. StreamTakes(p, s, x)
      BY <2>2, <3>4, <3>5, <3>6 DEF StreamTakes
    <3>8. QED
      BY <1>3, <3>1, <3>6, <3>7 DEF StreamMoves
  <2>3. QED
    BY <2>1, <2>2
<1>4. ASSUME NEW p \in Program, NEW k \in Rank, NEW s \in Stream, SedPrints(p, k, s)
      PROVE  Claim
  <2>1. CASE ~Streamed(p) \/ thread[<<p, s>>].state = "failed"
    BY <1>2, <1>4, <2>1 DEF SedPrints
  <2>2. CASE Streamed(p) /\ thread[<<p, s>>].state # "failed"
    <3>1. PICK x \in Lines : x = Head(sed[<<p, s>>][k])
      BY <1>4, Printing DEF SedPrints
    <3>2. p \in Steps
      BY <2>2 DEF Streamed
    <3>3. pipe[<<p, s>>] \in Seq(Lines) /\ thread[<<p, s>>] \in T
      BY <1>1, <3>2
    <3>4. PICK t \in T, b \in Seq(Lines) :
             t = thread[<<p, s>>] /\ b = Append(pipe[<<p, s>>], x)
      BY <3>1, <3>3, AppendProperties
    <3>5. StreamGets(p, s, t, b)
      BY <1>1, <1>4, <2>2, <3>1, <3>4 DEF SedPrints, StreamGets
    <3>6. /\ StreamTyped /\ thread'[<<p, s>>] = t /\ pipe'[<<p, s>>] = b
          /\ \A q \in Steps, v \in Stream : StreamStill(q, v) \/ (q = p /\ v = s)
      BY <3>2, <3>5, StreamPut
    <3>7. StreamTakes(p, s, x)
      BY <2>2, <3>4, <3>6 DEF StreamTakes
    <3>8. QED
      BY <1>4, <3>1, <3>6, <3>7 DEF StreamMoves
  <2>3. QED
    BY <2>1, <2>2
<1>5. ASSUME NEW p \in Steps, NEW s \in Stream,
             \/ ReadPipe(p, s) \/ Forward(p, s) \/ EndOfFile(p, s) \/ ForwardFails(p, s)
      PROVE  Claim
  <2> DEFINE t == thread[<<p, s>>]
             b == pipe[<<p, s>>]
  <2>1. t \in T /\ b \in Seq(Lines) /\ <<>> \in Seq(Lines)
    BY <1>1, EmptySeq
  <2>2. PICK u \in T, c \in Seq(Lines) :
           /\ StreamGets(p, s, u, c)
           /\ \/ /\ ReadPipe(p, s) /\ t.state = "reading" /\ t.buf = <<>>
                 /\ u.state = "reading" /\ u.buf = b /\ c = <<>>
              \/ /\ Forward(p, s) /\ t.state = "reading"
                 /\ u.state = "reading" /\ u.buf = <<>> /\ c = b
              \/ /\ EndOfFile(p, s) /\ t.state = "reading" /\ u.state = "ended"
                 /\ t.buf = <<>> /\ u.buf = <<>> /\ b = <<>> /\ c = <<>>
              \/ /\ ForwardFails(p, s) /\ t.state = "reading"
                 /\ u.state = "failed" /\ u.buf = <<>> /\ c = <<>>
    <3>1. CASE ReadPipe(p, s)
      <4> DEFINE u == [t EXCEPT !.buf = b]
      <4>1. u \in T /\ u.buf = b /\ u.state = t.state
        BY <2>1
      <4>2. StreamGets(p, s, u, <<>>) /\ t.state = "reading" /\ t.buf = <<>>
        BY <1>1, <3>1 DEF ReadPipe, Reading, StreamGets
      <4>3. QED
        BY <2>1, <3>1, <4>1, <4>2
    <3>2. CASE Forward(p, s)
      <4> DEFINE u == [t EXCEPT !.buf = <<>>]
      <4>1. u \in T /\ u.buf = <<>> /\ u.state = t.state
        BY <2>1
      <4>2. StreamGets(p, s, u, b) /\ t.state = "reading"
        BY <1>1, <3>2 DEF Forward, Reading, StreamGets
      <4>3. QED
        BY <2>1, <3>2, <4>1, <4>2
    <3>3. CASE EndOfFile(p, s)
      <4> DEFINE u == [t EXCEPT !.state = "ended"]
      <4>1. u \in T /\ u.buf = t.buf /\ u.state = "ended"
        BY <2>1 DEF ThreadState
      <4>2. StreamGets(p, s, u, b) /\ t.state = "reading" /\ t.buf = <<>> /\ b = <<>>
        BY <1>1, <3>3 DEF EndOfFile, Reading, StreamGets
      <4>3. QED
        BY <2>1, <3>3, <4>1, <4>2
    <3>4. CASE ForwardFails(p, s)
      <4> DEFINE u == [state |-> "failed", buf |-> <<>>]
      <4>1. u \in T
        BY <2>1 DEF ThreadState
      <4>2. StreamGets(p, s, u, <<>>) /\ t.state = "reading"
        BY <1>1, <3>4 DEF ForwardFails, Closed, Reading, StreamGets
      <4>3. QED
        BY <2>1, <3>4, <4>1, <4>2
    <3>5. QED
      BY <1>5, <3>1, <3>2, <3>3, <3>4
  <2>3. /\ StreamTyped /\ thread'[<<p, s>>] = u /\ pipe'[<<p, s>>] = c
        /\ \A q \in Steps, v \in Stream : StreamStill(q, v) \/ (q = p /\ v = s)
    BY <2>2, StreamPut
  <2>4. StreamReads(p, s) \/ StreamForwards(p, s) \/ StreamEnds(p, s) \/ StreamBreaks(p, s)
    BY <2>2, <2>3 DEF StreamReads, StreamForwards, StreamEnds, StreamBreaks
  <2>5. QED
    BY <2>3, <2>4 DEF StreamMoves
<1>6. ASSUME NEW ps, ClientsExit(ps)
      PROVE  Claim
  BY <1>6, Exits DEF StreamMoves
<1>7. ASSUME NEW p \in Steps, NEW r \in Runs, NEW o \in job.steps, LaunchStep(p, r, o)
      PROVE  Claim
  <2>1. /\ pipe' = pipe
        /\ thread' = [c \in Steps \X Stream |->
                        IF c[1] = p /\ o.unbuffered
                        THEN [state |-> "reading", buf |-> <<>>] ELSE thread[c]]
    BY <1>7 DEF LaunchStep
  <2>2. [state |-> "reading", buf |-> <<>>] \in T
    <3>1. <<>> \in Seq(Lines)
      BY EmptySeq
    <3>2. QED
      BY <3>1 DEF ThreadState
  <2> HIDE DEF T
  <2>3. StreamTyped
    BY <1>1, <2>1, <2>2 DEF StreamTyped, T
  <2>4. \A q \in Steps, s \in Stream : q # p => StreamStill(q, s)
    BY <1>1, <2>1 DEF StreamStill
  <2>5. \A s \in Stream : StreamOpens(p, s)
    BY <1>1, <1>7, <2>1 DEF StreamOpens
  <2>6. QED
    BY <2>3, <2>4, <2>5 DEF StreamMoves
<1>8. \/ UNCHANGED <<pipe, thread>>
      \/ \E p \in Program, k \in Rank, s \in Stream : PrintLine(p, k, s) \/ SedPrints(p, k, s)
      \/ \E p \in Steps, s \in Stream :
            ReadPipe(p, s) \/ Forward(p, s) \/ EndOfFile(p, s) \/ ForwardFails(p, s)
      \/ \E ps \in SUBSET Steps : ClientsExit(ps)
      \/ \E p \in Steps, r \in Runs, o \in job.steps : LaunchStep(p, r, o)
  <2>1. ASSUME NEW p \in Program,
               \/ \E k \in Rank : TaskExits(p, k) \/ BackgroundExits(p, k)
               \/ Wait(p) \/ LaunchRun(p)
               \/ p \in Steps /\ (ChildEnds(p) \/ Join(p) \/ Report(p))
        PROVE  UNCHANGED <<pipe, thread>>
    BY <2>1 DEF TaskExits, BackgroundExits, Wait, LaunchRun, ChildEnds, Join, Report, channels
  <2>2. ASSUME NEW p \in Steps, JoinFails(p) \/ ClientDies(p)
        PROVE  \E ps \in SUBSET Steps : ClientsExit(ps)
    BY <2>2 DEF JoinFails, ClientDies
  <2>3. ASSUME NEW p \in Program, Kill(p)
        PROVE  \E ps \in SUBSET Steps : ClientsExit(ps)
    BY <2>3 DEF Kill
  <2>4. QED
    BY <2>1, <2>2, <2>3 DEF Next, Tasks, Failure, Machinery, Program
<1>9. QED
  BY <1>2, <1>3, <1>4, <1>5, <1>6, <1>7, <1>8

(* Who is launched, and where its srun is *)
LEMMA LaunchIs ==
    ASSUME IInv, Next, NEW p \in Program, ~Launched(p), launcher'[p].state # "idle"
    PROVE  \/ p \in Runs /\ LaunchRun(p)
           \/ p \in Steps /\ \E r \in Runs, o \in job.steps : LaunchStep(p, r, o)
<1>1. launcher[p].state = "idle" /\ launcher \in [Program -> Launcher]
  BY DEF Launched, IInv, TypeOK
<1>2. launcher' # launcher
  BY <1>1
<1>3. ASSUME NEW q \in Program, Begin(q)
      PROVE  q = p
  BY <1>1, <1>3 DEF Begin
<1>4. ASSUME NEW q \in Program, Wait(q) \/ Kill(q)
      PROVE  FALSE
  <2>1. q # p
    BY <1>1, <1>4 DEF Wait, Kill
  <2>2. launcher'[p] = launcher[p]
    BY <1>1, <1>4, <2>1 DEF Wait, Kill
  <2>3. QED
    BY <1>1, <2>2
<1>5. ASSUME NEW q \in Program,
             \/ \E k \in Rank : \/ TaskExits(q, k) \/ BackgroundExits(q, k)
                                \/ \E s \in Stream : PrintLine(q, k, s) \/ SedPrints(q, k, s)
             \/ q \in Steps /\ \/ ChildEnds(q) \/ Join(q) \/ Report(q) \/ JoinFails(q)
                               \/ ClientDies(q)
                               \/ \E s \in Stream : \/ ReadPipe(q, s) \/ Forward(q, s)
                                                    \/ EndOfFile(q, s) \/ ForwardFails(q, s)
      PROVE  FALSE
  BY <1>2, <1>5 DEF TaskExits, BackgroundExits, PrintLine, SedPrints, ChildEnds, Join, Report,
     JoinFails, ClientDies, ReadPipe, Forward, EndOfFile, ForwardFails
<1>6. \A q \in Steps : q \in Program
  BY DEF Program
<1>7. \A r \in Runs : r \in Program
  BY DEF Program
<1>8. ASSUME NEW r \in Runs, LaunchRun(r)
      PROVE  r = p
  BY <1>3, <1>7, <1>8 DEF LaunchRun
<1>9. ASSUME NEW q \in Steps, NEW r \in Runs, NEW o \in job.steps, LaunchStep(q, r, o)
      PROVE  q = p
  BY <1>3, <1>6, <1>9 DEF LaunchStep
<1>10. QED
  BY <1>4, <1>5, <1>6, <1>8, <1>9 DEF Next, Tasks, Failure, Machinery

ClientMoves(p) ==
    \/ client'[p] = client[p]
    \/ client[p] # "idle" /\ client'[p] = "failed"
    \/ client[p] = "waiting" /\ client'[p] = IF Streamed(p) THEN "joinOut" ELSE "finish"
    \/ client[p] = "joinOut" /\ thread[<<p, "out">>].state = "ended" /\ client'[p] = "joinErr"
    \/ client[p] = "joinErr" /\ thread[<<p, "err">>].state = "ended" /\ client'[p] = "finish"
    \/ client[p] = "finish" /\ client'[p] = "reported"
    \/ \E r \in Runs, o \in job.steps : LaunchStep(p, r, o) /\ client'[p] = "waiting"

LEMMA ClientStep ==
    ASSUME IInv, Next
    PROVE  client' \in [Steps -> ClientState] /\ \A p \in Steps : ClientMoves(p)
<1> DEFINE Claim == client' \in [Steps -> ClientState] /\ \A p \in Steps : ClientMoves(p)
<1>1. client \in [Steps -> ClientState]
  BY DEF IInv, TypeOK
<1>2. CASE UNCHANGED client
  BY <1>1, <1>2 DEF ClientMoves
<1>3. ASSUME NEW p \in Steps, NEW r \in Runs, NEW o \in job.steps, LaunchStep(p, r, o)
      PROVE  Claim
  BY <1>1, <1>3 DEF LaunchStep, ClientMoves, ClientState
<1>4. ASSUME NEW p \in Steps, ChildEnds(p) \/ Join(p) \/ Report(p)
      PROVE  Claim
  <2>1. PICK pc \in ClientState :
           /\ client' = [client EXCEPT ![p] = pc]
           /\ \/ client[p] = "waiting" /\ pc = IF Streamed(p) THEN "joinOut" ELSE "finish"
              \/ client[p] = "joinOut" /\ thread[<<p, "out">>].state = "ended" /\ pc = "joinErr"
              \/ client[p] = "joinErr" /\ thread[<<p, "err">>].state = "ended" /\ pc = "finish"
              \/ client[p] = "finish" /\ pc = "reported"
    BY <1>4 DEF ChildEnds, Join, Report, ClientGoes, ClientState
  <2>2. QED
    BY <1>1, <2>1 DEF ClientMoves
<1>5. ASSUME NEW ps, ClientsExit(ps), \A p \in ps : client[p] # "idle"
      PROVE  Claim
  BY <1>5, Exits DEF ClientMoves
<1>6. ASSUME NEW p \in Steps, JoinFails(p) \/ ClientDies(p)
      PROVE  Claim
  <2>1. ClientsExit({p}) /\ client[p] # "idle"
    BY <1>6 DEF JoinFails, ClientDies, ClientAlive
  <2>2. QED
    BY <1>5, <2>1
<1>7. ASSUME NEW p \in Program, Kill(p)
      PROVE  Claim
  <2>1. PICK ps : ps = {q \in Steps : step[q].run = p /\ ClientAlive(q)}
    OBVIOUS
  <2>2. ClientsExit(ps) /\ \A q \in ps : client[q] # "idle"
    BY <1>7, <2>1 DEF Kill, ClientAlive
  <2>3. QED
    BY <1>5, <2>2
<1>8. ASSUME NEW p \in Program,
             \/ \E k \in Rank : \/ TaskExits(p, k) \/ BackgroundExits(p, k)
                                \/ \E s \in Stream : PrintLine(p, k, s) \/ SedPrints(p, k, s)
             \/ Wait(p) \/ LaunchRun(p)
             \/ p \in Steps /\ \E s \in Stream : \/ ReadPipe(p, s) \/ Forward(p, s)
                                                 \/ EndOfFile(p, s) \/ ForwardFails(p, s)
      PROVE  UNCHANGED client
  BY <1>8 DEF TaskExits, BackgroundExits, PrintLine, SedPrints, Wait, LaunchRun, ReadPipe, Forward,
     EndOfFile, ForwardFails
<1>9. QED
  BY <1>2, <1>3, <1>4, <1>6, <1>7, <1>8 DEF Next, Tasks, Failure, Machinery, Program

----------------------------------------------------------------------------
(* The invariant is kept: types *)

LEMMA EmptiedType ==
    ASSUME IInv, NEW fs
    PROVE  Emptied(fs) \in [File -> Seq(Lines \cup {Hole})]
<1>1. <<>> \in Seq(Lines \cup {Hole})
  BY EmptySeq
<1>2. QED
  BY <1>1 DEF IInv, TypeOK, Emptied

LEMMA TypeNext ==
    ASSUME IInv, Next
    PROVE  TypeOK'
<1> DEFINE StepRecord == [run : {0} \cup Runs, out : {"none", "step.out"},
                          err : {"none", "step.out", "step.err"},
                          label : BOOLEAN, unbuffered : BOOLEAN]
           Desc == [file : File \cup {"none"}, pos : Nat]
           Claim == /\ step' \in [Steps -> StepRecord]
                    /\ file' \in [File -> Seq(Lines \cup {Hole})]
                    /\ desc' \in [Program \X Stream -> Desc]
                    /\ shared' \subseteq Program
<1>1. /\ step \in [Steps -> StepRecord] /\ file \in [File -> Seq(Lines \cup {Hole})]
      /\ desc \in [Program \X Stream -> Desc] /\ shared \subseteq Program
  BY DEF IInv, TypeOK
<1>2. Claim
  <2>1. CASE UNCHANGED <<job, step, shared, file, desc>>
    BY <1>1, <2>1
  <2>2. ASSUME NEW p \in Program, NEW s \in Stream, NEW ls \in Seq(Lines), Writing(p, s, ls)
        PROVE  Claim
    BY <1>1, <2>2, WriteFact DEF Writing, Writes
  <2>3. ASSUME NEW r \in Runs, LaunchRun(r)
        PROVE  Claim
    <3>1. \A s \in Stream : Opened(JobFile(s)) \in Desc
      BY DEF Opened, JobFile, File
    <3>2. /\ step' = step /\ (shared' = shared \/ shared' = shared \cup {r}) /\ r \in Program
          /\ desc' = [c \in Program \X Stream |-> IF c[1] = r THEN Opened(JobFile(c[2])) ELSE desc[c]]
          /\ file' = file \/ file' = Emptied({JobFile(s) : s \in Stream})
      BY <2>3 DEF LaunchRun, Program
    <3> HIDE DEF StepRecord, Desc
    <3>3. desc' \in [Program \X Stream -> Desc]
      BY <1>1, <3>1, <3>2
    <3>4. QED
      BY <1>1, <3>2, <3>3, EmptiedType
  <2>4. ASSUME NEW p \in Steps, NEW r \in Runs, NEW o \in job.steps, LaunchStep(p, r, o)
        PROVE  Claim
    <3> DEFINE new == [run |-> r, out |-> o.out, err |-> o.err,
                       label |-> o.label, unbuffered |-> o.unbuffered]
    <3>1. o \in StepOption
      BY Ranks DEF IInv
    <3>2. new \in StepRecord
      BY <3>1 DEF StepOption
    <3>3. \A s \in Stream : Opened(StepFile(r, o, s)) \in Desc
      BY <3>1 DEF Opened, StepFile, JobFile, File, StepOption
    <3>4. /\ step' = [step EXCEPT ![p] = new]
          /\ shared' = shared \/ shared' = shared \cup {p}
          /\ desc' = [c \in Program \X Stream |->
                        IF c[1] = p THEN Opened(StepFile(r, o, c[2])) ELSE desc[c]]
          /\ file' = Emptied({o.out, o.err} \cap File) /\ p \in Program
      BY <2>4 DEF LaunchStep, Program
    <3> HIDE DEF StepRecord, Desc, new
    <3>5. desc' \in [Program \X Stream -> Desc]
      BY <1>1, <3>3, <3>4
    <3>6. step' \in [Steps -> StepRecord]
      BY <1>1, <3>2, <3>4
    <3>7. QED
      BY <1>1, <3>4, <3>5, <3>6, EmptiedType
  <2>5. QED
    BY <2>1, <2>2, <2>3, <2>4, FileStep
<1>3. faults' \in 0 .. MaxFaults
  <2>1. faults \in 0 .. MaxFaults /\ MaxFaults \in Nat
    BY OutputAssumption DEF IInv, TypeOK
  <2>2. faults' = faults \/ (faults < MaxFaults /\ faults' = faults + 1)
    <3>1. ASSUME NEW p \in Program,
                 \/ \E k \in Rank : \/ TaskExits(p, k) \/ BackgroundExits(p, k)
                                    \/ \E s \in Stream : PrintLine(p, k, s) \/ SedPrints(p, k, s)
                 \/ Wait(p) \/ Kill(p) \/ LaunchRun(p)
                 \/ \E r \in Runs, o \in job.steps : LaunchStep(p, r, o)
          PROVE  faults' = faults \/ (faults < MaxFaults /\ faults' = faults + 1)
      BY <3>1 DEF TaskExits, BackgroundExits, PrintLine, SedPrints, Wait, Kill, LaunchRun, LaunchStep
    <3>2. ASSUME NEW p \in Steps,
                 \/ ChildEnds(p) \/ Join(p) \/ Report(p) \/ JoinFails(p) \/ ClientDies(p)
                 \/ \E s \in Stream : \/ ReadPipe(p, s) \/ Forward(p, s)
                                      \/ EndOfFile(p, s) \/ ForwardFails(p, s)
          PROVE  faults' = faults \/ (faults < MaxFaults /\ faults' = faults + 1)
      BY <3>2 DEF ChildEnds, Join, Report, JoinFails, ClientDies, ReadPipe, Forward, EndOfFile,
                  ForwardFails
    <3>3. QED
      BY <3>1, <3>2 DEF Next, Tasks, Failure, Machinery, Program
  <2>3. QED
    BY <2>1, <2>2
<1>4. job' \in JobOptions
  BY LauncherStep DEF IInv, TypeOK
<1>5. /\ launcher' \in [Program -> Launcher] /\ task' \in [Program \X Rank -> Task]
      /\ sent' \in [Program \X Stream -> Seq(Rank)]
      /\ sed' \in [Program \X Stream -> [Rank -> Seq(Lines)]]
      /\ pipe' \in [Steps \X Stream -> Seq(Lines)]
      /\ thread' \in [Steps \X Stream -> [state : ThreadState, buf : Seq(Lines)]]
      /\ client' \in [Steps -> ClientState]
  BY LauncherStep, SentStep, SedStep, StreamStep, ClientStep DEF Typed, StreamTyped
<1>6. QED
  BY <1>2, <1>3, <1>4, <1>5 DEF TypeOK

----------------------------------------------------------------------------
(* The invariant is kept: what is on its way *)

(* A line that is printed *)
LEMMA NewLine ==
    ASSUME IInv, NEW p \in Program, NEW k \in Rank, NEW s \in Stream, PrintLine(p, k, s)
    PROVE  /\ sent'[<<p, s>>] = Append(sent[<<p, s>>], k)
           /\ Len(sent'[<<p, s>>]) = Len(sent[<<p, s>>]) + 1
           /\ DOMAIN sent'[<<p, s>>] = 1 .. Len(sent[<<p, s>>]) + 1
           /\ DOMAIN sent[<<p, s>>] = 1 .. Len(sent[<<p, s>>]) /\ Len(sent[<<p, s>>]) \in Nat
           /\ sent'[<<p, s>>][Len(sent[<<p, s>>]) + 1] = k
           /\ Line(p, s, Len(sent[<<p, s>>]) + 1) \in OwnOf(p, s, k)'
           /\ Alive(p, k)
<1>1. sent \in [Program \X Stream -> Seq(Rank)] /\ sent[<<p, s>>] \in Seq(Rank)
  BY DEF IInv, TypeOK
<1>2. sent' = [sent EXCEPT ![<<p, s>>] = Append(sent[<<p, s>>], k)] /\ Alive(p, k)
  BY DEF PrintLine
<1>3. sent'[<<p, s>>] = Append(sent[<<p, s>>], k)
  BY <1>1, <1>2
<1>4. /\ Len(sent'[<<p, s>>]) = Len(sent[<<p, s>>]) + 1
      /\ DOMAIN sent'[<<p, s>>] = 1 .. Len(sent[<<p, s>>]) + 1
      /\ DOMAIN sent[<<p, s>>] = 1 .. Len(sent[<<p, s>>]) /\ Len(sent[<<p, s>>]) \in Nat
      /\ sent'[<<p, s>>][Len(sent[<<p, s>>]) + 1] = k
  BY <1>1, <1>3, AppendProperties, LenProperties
<1>5. Len(sent[<<p, s>>]) + 1 \in DOMAIN sent'[<<p, s>>]
  BY <1>4
<1>6. QED
  BY <1>2, <1>3, <1>4, <1>5 DEF OwnOf

LEMMA LinesNext ==
    ASSUME IInv, Next
    PROVE  LinesInv'
<1>1. \A p \in Program, s \in Stream, k \in Rank : sed'[<<p, s>>][k] \in Seq(OwnOf(p, s, k))'
  <2> SUFFICES ASSUME NEW p \in Program, NEW s \in Stream, NEW k \in Rank
               PROVE  sed'[<<p, s>>][k] \in Seq(OwnOf(p, s, k)')
    OBVIOUS
  <2>1. PICK A, B : A = OwnOf(p, s, k) /\ B = OwnOf(p, s, k)'
    OBVIOUS
  <2>2. A \subseteq B
    BY <2>1, OwnGrows
  <2>3. sed[<<p, s>>][k] \in Seq(A)
    BY <2>1 DEF IInv, LinesInv
  <2>4. sed[<<p, s>>][k] \in Seq(B)
    BY <2>2, <2>3, SeqMonotonic
  <2>5. CASE SedTakes(p, s, k)
    <3>1. Line(p, s, Len(sent[<<p, s>>]) + 1) \in B
      BY <2>1, <2>5, NewLine DEF SedTakes
    <3>2. sed'[<<p, s>>][k] = Append(sed[<<p, s>>][k], Line(p, s, Len(sent[<<p, s>>]) + 1))
      BY <2>5 DEF SedTakes
    <3>3. sed'[<<p, s>>][k] \in Seq(B)
      BY <2>4, <3>1, <3>2, AppendProperties
    <3>4. QED
      BY <2>1, <3>3
  <2>6. CASE SedGives(p, s, k)
    <3>1. sed'[<<p, s>>][k] \in Seq(B)
      BY <2>4, <2>6, HeadTailProperties DEF SedGives
    <3>2. QED
      BY <2>1, <3>1
  <2>7. QED
    BY <2>1, <2>4, <2>5, <2>6, SedStep
<1>2. \A p \in Steps, s \in Stream :
         pipe'[<<p, s>>] \in Seq(Own(p, s))' /\ thread'[<<p, s>>].buf \in Seq(Own(p, s))'
  <2> SUFFICES ASSUME NEW p \in Steps, NEW s \in Stream
               PROVE  pipe'[<<p, s>>] \in Seq(Own(p, s)') /\ thread'[<<p, s>>].buf \in Seq(Own(p, s)')
    OBVIOUS
  <2>1. PICK A, B : A = Own(p, s) /\ B = Own(p, s)'
    OBVIOUS
  <2>2. A \subseteq B /\ p \in Program
    BY <2>1, OwnGrows DEF Program
  <2>3. pipe[<<p, s>>] \in Seq(A) /\ thread[<<p, s>>].buf \in Seq(A)
    BY <2>1 DEF IInv, LinesInv
  <2>4. pipe[<<p, s>>] \in Seq(B) /\ thread[<<p, s>>].buf \in Seq(B) /\ <<>> \in Seq(B)
    BY <2>2, <2>3, SeqMonotonic, EmptySeq
  <2>5. ASSUME NEW k \in Rank, PrintLine(p, k, s)
        PROVE  Line(p, s, Len(sent[<<p, s>>]) + 1) \in B
    BY <2>1, <2>2, <2>5, NewLine DEF OwnOf, Own
  <2>6. ASSUME NEW k \in Rank, SedPrints(p, k, s)
        PROVE  Head(sed[<<p, s>>][k]) \in B
    <3>1. sed[<<p, s>>][k] \in Seq(OwnOf(p, s, k)) /\ sed[<<p, s>>][k] # <<>>
      BY <2>2, <2>6 DEF IInv, LinesInv, SedPrints
    <3>2. Head(sed[<<p, s>>][k]) \in OwnOf(p, s, k)
      BY <3>1, HeadTailProperties
    <3>3. QED
      BY <2>1, <2>2, <3>2, OwnLines
  <2>7. ASSUME NEW x \in B, StreamTakes(p, s, x)
        PROVE  pipe'[<<p, s>>] \in Seq(B) /\ thread'[<<p, s>>].buf \in Seq(B)
    BY <2>4, <2>7, AppendProperties DEF StreamTakes
  <2>8. ASSUME NEW r \in Runs, NEW o \in job.steps, LaunchStep(p, r, o), pipe'[<<p, s>>] = pipe[<<p, s>>],
               IF o.unbuffered
               THEN thread'[<<p, s>>].state = "reading" /\ thread'[<<p, s>>].buf = <<>>
               ELSE thread'[<<p, s>>] = thread[<<p, s>>]
        PROVE  pipe'[<<p, s>>] \in Seq(B) /\ thread'[<<p, s>>].buf \in Seq(B)
    BY <2>4, <2>8
  <2>9. pipe'[<<p, s>>] \in Seq(B) /\ thread'[<<p, s>>].buf \in Seq(B)
    <3>1. StreamMoves(p, s)
      BY StreamStep
    <3>2. CASE StreamStill(p, s) \/ StreamReads(p, s) \/ StreamForwards(p, s) \/ StreamEnds(p, s)
               \/ StreamBreaks(p, s)
      BY <2>4, <3>2 DEF StreamStill, StreamReads, StreamForwards, StreamEnds, StreamBreaks
    <3>3. CASE StreamOpens(p, s)
      BY <2>8, <3>3 DEF StreamOpens
    <3>4. CASE \E k \in Rank :
                 \/ PrintLine(p, k, s) /\ StreamTakes(p, s, Line(p, s, Len(sent[<<p, s>>]) + 1))
                 \/ SedPrints(p, k, s) /\ StreamTakes(p, s, Head(sed[<<p, s>>][k]))
      BY <2>5, <2>6, <2>7, <3>4
    <3>5. QED
      BY <3>1, <3>2, <3>3, <3>4 DEF StreamMoves
  <2>10. QED
    BY <2>1, <2>9
<1>3. \A f \in File : file'[f] \in Seq(AllOwn \cup {Hole})'
  <2>1. PICK A, B : A = AllOwn \cup {Hole} /\ B = (AllOwn \cup {Hole})'
    OBVIOUS
  <2>2. A \subseteq B
    <3>1. SUFFICES ASSUME NEW p \in Program, NEW s \in Stream, NEW x \in Own(p, s)
                   PROVE  x \in B
      BY <2>1 DEF AllOwn
    <3>2. x \in Own(p, s)'
      BY OwnGrows
    <3>3. x \in AllOwn'
      BY <3>2 DEF AllOwn
    <3>4. QED
      BY <2>1, <3>3
  <2>3. \A f \in File : file[f] \in Seq(B)
    BY <2>1, <2>2, SeqMonotonic DEF IInv, LinesInv
  <2>4. <<>> \in Seq(B)
    BY EmptySeq
  <2>5. ASSUME NEW fs, file' = Emptied(fs)
        PROVE  \A f \in File : file'[f] \in Seq(B)
    BY <2>3, <2>4, <2>5 DEF Emptied
  <2>6. ASSUME NEW p \in Program, NEW s \in Stream, NEW ls \in Seq(Lines), Writing(p, s, ls)
        PROVE  \A f \in File : file'[f] \in Seq(B)
    <3>1. \A i \in DOMAIN ls : ls[i] \in B
      BY <2>1, <2>6 DEF Writing, Writes, AllOwn
    <3>2. ls \in Seq(B)
      BY <3>1, LenProperties
    <3>3. /\ \A f \in File : f # FileOf(p, s) => file'[f] = file[f]
          /\ \E pos \in Nat : file'[FileOf(p, s)] = Overwrite(file[FileOf(p, s)], pos, ls)
          /\ FileOf(p, s) \in File
      BY <2>6, WriteFact, TargetFact DEF Writing, Writes
    <3>4. Hole \in B
      BY <2>1
    <3>5. file'[FileOf(p, s)] \in Seq(B)
      BY <2>3, <3>2, <3>3, <3>4, WriteType
    <3>6. QED
      BY <2>3, <3>3, <3>5
  <2>7. \A f \in File : file'[f] \in Seq(B)
    BY <2>3, <2>5, <2>6, FileStep DEF LaunchRun, LaunchStep
  <2>8. QED
    BY <2>1, <2>7
<1>4. QED
  BY <1>1, <1>2, <1>3 DEF LinesInv

----------------------------------------------------------------------------
(* The invariant is kept: launchers, threads and clients *)

LEMMA IdleNext ==
    ASSUME IInv, Next
    PROVE  IdleInv'
<1> SUFFICES ASSUME NEW p \in Program, launcher'[p].state = "idle"
             PROVE  /\ launcher'[p].waited = 0 /\ launcher'[p].status = "ok" /\ p \notin shared'
                    /\ \A k \in Rank : task'[<<p, k>>] = [state |-> "none", code |-> "ok"]
                    /\ \A s \in Stream : sent'[<<p, s>>] = <<>>
                    /\ p \in Steps => client'[p] = "idle" /\ step'[p] = NoStep
  BY DEF IdleInv, Launched
<1>1. ~Launched(p) /\ launcher[p].state = "idle"
  BY Stays DEF Launched
<1>2. /\ launcher[p].waited = 0 /\ launcher[p].status = "ok" /\ p \notin shared
      /\ \A k \in Rank : task[<<p, k>>] = [state |-> "none", code |-> "ok"]
      /\ \A s \in Stream : sent[<<p, s>>] = <<>>
      /\ p \in Steps => client[p] = "idle" /\ step[p] = NoStep
  BY <1>1 DEF IInv, IdleInv
<1>3. Quiet(p)
  BY <1>1, LauncherStep DEF Starts, Waits, Dies
<1>4. /\ launcher'[p] = launcher[p]
      /\ \A k \in Rank : task'[<<p, k>>] = task[<<p, k>>]
  BY <1>2, <1>3 DEF Quiet
<1>5. \A s \in Stream : sent'[<<p, s>>] = sent[<<p, s>>]
  BY <1>1, SentStep, NewLine, Active
<1>6. p \in Steps => client'[p] = "idle"
  <2>1. ASSUME p \in Steps, NEW r \in Runs, NEW o \in job.steps, LaunchStep(p, r, o)
        PROVE  FALSE
    <3>1. launcher'[p].state = "running"
      BY <1>1, <2>1, Begins DEF LaunchStep, Starts
    <3>2. QED
      BY <3>1
  <2>2. QED
    BY <1>2, <2>1, ClientStep DEF ClientMoves
<1>7. /\ p \in Steps => step'[p] = step[p]
      /\ p \in shared' <=> p \in shared
  BY <1>1, Stays
<1>8. QED
  BY <1>2, <1>4, <1>5, <1>6, <1>7

(* The files of a program are settled when it is launched. *)
LEMMA FilesStay ==
    ASSUME IInv, Next, NEW p \in Program, Launched(p)
    PROVE  /\ \A s \in Stream : FileOf(p, s)' = FileOf(p, s)
           /\ OneFile(p)' <=> OneFile(p)
           /\ Streamed(p)' <=> Streamed(p)
           /\ Labelled(p)' <=> Labelled(p)
           /\ Appends(p)' <=> Appends(p)
           /\ \A s \in Stream : Target(p, s)' = Target(p, s)
           /\ Launched(p)'
           /\ p \in Steps => /\ Inherits(p)' <=> Inherits(p)
                             /\ \A s \in Stream : StepPath(p, s)' = StepPath(p, s)
<1>1. /\ job' = job
      /\ p \in shared' <=> p \in shared
      /\ p \in Steps => step'[p] = step[p]
      /\ launcher'[p].state # "idle"
  BY Stays, LauncherStep
<1>2. p \in Runs \/ p \in Steps
  BY DEF Program
<1>3. /\ \A s \in Stream : FileOf(p, s)' = FileOf(p, s)
      /\ OneFile(p)' <=> OneFile(p)
  <2>1. CASE p \in Runs
    BY <1>1, <2>1 DEF FileOf, OneFile, JobFile
  <2>2. CASE p \in Steps
    BY <1>1, <2>2, Disjoint DEF FileOf, OneFile, StepFile, SamePath, JobFile
  <2>3. QED
    BY <1>2, <2>1, <2>2
<1>4. /\ Streamed(p)' <=> Streamed(p)
      /\ Labelled(p)' <=> Labelled(p)
      /\ Appends(p)' <=> Appends(p)
      /\ \A s \in Stream : Target(p, s)' = Target(p, s)
      /\ Launched(p)'
  BY <1>1 DEF Streamed, Labelled, Appends, Target, Launched
<1>5. p \in Steps => /\ Inherits(p)' <=> Inherits(p)
                     /\ \A s \in Stream : StepPath(p, s)' = StepPath(p, s)
  BY <1>1, <1>4 DEF Inherits, StepPath
<1>6. QED
  BY <1>3, <1>4, <1>5

LEMMA LaunchedNext ==
    ASSUME IInv, Next
    PROVE  LaunchedInv'
<1> SUFFICES ASSUME NEW p \in Program, Launched(p)'
             PROVE  /\ \A s \in Stream : desc'[<<p, s>>].file = FileOf(p, s)'
                    /\ p \in shared' <=> OneFile(p)'
                    /\ p \in Steps => client'[p] # "idle"
  BY DEF LaunchedInv
<1>1. CASE Launched(p)
  <2>1. /\ \A s \in Stream : desc'[<<p, s>>].file = desc[<<p, s>>].file
        /\ p \in shared' <=> p \in shared
    BY <1>1, Stays
  <2>2. /\ \A s \in Stream : desc[<<p, s>>].file = FileOf(p, s)
        /\ p \in shared <=> OneFile(p)
        /\ p \in Steps => client[p] # "idle"
    BY <1>1 DEF IInv, LaunchedInv
  <2>3. p \in Steps => client'[p] # "idle"
    BY <2>2, ClientStep DEF ClientMoves
  <2>4. QED
    BY <1>1, <2>1, <2>2, <2>3, FilesStay
<1>2. CASE ~Launched(p)
  <2>1. p \notin shared
    BY <1>2 DEF IInv, IdleInv
  <2>2. CASE p \in Runs /\ LaunchRun(p)
    <3>1. /\ shared' = IF job.split THEN shared ELSE shared \cup {p}
          /\ desc' = [c \in Program \X Stream |->
                        IF c[1] = p THEN Opened(JobFile(c[2])) ELSE desc[c]]
          /\ job' = job
      BY <2>2 DEF LaunchRun
    <3>2. p \in shared' <=> OneFile(p)'
      BY <2>1, <2>2, <3>1 DEF OneFile
    <3>3. \A s \in Stream : desc'[<<p, s>>].file = JobFile(s)
      BY <3>1 DEF Opened
    <3>4. \A s \in Stream : FileOf(p, s)' = JobFile(s)
      BY <2>2, <3>1 DEF FileOf, JobFile
    <3>5. QED
      BY <2>2, <3>2, <3>3, <3>4, Disjoint
  <2>3. ASSUME p \in Steps, NEW r \in Runs, NEW o \in job.steps, LaunchStep(p, r, o)
        PROVE  /\ \A s \in Stream : desc'[<<p, s>>].file = FileOf(p, s)'
               /\ p \in shared' <=> OneFile(p)'
               /\ client'[p] # "idle"
    <3>1. /\ shared' = IF SamePath(o) THEN shared \cup {p} ELSE shared
          /\ desc' = [c \in Program \X Stream |->
                        IF c[1] = p THEN Opened(StepFile(r, o, c[2])) ELSE desc[c]]
          /\ step' = [step EXCEPT ![p] = [run |-> r, out |-> o.out, err |-> o.err,
                                          label |-> o.label, unbuffered |-> o.unbuffered]]
          /\ client' = [client EXCEPT ![p] = "waiting"]
          /\ job' = job
      BY <2>3 DEF LaunchStep
    <3>2. step'[p].run = r /\ step'[p].out = o.out /\ step'[p].err = o.err /\ client'[p] # "idle"
      BY <2>3, <3>1 DEF IInv, TypeOK
    <3>3. p \in shared' <=> OneFile(p)'
      BY <2>1, <2>3, <3>1, <3>2, Disjoint DEF OneFile, SamePath
    <3>4. \A s \in Stream : desc'[<<p, s>>].file = StepFile(r, o, s)
      BY <3>1 DEF Opened
    <3>5. \A s \in Stream : FileOf(p, s)' = StepFile(r, o, s)
      BY <2>3, <3>1, <3>2, Disjoint DEF FileOf, StepFile, JobFile
    <3>6. QED
      BY <3>2, <3>3, <3>4, <3>5
  <2>4. QED
    BY <1>2, <2>2, <2>3, LaunchIs, Disjoint DEF Launched
<1>3. QED
  BY <1>1, <1>2

(* Once nothing holds the write end of a stream, nothing will. *)
LEMMA HeldStays ==
    ASSUME IInv, Next, NEW p \in Program, NEW s \in Stream, Launched(p), ~Held(p, s)
    PROVE  ~Held(p, s)'
<1>1. /\ launcher[p].state \notin {"running", "idle"}
      /\ \A k \in Rank : task[<<p, k>>].state \notin {"running", "background"} /\ sed[<<p, s>>][k] = <<>>
  BY DEF Held, Alive, Launched
<1>2. Quiet(p)
  BY <1>1, LauncherStep DEF Starts, Waits, Dies
<1>3. /\ launcher'[p] = launcher[p]
      /\ \A k \in Rank : task'[<<p, k>>] = task[<<p, k>>]
  BY <1>1, <1>2 DEF Quiet
<1>4. \A k \in Rank : sed'[<<p, s>>][k] = <<>>
  <2>1. \A k \in Rank : ~Alive(p, k)
    BY <1>1 DEF Alive
  <2>2. \A k \in Rank : ~SedTakes(p, s, k) /\ ~SedGives(p, s, k)
    BY <1>1, <2>1, NewLine DEF SedTakes, SedGives
  <2>3. QED
    BY <1>1, <2>2, SedStep
<1>5. QED
  BY <1>1, <1>3, <1>4 DEF Held, Alive

LEMMA ThreadNext ==
    ASSUME IInv, Next
    PROVE  ThreadInv'
<1>1. \A p \in Program, s \in Stream, k \in Rank :
         ~Labelled(p)' => sed'[<<p, s>>][k] = <<>>
  <2> SUFFICES ASSUME NEW p \in Program, NEW s \in Stream, NEW k \in Rank, ~Labelled(p)'
               PROVE  sed'[<<p, s>>][k] = <<>>
    OBVIOUS
  <2>1. ~Labelled(p)
    BY FilesStay, Active
  <2>2. sed[<<p, s>>][k] = <<>>
    BY <2>1 DEF IInv, ThreadInv
  <2>3. QED
    BY <2>1, <2>2, SedStep DEF SedTakes, SedGives
<1>2. ASSUME NEW p \in Steps, NEW s \in Stream
      PROVE  /\ thread'[<<p, s>>].state # "none" <=> Streamed(p)'
             /\ thread'[<<p, s>>].state # "reading" =>
                   thread'[<<p, s>>].buf = <<>> /\ pipe'[<<p, s>>] = <<>>
             /\ thread'[<<p, s>>].state = "ended" => ~Held(p, s)'
  <2>1. /\ thread[<<p, s>>].state # "none" <=> Streamed(p)
        /\ thread[<<p, s>>].state # "reading" =>
              thread[<<p, s>>].buf = <<>> /\ pipe[<<p, s>>] = <<>>
        /\ thread[<<p, s>>].state = "ended" => ~Held(p, s)
        /\ p \in Program
    BY DEF IInv, ThreadInv, Program
  <2>2. ASSUME NEW r \in Runs, NEW o \in job.steps, LaunchStep(p, r, o)
        PROVE  /\ ~Launched(p) /\ launcher'[p].state # "idle"
               /\ thread'[<<p, s>>].state # "none" <=> Streamed(p)'
               /\ thread'[<<p, s>>].state # "reading" =>
                     thread'[<<p, s>>].buf = <<>> /\ pipe'[<<p, s>>] = <<>>
               /\ thread'[<<p, s>>].state # "ended"
    <3>1. /\ step' = [step EXCEPT ![p] = [run |-> r, out |-> o.out, err |-> o.err,
                                          label |-> o.label, unbuffered |-> o.unbuffered]]
          /\ thread' = [c \in Steps \X Stream |->
                          IF c[1] = p /\ o.unbuffered
                          THEN [state |-> "reading", buf |-> <<>>] ELSE thread[c]]
          /\ pipe' = pipe /\ client[p] = "idle" /\ Begin(p)
      BY <2>2 DEF LaunchStep
    <3>2. ~Launched(p) /\ launcher[p].state = "idle"
      BY <3>1, Active DEF Launched
    <3>3. Starts(p)
      BY <2>1, <3>1, <3>2, Begins
    <3>4. Streamed(p)' <=> o.unbuffered
      BY <3>1 DEF Streamed, IInv, TypeOK
    <3>5. thread[<<p, s>>].state = "none"
      BY <2>1, <3>2, Active
    <3>6. thread'[<<p, s>>] = IF o.unbuffered THEN [state |-> "reading", buf |-> <<>>]
                              ELSE thread[<<p, s>>]
      BY <3>1
    <3>7. QED
      BY <2>1, <3>1, <3>2, <3>3, <3>4, <3>5, <3>6 DEF Starts
  <2>3. CASE ~StreamOpens(p, s) /\ ~(\E r \in Runs, o \in job.steps : LaunchStep(p, r, o))
    <3>1. Launched(p)' <=> Launched(p)
      BY <2>1, <2>3, LaunchIs, Stays, Disjoint DEF Launched
    <3>2. Streamed(p)' <=> Streamed(p)
      <4>1. CASE Launched(p)
        BY <2>1, <4>1, FilesStay
      <4>2. CASE ~Launched(p)
        BY <2>1, <3>1, <4>2, Stays DEF Streamed, Launched
      <4>3. QED
        BY <4>1, <4>2
    <3>3. ASSUME NEW x, StreamTakes(p, s, x),
                 \E k \in Rank : PrintLine(p, k, s) \/ SedPrints(p, k, s)
          PROVE  thread'[<<p, s>>] = thread[<<p, s>>] /\ thread[<<p, s>>].state = "reading"
      <4>1. Held(p, s)
        BY <2>1, <3>3, NewLine DEF SedPrints, Held
      <4>2. thread[<<p, s>>].state \in ThreadState
        BY DEF IInv, TypeOK
      <4>3. QED
        BY <2>1, <3>3, <4>1, <4>2 DEF StreamTakes, ThreadState
    <3>4. ASSUME NEW k \in Rank,
                 \/ PrintLine(p, k, s) /\ StreamTakes(p, s, Line(p, s, Len(sent[<<p, s>>]) + 1))
                 \/ SedPrints(p, k, s) /\ StreamTakes(p, s, Head(sed[<<p, s>>][k]))
          PROVE  thread'[<<p, s>>] = thread[<<p, s>>] /\ thread[<<p, s>>].state = "reading"
      BY <3>3, <3>4
    <3>5. /\ thread'[<<p, s>>].state # "none" <=> thread[<<p, s>>].state # "none"
          /\ thread'[<<p, s>>].state # "reading" =>
                thread'[<<p, s>>].buf = <<>> /\ pipe'[<<p, s>>] = <<>>
          /\ thread'[<<p, s>>].state = "ended" =>
                thread[<<p, s>>].state = "ended" \/ (EndOfFile(p, s) /\ thread[<<p, s>>].state # "none")
      <4>1. CASE StreamStill(p, s)
        BY <2>1, <4>1 DEF StreamStill
      <4>2. CASE StreamReads(p, s) \/ StreamForwards(p, s) \/ StreamEnds(p, s)
        BY <4>2 DEF StreamReads, StreamForwards, StreamEnds
      <4>3. CASE StreamBreaks(p, s)
        BY <2>1, <4>3 DEF StreamBreaks
      <4>4. QED
        BY <2>1, <2>3, <3>4, <4>1, <4>2, <4>3, StreamStep DEF StreamMoves
    <3>6. thread'[<<p, s>>].state = "ended" => ~Held(p, s) /\ Launched(p)
      BY <2>1, <3>5, Active DEF EndOfFile
    <3>7. thread'[<<p, s>>].state = "ended" => ~Held(p, s)'
      BY <2>1, <3>6, HeldStays
    <3>8. QED
      BY <2>1, <3>2, <3>5, <3>7
  <2>4. QED
    BY <2>2, <2>3 DEF StreamOpens
<1>3. QED
  BY <1>1, <1>2 DEF ThreadInv

(* A forwarder that has ended stays so. *)
LEMMA EndedStays ==
    ASSUME IInv, Next, NEW p \in Steps, NEW s \in Stream, thread[<<p, s>>].state = "ended"
    PROVE  thread'[<<p, s>>].state = "ended"
<1>1. Launched(p) /\ client[p] # "idle"
  BY Active
<1>2. ~StreamOpens(p, s)
  BY <1>1 DEF StreamOpens, LaunchStep
<1>3. QED
  BY <1>2, StreamStep DEF StreamMoves, StreamStill, StreamTakes, StreamReads, StreamForwards,
     StreamEnds, StreamBreaks

LEMMA ClientNext ==
    ASSUME IInv, Next
    PROVE  ClientInv'
<1> SUFFICES ASSUME NEW p \in Steps
             PROVE  /\ client'[p] \in {"joinOut", "joinErr"} => Streamed(p)'
                    /\ client'[p] \in {"joinErr", "finish", "reported"} /\ Streamed(p)' =>
                          thread'[<<p, "out">>].state = "ended"
                    /\ client'[p] \in {"finish", "reported"} /\ Streamed(p)' =>
                          thread'[<<p, "err">>].state = "ended"
  BY DEF ClientInv
<1>1. /\ client[p] \in {"joinOut", "joinErr"} => Streamed(p)
      /\ client[p] \in {"joinErr", "finish", "reported"} /\ Streamed(p) =>
            thread[<<p, "out">>].state = "ended"
      /\ client[p] \in {"finish", "reported"} /\ Streamed(p) =>
            thread[<<p, "err">>].state = "ended"
      /\ p \in Program /\ "out" \in Stream /\ "err" \in Stream
  BY DEF IInv, ClientInv, Program, Stream
<1>2. CASE Launched(p)
  <2>1. /\ Streamed(p)' <=> Streamed(p)
        /\ \A s \in Stream : thread[<<p, s>>].state = "ended" => thread'[<<p, s>>].state = "ended"
    BY <1>1, <1>2, FilesStay, EndedStays
  <2>2. ~(\E r \in Runs, o \in job.steps : LaunchStep(p, r, o))
    BY <1>2, Active DEF LaunchStep
  <2>3. QED
    BY <1>1, <2>1, <2>2, ClientStep DEF ClientMoves
<1>3. CASE ~Launched(p)
  <2>1. client[p] = "idle"
    BY <1>1, <1>3 DEF IInv, IdleInv
  <2>2. client'[p] \in {"idle", "waiting"}
    BY <2>1, ClientStep DEF ClientMoves
  <2>3. QED
    BY <2>2
<1>4. QED
  BY <1>2, <1>3

LEMMA AloneNext ==
    ASSUME IInv, Next
    PROVE  AloneInv'
<1>1. /\ \A r, q \in Runs : Launched(r) /\ q < r => Ended(q)
      /\ \A r \in Runs : Current(r) /\ ~job.append /\ launcher[r].alone =>
            \A q \in Runs \ {r}, k \in Rank : ~Alive(q, k)
      /\ job' = job
  BY LauncherStep DEF IInv, AloneInv
<1>2. \A r \in Runs : r \in Program
  BY DEF Program
<1>3. \A p \in Program : Ended(p) => Ended(p)'
  BY LauncherStep DEF Ended, Quiet, Starts, Waits, Dies
<1>4. \A p \in Program : Ended(p) => Launched(p)
  BY DEF Ended, Launched
<1>5. \A r \in Runs : ~Launched(r) /\ Launched(r)' => \A q \in Runs : q < r => Ended(q)
  BY <1>2, LaunchIs, Disjoint DEF LaunchRun, Launched
<1>6. \A r, q \in Runs : Launched(r)' /\ q < r => Ended(q)'
  BY <1>1, <1>2, <1>3, <1>5
<1>7. \A p \in Program : Launched(p) => Launched(p)'
  BY Stays DEF Launched
<1>8. ASSUME NEW p \in Program, NEW k \in Rank, Alive(p, k)'
      PROVE  Alive(p, k) \/ Starts(p)
  BY <1>8, LauncherStep DEF Alive, Quiet, Waits, Dies
<1>9. ASSUME NEW r \in Runs, Current(r)', ~job'.append, launcher'[r].alone,
             NEW q \in Runs \ {r}, NEW k \in Rank, Alive(q, k)'
      PROVE  FALSE
  <2>1. \A p \in Runs : p > r => ~Launched(p)' /\ ~Launched(p)
    BY <1>2, <1>7, <1>9 DEF Current
  <2>2. Runs \subseteq Nat
    BY OutputAssumption, FS_CardinalityType
  <2>3. ~Starts(q)
    <3>1. CASE q > r
      BY <2>1, <3>1 DEF Starts, Launched
    <3>2. CASE q < r
      <4>1. Ended(q)
        <5>1. Launched(r)'
          BY <1>9 DEF Current
        <5>2. QED
          BY <1>1, <1>5, <3>2, <5>1
      <4>2. QED
        BY <4>1 DEF Starts, Ended
    <3>3. QED
      BY <2>2, <3>1, <3>2
  <2>4. Alive(q, k)
    BY <1>2, <1>8, <1>9, <2>3
  <2>5. CASE Launched(r)
    <3>1. Current(r) /\ launcher[r].alone
      BY <1>2, <1>9, <2>1, <2>5, Stays DEF Current
    <3>2. QED
      BY <1>1, <1>9, <2>4, <3>1
  <2>6. CASE ~Launched(r)
    <3>1. Starts(r)
      BY <1>2, <1>9, <2>6, LauncherStep DEF Current, Launched, Quiet, Waits, Dies
    <3>2. ~Alive(q, k)
      BY <1>2, <1>9, <3>1 DEF Starts
    <3>3. QED
      BY <2>4, <3>2
  <2>7. QED
    BY <2>5, <2>6
<1>10. QED
  BY <1>6, <1>9 DEF AloneInv

----------------------------------------------------------------------------
(* The invariant is kept: writes go to the end of the file *)

(* A stream that is safe was so before, since it was launched. *)
LEMMA SafeBefore ==
    ASSUME IInv, Next, NEW p \in Program, NEW s \in Stream, Launched(p), Safe(p, s)'
    PROVE  Safe(p, s) /\ (Flowing(p, s)' => Flowing(p, s))
<1>1. job' = job /\ \A q \in Program : Launched(q) => Launched(q)'
  BY LauncherStep, Stays DEF Launched
<1>2. \A q \in Program : q \in Runs \/ q \in Steps
  BY DEF Program
<1>3. \A q \in Steps : Inherits(q) => Inherits(q)'
  BY FilesStay DEF Inherits, Program
<1>4. CASE p \in Runs
  <2>1. JobSafe(p)'
    BY <1>4 DEF Safe
  <2>2. \A q \in Runs : q \in Program
    BY DEF Program
  <2>3. Current(p)' => Current(p)
    BY <1>1, <2>2 DEF Current
  <2>4. launcher'[p].alone = launcher[p].alone
    BY Stays
  <2>5. JobSafe(p)
    BY <1>1, <1>3, <2>1, <2>3, <2>4 DEF JobSafe
  <2>6. ~Streamed(p)
    BY <1>4, Active, Disjoint
  <2>7. QED
    BY <1>4, <2>5, <2>6 DEF Safe, Flowing
<1>5. CASE p \in Steps
  <2>1. StepSafe(p, s)' /\ StepPath(p, s)' = StepPath(p, s) /\ \A q \in Steps : q \in Program
    BY <1>5, FilesStay, Disjoint DEF Safe, Program
  <2>2. StepSafe(p, s)
    BY <1>1, <2>1 DEF StepSafe
  <2>3. ~StreamOpens(p, s)
    BY <1>5, Active DEF StreamOpens, LaunchStep
  <2>4. thread[<<p, s>>].state = "failed" => thread'[<<p, s>>].state = "failed"
    BY <1>5, <2>3, StreamStep DEF StreamMoves, StreamStill, StreamTakes, StreamReads,
       StreamForwards, StreamEnds, StreamBreaks
  <2>5. QED
    BY <1>5, <2>2, <2>4, FilesStay, Disjoint DEF Safe, Flowing
<1>6. QED
  BY <1>2, <1>4, <1>5

(* Nobody else writes to its file, but a run of a job that appends. *)
LEMMA Foreign ==
    ASSUME IInv, NEW p \in Program, NEW s \in Stream, Safe(p, s),
           NEW q \in Program, NEW t \in Stream, NEW ls \in Seq(Lines), Writes(q, t, ls),
           FileOf(q, t) = FileOf(p, s)
    PROVE  q = p \/ (Appends(p) /\ Appends(q))
<1>1. Launched(p) /\ Launched(q) /\ (p \in Runs \/ p \in Steps) /\ (q \in Runs \/ q \in Steps)
  BY DEF Safe, Writes, Program
<1>2. CASE p \in Runs /\ q \in Runs
  <2>1. job.append \/ (Current(p) /\ ~job.append /\ launcher[p].alone)
    BY <1>2 DEF Safe, JobSafe
  <2>2. \E k \in Rank : Alive(q, k)
    BY <1>2 DEF Writes
  <2>3. QED
    BY <1>2, <2>1, <2>2 DEF Appends, IInv, AloneInv
<1>3. CASE p \in Runs /\ q \in Steps
  <2>1. ~Inherits(q)
    BY <1>3 DEF Safe, JobSafe
  <2>2. StepPath(q, t) # "none"
    BY <1>1, <2>1 DEF Inherits, StepPath
  <2>3. QED
    BY <1>1, <1>3, <2>2, TargetFact
<1>4. CASE p \in Steps
  <2>1. StepSafe(p, s)
    BY <1>4, Disjoint DEF Safe
  <2>2. FileOf(p, s) \notin JobPath
    BY <1>1, <1>4, <2>1, TargetFact DEF StepSafe
  <2>3. QED
    BY <1>1, <2>1, <2>2, TargetFact DEF StepSafe
<1>5. QED
  BY <1>1, <1>2, <1>3, <1>4

(* Streams of a program with one file share a description. *)
LEMMA SameTarget ==
    ASSUME IInv, NEW p \in Program, NEW s \in Stream, Safe(p, s), NEW t \in Stream,
           FileOf(p, t) = FileOf(p, s)
    PROVE  Target(p, t) = Target(p, s)
<1>1. Launched(p) /\ (p \in Runs \/ p \in Steps)
  BY DEF Safe, Program
<1>2. SUFFICES ASSUME t # s PROVE OneFile(p)
  BY <1>1, TargetFact
<1>3. CASE p \in Runs
  BY <1>2, <1>3 DEF OneFile, FileOf, JobFile, Stream
<1>4. CASE p \in Steps
  <2>1. StepPath(p, s) # "none"
    BY <1>4, Disjoint DEF Safe, StepSafe
  <2>2. StepPath(p, t) # "none"
    BY <1>1, <1>4, <2>1, TargetFact
  <2>3. StepPath(p, t) = StepPath(p, s)
    BY <1>1, <1>4, <2>1, <2>2, TargetFact
  <2>4. step[p].out = step[p].err /\ step[p].out # "none"
    BY <1>2, <2>1, <2>3 DEF StepPath, Stream
  <2>5. QED
    BY <1>4, <2>4, Disjoint DEF OneFile, SamePath
<1>5. QED
  BY <1>1, <1>3, <1>4

(* What is written to the file of a safe stream comes at its end. *)
LEMMA AtEnd ==
    ASSUME IInv, NEW p \in Program, NEW s \in Stream, Safe(p, s),
           NEW q \in Program, NEW t \in Stream, NEW ls \in Seq(Lines), Writes(q, t, ls),
           FileOf(q, t) = FileOf(p, s)
    PROVE  /\ file'[FileOf(p, s)] = file[FileOf(p, s)] \o ls
           /\ ~Appends(p) => desc'[Target(p, s)].pos = desc[Target(p, s)].pos + Len(ls)
<1>1. Launched(p) /\ Launched(q) /\ WriteTo(q, t, ls)
  BY DEF Safe, Writes
<1>2. PICK f : f = FileOf(p, s)
  OBVIOUS
<1>3. PICK pos \in Nat :
        /\ pos = IF Appends(q) THEN Len(file[f]) ELSE desc[Target(q, t)].pos
        /\ file'[f] = Overwrite(file[f], pos, ls)
        /\ desc'[Target(q, t)].pos = pos + Len(ls)
  BY <1>1, <1>2, WriteFact
<1>4. Appends(q) \/ (q = p /\ ~Appends(p))
  BY Foreign
<1>5. ~Appends(q) => Target(q, t) = Target(p, s) /\ desc[Target(p, s)].pos = Len(file[f])
  BY <1>2, <1>4, SameTarget DEF IInv, OffsetInv
<1>6. pos = Len(file[f])
  BY <1>3, <1>5
<1>7. file[f] \in Seq(Lines \cup {Hole}) /\ ls \in Seq(Lines \cup {Hole})
  BY <1>1, <1>2, TargetFact, SeqMonotonic DEF IInv, TypeOK
<1>8. file'[f] = file[f] \o ls
  BY <1>3, <1>6, <1>7, WriteAtEnd
<1>9. ~Appends(p) => desc'[Target(p, s)].pos = desc[Target(p, s)].pos + Len(ls)
  BY <1>3, <1>4, <1>5, Foreign
<1>10. QED
  BY <1>2, <1>8, <1>9

(* So the file of a safe stream stays, or grows. *)
LEMMA SafeFile ==
    ASSUME IInv, Next, NEW p \in Program, NEW s \in Stream, Launched(p), Safe(p, s)'
    PROVE  \/ /\ file'[FileOf(p, s)] = file[FileOf(p, s)]
              /\ desc'[Target(p, s)] = desc[Target(p, s)]
           \/ \E q \in Program, t \in Stream, ls \in Seq(Lines) :
                 /\ Writing(q, t, ls)
                 /\ file'[FileOf(p, s)] = file[FileOf(p, s)] \o ls
                 /\ ~Appends(p) => desc'[Target(p, s)].pos = desc[Target(p, s)].pos + Len(ls)
<1> DEFINE Same == /\ file'[FileOf(p, s)] = file[FileOf(p, s)]
                   /\ desc'[Target(p, s)] = desc[Target(p, s)]
           Grows == \E q \in Program, t \in Stream, ls \in Seq(Lines) :
                 /\ Writing(q, t, ls)
                 /\ file'[FileOf(p, s)] = file[FileOf(p, s)] \o ls
                 /\ ~Appends(p) => desc'[Target(p, s)].pos = desc[Target(p, s)].pos + Len(ls)
<1>1. /\ Safe(p, s) /\ (p \in Runs \/ p \in Steps) /\ job' = job
      /\ FileOf(p, s) \in File /\ Target(p, s) \in Program \X Stream
      /\ p \in Runs => FileOf(p, s) \in JobPath
      /\ p \in Steps /\ StepPath(p, s) # "none" => FileOf(p, s) \notin JobPath
  BY SafeBefore, TargetFact, LauncherStep DEF Program
<1>2. Target(p, s) = <<p, "out">> \/ Target(p, s) = <<p, s>>
  BY DEF Target
<1>3. CASE UNCHANGED <<job, step, shared, file, desc>>
  BY <1>3
<1>4. ASSUME NEW q \in Program, NEW t \in Stream, NEW ls \in Seq(Lines), Writing(q, t, ls)
      PROVE  Same \/ Grows
  <2>1. CASE FileOf(q, t) = FileOf(p, s)
    <3>1. Grows
      BY <1>1, <1>4, <2>1, AtEnd DEF Writing
    <3>2. QED
      BY <3>1
  <2>2. CASE FileOf(q, t) # FileOf(p, s)
    <3>1. Launched(q) /\ WriteTo(q, t, ls)
      BY <1>4 DEF Writing, Writes
    <3>2. Target(q, t) # Target(p, s)
      BY <1>1, <2>2, <3>1, TargetFact
    <3>3. QED
      BY <1>1, <2>2, <3>1, <3>2, WriteFact
  <2>3. QED
    BY <2>1, <2>2
<1>5. ASSUME NEW r \in Runs, LaunchRun(r)
      PROVE  Same
  <2>1. /\ launcher[r].state = "idle" /\ \A q \in Runs : q < r => Ended(q)
        /\ desc' = [c \in Program \X Stream |-> IF c[1] = r THEN Opened(JobFile(c[2])) ELSE desc[c]]
        /\ file' = IF job.append THEN file ELSE Emptied({JobFile(t) : t \in Stream})
        /\ r \in Program /\ Begin(r)
    BY <1>5 DEF LaunchRun, Program
  <2>2. p # r
    BY <2>1 DEF Launched
  <2>3. desc'[Target(p, s)] = desc[Target(p, s)]
    BY <1>1, <1>2, <2>1, <2>2
  <2>4. p \in Runs => job.append
    <3>1. SUFFICES ASSUME p \in Runs, ~job.append PROVE FALSE
      OBVIOUS
    <3>2. Current(p)'
      BY <1>1, <3>1 DEF Safe, JobSafe
    <3>3. Launched(r)'
      BY <2>1, Begins DEF Starts, Launched
    <3>4. r < p
      <4>1. Runs \subseteq Nat
        BY OutputAssumption, FS_CardinalityType
      <4>2. QED
        BY <2>2, <3>1, <3>2, <3>3, <4>1 DEF Current
    <3>5. Ended(r)
      BY <3>1, <3>4 DEF IInv, AloneInv
    <3>6. QED
      BY <2>1, <3>5 DEF Ended
  <2>5. p \in Steps => FileOf(p, s) \notin {JobFile(t) : t \in Stream}
    <3>1. SUFFICES ASSUME p \in Steps PROVE FileOf(p, s) \notin JobPath
      BY DEF JobFile, JobPath
    <3>2. StepPath(p, s) # "none"
      BY <1>1, <3>1, Disjoint DEF Safe, StepSafe
    <3>3. QED
      BY <1>1, <3>1, <3>2
  <2>6. file'[FileOf(p, s)] = file[FileOf(p, s)]
    BY <1>1, <2>1, <2>4, <2>5 DEF Emptied
  <2>7. QED
    BY <2>3, <2>6
<1>6. ASSUME NEW q \in Steps, NEW r \in Runs, NEW o \in job.steps, LaunchStep(q, r, o)
      PROVE  Same
  <2>1. /\ client[q] = "idle" /\ q \in Program /\ Begin(q)
        /\ desc' = [c \in Program \X Stream |->
                      IF c[1] = q THEN Opened(StepFile(r, o, c[2])) ELSE desc[c]]
        /\ file' = Emptied({o.out, o.err} \cap File)
    BY <1>6 DEF LaunchStep, Program
  <2>2. ~Launched(q) /\ launcher[q].state = "idle"
    BY <2>1, Active DEF Launched
  <2>3. p # q
    BY <2>2
  <2>4. desc'[Target(p, s)] = desc[Target(p, s)]
    BY <1>1, <1>2, <2>1, <2>3
  <2>5. p \in Runs
    <3>1. SUFFICES ASSUME p \in Steps PROVE FALSE
      BY <1>1
    <3>2. ~Launched(q)'
      BY <2>3, <3>1, Disjoint DEF Safe, StepSafe
    <3>3. QED
      BY <2>1, <2>2, <3>2, Begins DEF Starts, Launched
  <2>6. FileOf(p, s) \notin {o.out, o.err} \cap File
    <3>1. o.out \in {"none", "step.out"} /\ o.err \in {"none", "step.out", "step.err"}
      BY Ranks DEF StepOption, IInv
    <3>2. QED
      BY <1>1, <2>5, <3>1 DEF JobPath
  <2>7. file'[FileOf(p, s)] = file[FileOf(p, s)]
    BY <1>1, <2>1, <2>6 DEF Emptied
  <2>8. QED
    BY <2>4, <2>7
<1>7. QED
  BY <1>3, <1>4, <1>5, <1>6, FileStep

LEMMA OffsetNext ==
    ASSUME IInv, Next
    PROVE  OffsetInv'
<1> SUFFICES ASSUME NEW p \in Program, NEW s \in Stream, Safe(p, s)', ~Appends(p)'
             PROVE  desc'[Target(p, s)'].pos = Len(file'[FileOf(p, s)'])
  BY DEF OffsetInv
<1>1. CASE Launched(p)
  <2>1. /\ FileOf(p, s)' = FileOf(p, s) /\ Target(p, s)' = Target(p, s) /\ ~Appends(p)
        /\ Safe(p, s)
    BY <1>1, FilesStay, SafeBefore
  <2>2. PICK f, T : f = FileOf(p, s) /\ T = Target(p, s)
    OBVIOUS
  <2>3. desc[T].pos = Len(file[f]) /\ file[f] \in Seq(Lines \cup {Hole})
    BY <1>1, <2>1, <2>2, TargetFact DEF IInv, OffsetInv, TypeOK
  <2>4. ASSUME NEW ls \in Seq(Lines), file'[f] = file[f] \o ls, desc'[T].pos = desc[T].pos + Len(ls)
        PROVE  desc'[T].pos = Len(file'[f])
    <3>1. ls \in Seq(Lines \cup {Hole})
      BY SeqMonotonic
    <3>2. Len(file'[f]) = Len(file[f]) + Len(ls)
      BY <2>3, <2>4, <3>1, ConcatProperties
    <3>3. QED
      BY <2>3, <2>4, <3>2
  <2>5. desc'[T].pos = Len(file'[f])
    BY <1>1, <2>1, <2>2, <2>3, <2>4, SafeFile
  <2>6. QED
    BY <2>1, <2>2, <2>5
<1>2. CASE ~Launched(p)
  <2>1. Launched(p)' /\ Target(p, s)' \in {<<p, "out">>, <<p, s>>}
    BY DEF Safe, Target
  <2>2. CASE p \in Runs /\ LaunchRun(p)
    <3>1. /\ desc' = [c \in Program \X Stream |->
                        IF c[1] = p THEN Opened(JobFile(c[2])) ELSE desc[c]]
          /\ file' = Emptied({JobFile(t) : t \in Stream}) /\ job' = job
      BY <2>2 DEF LaunchRun, Appends
    <3>2. desc'[Target(p, s)'].pos = 0
      BY <2>1, <3>1 DEF Opened, Stream
    <3>3. FileOf(p, s)' = JobFile(s) /\ JobFile(s) \in File
      BY <2>2, <3>1 DEF FileOf, JobFile, File
    <3>4. file'[FileOf(p, s)'] = <<>>
      BY <3>1, <3>3 DEF Emptied
    <3>5. QED
      BY <3>2, <3>4
  <2>3. ASSUME p \in Steps, NEW r \in Runs, NEW o \in job.steps, LaunchStep(p, r, o)
        PROVE  desc'[Target(p, s)'].pos = Len(file'[FileOf(p, s)'])
    <3>1. /\ desc' = [c \in Program \X Stream |->
                        IF c[1] = p THEN Opened(StepFile(r, o, c[2])) ELSE desc[c]]
          /\ step' = [step EXCEPT ![p] = [run |-> r, out |-> o.out, err |-> o.err,
                                          label |-> o.label, unbuffered |-> o.unbuffered]]
          /\ file' = Emptied({o.out, o.err} \cap File)
      BY <2>3 DEF LaunchStep
    <3>2. desc'[Target(p, s)'].pos = 0
      BY <2>1, <3>1 DEF Opened, Stream
    <3>3. step'[p].out = o.out /\ step'[p].err = o.err
      BY <2>3, <3>1 DEF IInv, TypeOK
    <3>4. o.out \in {"none", "step.out"} /\ o.err \in {"none", "step.out", "step.err"}
      BY Ranks DEF StepOption, IInv
    <3>5. StepPath(p, s)' # "none" /\ FileOf(p, s)' = StepPath(p, s)'
      BY <2>3, <3>3, Disjoint DEF Safe, StepSafe, StepPath, FileOf, StepFile
    <3>6. FileOf(p, s)' \in {o.out, o.err} \cap File
      BY <3>3, <3>4, <3>5 DEF StepPath, File
    <3>7. file'[FileOf(p, s)'] = <<>>
      BY <3>1, <3>6 DEF Emptied
    <3>8. QED
      BY <3>2, <3>7
  <2>4. QED
    BY <1>2, <2>1, <2>2, <2>3, LaunchIs DEF Launched
<1>3. QED
  BY <1>1, <1>2

----------------------------------------------------------------------------
(* The invariant is kept: no line is lost *)

(* What is on its way and in the files is a sequence of lines. *)
LEMMA OnTheWay ==
    ASSUME IInv, NEW p \in Program, NEW s \in Stream, Launched(p)
    PROVE  /\ file[FileOf(p, s)] \in Seq(AllOwn \cup {Hole})
           /\ Buf(p, s) \in Seq(AllOwn \cup {Hole}) /\ Pipe(p, s) \in Seq(AllOwn \cup {Hole})
           /\ \A k \in Rank : sed[<<p, s>>][k] \in Seq(AllOwn \cup {Hole})
<1>1. Own(p, s) \subseteq AllOwn \cup {Hole} /\ \A k : OwnOf(p, s, k) \subseteq AllOwn \cup {Hole}
  BY OwnLines DEF AllOwn
<1>2. <<>> \in Seq(AllOwn \cup {Hole})
  BY EmptySeq
<1>3. /\ file[FileOf(p, s)] \in Seq(AllOwn \cup {Hole})
      /\ p \in Steps => pipe[<<p, s>>] \in Seq(Own(p, s)) /\ thread[<<p, s>>].buf \in Seq(Own(p, s))
      /\ \A k \in Rank : sed[<<p, s>>][k] \in Seq(OwnOf(p, s, k))
  BY TargetFact DEF IInv, LinesInv
<1>4. QED
  BY <1>1, <1>2, <1>3, SeqMonotonic DEF Buf, Pipe

(* Where there is no forwarder, and no sed *)
LEMMA NoForwarder ==
    ASSUME IInv, NEW p \in Program, NEW s \in Stream
    PROVE  /\ ~Streamed(p) => Buf(p, s) = <<>> /\ Pipe(p, s) = <<>>
           /\ ~Labelled(p) => \A k \in Rank : sed[<<p, s>>][k] = <<>>
BY DEF IInv, ThreadInv, Buf, Pipe

(* A line that is new is related to lines of the same task only as the     *)
(* later one.                                                              *)
LEMMA NewIsLast ==
    ASSUME IInv, NEW p \in Program, NEW k \in Rank, NEW s \in Stream, PrintLine(p, k, s),
           NEW h, h = Line(p, s, Len(sent[<<p, s>>]) + 1)
    PROVE  /\ h \notin AllOwn \cup {Hole}
           /\ \A x, y : <<x, y>> \in Later(p, s)' => <<x, y>> \in Later(p, s) \/ x = h
           /\ \A x : <<x, h>> \notin Later(p, s)
<1>1. /\ sent'[<<p, s>>] = Append(sent[<<p, s>>], k)
      /\ DOMAIN sent'[<<p, s>>] = 1 .. Len(sent[<<p, s>>]) + 1
      /\ DOMAIN sent[<<p, s>>] = 1 .. Len(sent[<<p, s>>]) /\ Len(sent[<<p, s>>]) \in Nat
      /\ sent[<<p, s>>] \in Seq(Rank)
  <2>1. sent[<<p, s>>] \in Seq(Rank)
    BY DEF IInv, TypeOK
  <2>2. QED
    BY <2>1, NewLine
<1>2. h # Hole
  <2>1. Len(<<"hole">>) = 1 /\ \A i : Len(<<p, s, i>>) = 3
    OBVIOUS
  <2>2. QED
    BY <2>1 DEF Line, Hole
<1>3. h \notin AllOwn
  <2>1. SUFFICES ASSUME NEW q \in Program, NEW t \in Stream, NEW i \in DOMAIN sent[<<q, t>>],
                        h = Line(q, t, i)
                 PROVE  FALSE
    <3>1. h \in AllOwn => \E q \in Program, t \in Stream : h \in Own(q, t)
      BY DEF AllOwn
    <3>2. QED
      BY <3>1 DEF Own
  <2>2. q = p /\ t = s /\ i = Len(sent[<<p, s>>]) + 1
    BY <2>1 DEF Line
  <2>3. QED
    BY <1>1, <2>1, <2>2
<1>4. ASSUME NEW x, NEW y, <<x, y>> \in Later(p, s)', x # h
      PROVE  <<x, y>> \in Later(p, s)
  <2>1. PICK i, j \in DOMAIN sent'[<<p, s>>] :
           /\ <<x, y>> = <<Line(p, s, i), Line(p, s, j)>>
           /\ sent'[<<p, s>>][i] = sent'[<<p, s>>][j] /\ j <= i
    BY <1>4 DEF Later
  <2>2. x = Line(p, s, i) /\ y = Line(p, s, j)
    BY <2>1
  <2>3. i # Len(sent[<<p, s>>]) + 1
    BY <1>4, <2>2
  <2>4. i \in DOMAIN sent[<<p, s>>] /\ j \in DOMAIN sent[<<p, s>>]
    BY <1>1, <2>1, <2>3
  <2>5. sent'[<<p, s>>][i] = sent[<<p, s>>][i] /\ sent'[<<p, s>>][j] = sent[<<p, s>>][j]
    BY <1>1, <2>4, AppendProperties
  <2>6. x \in Own(p, s) /\ y \in Own(p, s)
    BY <2>2, <2>4 DEF Own
  <2>7. QED
    BY <2>1, <2>4, <2>5, <2>6 DEF Later
<1>5. \A x : <<x, h>> \notin Later(p, s)
  <2>1. h \notin Own(p, s)
    BY <1>3 DEF AllOwn
  <2>2. QED
    BY <2>1 DEF Later
<1>6. QED
  BY <1>2, <1>3, <1>4, <1>5

LEMMA WayExtend ==
    ASSUME NEW A, NEW F \in Seq(A), NEW B \in Seq(A), NEW P \in Seq(A), NEW Z \in Seq(A), NEW R,
           Way(F, B, P, Z, R), NEW h, h \notin A, NEW S,
           \A x, y : <<x, y>> \in S => <<x, y>> \in R \/ x = h,
           \A x : <<x, h>> \notin R
    PROVE  /\ Way(F, B, P, Z, S)
           /\ Precede(F, <<h>>, S) /\ Precede(B, <<h>>, S) /\ Precede(P, <<h>>, S)
           /\ Precede(Z, <<h>>, S)
<1>1. \A T \in Seq(A) : \A m \in DOMAIN T : T[m] # h
  BY LenProperties
<1>2. \A T \in Seq(A) : Ordered(T, R) => Ordered(T, S)
  BY <1>1 DEF Ordered
<1>3. \A T \in Seq(A), U \in Seq(A) : Precede(T, U, R) => Precede(T, U, S)
  BY <1>1 DEF Precede
<1>4. \A T \in Seq(A) : Precede(T, <<h>>, S)
  <2>1. ASSUME NEW T \in Seq(A), NEW m \in DOMAIN T
        PROVE  <<T[m], h>> \notin S
    BY <1>1, <2>1
  <2>2. QED
    BY <2>1, One DEF Precede
<1>5. QED
  BY <1>2, <1>3, <1>4 DEF Way

(* What a step has to show of the lines of a stream *)
Arrives(p, s, F, B, P, Z) ==
    /\ file'[FileOf(p, s)] = F /\ Buf(p, s)' = B /\ Pipe(p, s)' = P
    /\ \A k \in Rank : sed'[<<p, s>>][k] = Z[k]
Keeps(p, s, F, B, P, Z) ==
    \A k \in Rank :
        /\ Way(F, B, P, Z[k], Later(p, s)')
        /\ \A x : OnWay(file[FileOf(p, s)], Buf(p, s), Pipe(p, s), sed[<<p, s>>][k], x)
                     => OnWay(F, B, P, Z[k], x)
        /\ PrintLine(p, k, s) => OnWay(F, B, P, Z[k], Line(p, s, Len(sent[<<p, s>>]) + 1))

LEMMA FlowFrom ==
    ASSUME IInv, Next, NEW p \in Program, NEW s \in Stream, Launched(p), Flow(p, s),
           NEW F, NEW B, NEW P, NEW Z, Arrives(p, s, F, B, P, Z), Keeps(p, s, F, B, P, Z)
    PROVE  Flow(p, s)'
<1>1. file'[FileOf(p, s)'] = F
  BY FilesStay DEF Arrives
<1>2. sent[<<p, s>>] \in Seq(Rank) /\ sent'[<<p, s>>] \in Seq(Rank)
  <2>1. sent[<<p, s>>] \in Seq(Rank)
    BY DEF IInv, TypeOK
  <2>2. QED
    BY <2>1, SentStep
<1>3. ASSUME NEW i \in DOMAIN sent'[<<p, s>>]
      PROVE  OnWay(F, B, P, Z[sent'[<<p, s>>][i]], Line(p, s, i))
  <2>1. CASE i \in DOMAIN sent[<<p, s>>]
    <3>1. sent'[<<p, s>>][i] = sent[<<p, s>>][i] /\ sent[<<p, s>>][i] \in Rank
      BY <1>2, <2>1, OwnGrows, LenProperties
    <3>2. OnWay(file[FileOf(p, s)], Buf(p, s), Pipe(p, s), sed[<<p, s>>][sent[<<p, s>>][i]],
                Line(p, s, i))
      BY <2>1 DEF Flow
    <3>3. QED
      BY <3>1, <3>2 DEF Keeps
  <2>2. CASE i \notin DOMAIN sent[<<p, s>>]
    <3>1. PICK k \in Rank : PrintLine(p, k, s)
      BY <1>3, <2>2, SentStep
    <3>2. /\ DOMAIN sent'[<<p, s>>] = 1 .. Len(sent[<<p, s>>]) + 1
          /\ DOMAIN sent[<<p, s>>] = 1 .. Len(sent[<<p, s>>]) /\ Len(sent[<<p, s>>]) \in Nat
          /\ sent'[<<p, s>>][Len(sent[<<p, s>>]) + 1] = k
      BY <3>1, NewLine
    <3>3. i = Len(sent[<<p, s>>]) + 1
      BY <1>3, <2>2, <3>2
    <3>4. QED
      BY <3>1, <3>2, <3>3 DEF Keeps
  <2>3. QED
    BY <2>1, <2>2
<1>4. \A i \in DOMAIN sent'[<<p, s>>] : sent'[<<p, s>>][i] \in Rank
  BY <1>2, LenProperties
<1>5. QED
  BY <1>1, <1>3, <1>4 DEF Flow, Arrives, Keeps

LEMMA FlowPrint ==
    ASSUME IInv, Next, NEW p \in Program, NEW s \in Stream, Safe(p, s), Flow(p, s),
           NEW k \in Rank, PrintLine(p, k, s)
    PROVE  Flow(p, s)'
<1>1. Launched(p) /\ Alive(p, k) /\ FileOf(p, s)' = FileOf(p, s)
  BY NewLine, FilesStay DEF Safe
<1>2. PICK h : h = Line(p, s, Len(sent[<<p, s>>]) + 1)
  OBVIOUS
<1>3. PICK A, C, F, B, P, Z, R, S :
        /\ A = AllOwn \cup {Hole} /\ C = A \cup {h}
        /\ F = file[FileOf(p, s)] /\ B = Buf(p, s) /\ P = Pipe(p, s) /\ Z = sed[<<p, s>>]
        /\ R = Later(p, s) /\ S = Later(p, s)'
  OBVIOUS
<1>4. /\ F \in Seq(A) /\ B \in Seq(A) /\ P \in Seq(A) /\ \A l \in Rank : Z[l] \in Seq(A)
      /\ \A l \in Rank : Way(F, B, P, Z[l], R)
      /\ h \notin A /\ \A x, y : <<x, y>> \in S => <<x, y>> \in R \/ x = h
      /\ \A x : <<x, h>> \notin R
  <2>1. F \in Seq(A) /\ B \in Seq(A) /\ P \in Seq(A) /\ \A l \in Rank : Z[l] \in Seq(A)
    BY <1>1, <1>3, OnTheWay
  <2>2. \A l \in Rank : Way(F, B, P, Z[l], R)
    BY <1>3 DEF Flow
  <2>3. /\ h \notin A /\ \A x, y : <<x, y>> \in S => <<x, y>> \in R \/ x = h
        /\ \A x : <<x, h>> \notin R
    BY <1>2, <1>3, NewIsLast
  <2>4. QED
    BY <2>1, <2>2, <2>3
<1>5. \A l \in Rank : /\ Way(F, B, P, Z[l], S)
                      /\ Precede(F, <<h>>, S) /\ Precede(B, <<h>>, S) /\ Precede(P, <<h>>, S)
                      /\ Precede(Z[l], <<h>>, S)
  BY <1>4, WayExtend
<1>6. /\ F \in Seq(C) /\ B \in Seq(C) /\ P \in Seq(C) /\ \A l \in Rank : Z[l] \in Seq(C)
      /\ h \in C
  BY <1>3, <1>4, SeqMonotonic
<1>7. sed' = sed \/ sed' = [sed EXCEPT ![<<p, s>>][k] = Append(@, h)]
  BY <1>2 DEF PrintLine
<1>8. sed \in [Program \X Stream -> [Rank -> Seq(Lines)]]
  BY DEF IInv, TypeOK
<1> DEFINE Shows(F2, B2, P2, Z2) ==
        \A l \in Rank : /\ Way(F2, B2, P2, Z2[l], S)
                        /\ \A x : OnWay(F, B, P, Z[l], x) => OnWay(F2, B2, P2, Z2[l], x)
                        /\ l = k => OnWay(F2, B2, P2, Z2[l], h)
<1>9. \A l \in Rank : PrintLine(p, l, s) => l = k
  <2>1. SUFFICES ASSUME NEW l \in Rank, PrintLine(p, l, s)
                 PROVE  l = k
    OBVIOUS
  <2>2. PICK n : n = Len(sent[<<p, s>>]) + 1
    OBVIOUS
  <2>3. sent'[<<p, s>>][n] = k
    BY <2>2, NewLine
  <2>4. sent'[<<p, s>>][n] = l
    BY <2>1, <2>2, NewLine
  <2>5. QED
    BY <2>3, <2>4
<1>10. CASE Labelled(p)
  <2>1. PICK Z2 : Z2 = [Z EXCEPT ![k] = Z[k] \o <<h>>]
    OBVIOUS
  <2>2. /\ sed' = [sed EXCEPT ![<<p, s>>][k] = Append(@, h)]
        /\ UNCHANGED <<file, pipe, thread>>
    BY <1>2, <1>10 DEF PrintLine
  <2>3. Append(Z[k], h) = Z[k] \o <<h>>
    BY <1>6, AppendIsConcat
  <2>4. sed'[<<p, s>>] = Z2 /\ Z2[k] = Z[k] \o <<h>> /\ \A l \in Rank \ {k} : Z2[l] = Z[l]
    BY <1>3, <1>8, <2>1, <2>2, <2>3
  <2>5. file'[FileOf(p, s)] = F /\ Buf(p, s)' = B /\ Pipe(p, s)' = P
    BY <1>3, <2>2 DEF Buf, Pipe
  <2>6. /\ Way(F, B, P, Z[k] \o <<h>>, S)
        /\ \A x : OnWay(F, B, P, Z[k], x) \/ x = h => OnWay(F, B, P, Z[k] \o <<h>>, x)
    BY <1>5, <1>6, WayNew
  <2>7. Shows(F, B, P, Z2)
    BY <1>5, <2>4, <2>6
  <2>8. Arrives(p, s, F, B, P, Z2) /\ Keeps(p, s, F, B, P, Z2)
    BY <1>2, <1>3, <1>9, <2>4, <2>5, <2>7 DEF Arrives, Keeps
  <2>9. QED
    BY <1>1, <2>8, FlowFrom
<1>11. CASE ~Labelled(p) /\ Streamed(p)
  <2>1. UNCHANGED <<file, sed, thread>> /\ pipe' = [pipe EXCEPT ![<<p, s>>] = Append(@, h)]
    BY <1>2, <1>11 DEF PrintLine
  <2>2. p \in Steps
    BY <1>11 DEF Streamed
  <2>3. Append(P, h) = P \o <<h>>
    BY <1>6, AppendIsConcat
  <2>4. Pipe(p, s)' = P \o <<h>>
    BY <1>3, <2>1, <2>2, <2>3 DEF Pipe, IInv, TypeOK
  <2>5. file'[FileOf(p, s)] = F /\ Buf(p, s)' = B /\ sed'[<<p, s>>] = Z
    BY <1>3, <2>1 DEF Buf
  <2>6. \A l \in Rank : Z[l] = <<>>
    BY <1>3, <1>11, NoForwarder
  <2>7. \A l \in Rank : Precede(<<h>>, Z[l], S)
    BY <1>6, <2>6, One
  <2>8. Shows(F, B, P \o <<h>>, Z)
    BY <1>5, <1>6, <2>7, WayPush
  <2>9. Arrives(p, s, F, B, P \o <<h>>, Z) /\ Keeps(p, s, F, B, P \o <<h>>, Z)
    BY <1>2, <1>3, <1>9, <2>4, <2>5, <2>8 DEF Arrives, Keeps
  <2>10. QED
    BY <1>1, <2>9, FlowFrom
<1>12. CASE ~Labelled(p) /\ ~Streamed(p)
  <2>1. WriteTo(p, s, <<h>>) /\ UNCHANGED <<sed, pipe, thread>>
    BY <1>2, <1>12 DEF PrintLine
  <2>2. h \in Lines /\ <<h>> \in Seq(Lines)
    BY <1>2, Printing
  <2>3. Writes(p, s, <<h>>)
    BY <1>1, <2>1, <2>2 DEF Writes
  <2>4. file'[FileOf(p, s)] = F \o <<h>>
    BY <1>3, <2>2, <2>3, AtEnd
  <2>5. Buf(p, s)' = B /\ Pipe(p, s)' = P /\ sed'[<<p, s>>] = Z /\ B = <<>> /\ P = <<>>
    BY <1>3, <1>12, <2>1, NoForwarder DEF Buf, Pipe
  <2>6. \A l \in Rank : Z[l] = <<>>
    BY <1>3, <1>12, NoForwarder
  <2>7. \A l \in Rank : Precede(<<h>>, Z[l], S)
    BY <1>6, <2>6, One
  <2>8. Shows(F \o <<h>>, B, P, Z)
    BY <1>5, <1>6, <2>5, <2>7, WayStraight
  <2>9. Arrives(p, s, F \o <<h>>, B, P, Z) /\ Keeps(p, s, F \o <<h>>, B, P, Z)
    BY <1>2, <1>3, <1>9, <2>4, <2>5, <2>8 DEF Arrives, Keeps
  <2>10. QED
    BY <1>1, <2>9, FlowFrom
<1>13. QED
  BY <1>10, <1>11, <1>12

(* The head of a sed's queue is nobody else's line. *)
LEMMA HeadIsOwn ==
    ASSUME IInv, NEW p \in Program, NEW s \in Stream, NEW k \in Rank, sed[<<p, s>>][k] # <<>>,
           NEW l \in Rank, l # k
    PROVE  Precede(<<Head(sed[<<p, s>>][k])>>, sed[<<p, s>>][l], Later(p, s))
<1>1. PICK h, T, R : h = Head(sed[<<p, s>>][k]) /\ T = sed[<<p, s>>][l] /\ R = Later(p, s)
  OBVIOUS
<1>2. sed[<<p, s>>][k] \in Seq(OwnOf(p, s, k)) /\ T \in Seq(OwnOf(p, s, l))
  BY <1>1 DEF IInv, LinesInv
<1>3. h \in OwnOf(p, s, k) /\ \A m \in DOMAIN T : T[m] \in OwnOf(p, s, l)
  BY <1>1, <1>2, HeadTailProperties, LenProperties
<1>4. ASSUME NEW x \in OwnOf(p, s, k), NEW y \in OwnOf(p, s, l)
      PROVE  <<x, y>> \notin R
  <2>1. PICK i, j \in DOMAIN sent[<<p, s>>] :
           /\ x = Line(p, s, i) /\ sent[<<p, s>>][i] = k
           /\ y = Line(p, s, j) /\ sent[<<p, s>>][j] = l
    BY DEF OwnOf
  <2>2. SUFFICES ASSUME NEW a \in DOMAIN sent[<<p, s>>], NEW b \in DOMAIN sent[<<p, s>>],
                        <<x, y>> = <<Line(p, s, a), Line(p, s, b)>>,
                        sent[<<p, s>>][a] = sent[<<p, s>>][b]
                 PROVE  FALSE
    BY <1>1 DEF Later
  <2>3. i = a /\ j = b
    BY <2>1, <2>2 DEF Line
  <2>4. QED
    BY <2>1, <2>2, <2>3
<1>5. Precede(<<h>>, T, R)
  BY <1>3, <1>4, One
<1>6. QED
  BY <1>1, <1>5

(* Nothing is printed to the stream. *)
LEMMA SentSame ==
    ASSUME IInv, NEW p \in Program, NEW s \in Stream, sent'[<<p, s>>] = sent[<<p, s>>]
    PROVE  Later(p, s)' = Later(p, s) /\ \A l \in Rank : ~PrintLine(p, l, s)
<1>1. Later(p, s)' = Later(p, s)
  BY DEF Later, Own
<1>2. ASSUME NEW l \in Rank, PrintLine(p, l, s)
      PROVE  FALSE
  <2>1. Len(sent[<<p, s>>]) \in Nat /\ Len(sent'[<<p, s>>]) = Len(sent[<<p, s>>]) + 1
    BY <1>2, NewLine
  <2>2. QED
    BY <2>1
<1>3. QED
  BY <1>1, <1>2

LEMMA FlowSed ==
    ASSUME IInv, Next, NEW p \in Program, NEW s \in Stream, Safe(p, s), Flowing(p, s), Flow(p, s),
           NEW k \in Rank, SedPrints(p, k, s)
    PROVE  Flow(p, s)'
<1>1. /\ sed[<<p, s>>][k] # <<>> /\ sent' = sent /\ task' = task
      /\ sed' = [sed EXCEPT ![<<p, s>>][k] = Tail(@)]
      /\ Launched(p) /\ p \in Steps
  BY Active DEF SedPrints
<1>2. PICK h, A, F, B, P, Z, R :
        /\ h = Head(sed[<<p, s>>][k]) /\ A = AllOwn \cup {Hole}
        /\ F = file[FileOf(p, s)] /\ B = Buf(p, s) /\ P = Pipe(p, s) /\ Z = sed[<<p, s>>]
        /\ R = Later(p, s)
  OBVIOUS
<1>3. /\ R = Later(p, s)' /\ \A l \in Rank : ~PrintLine(p, l, s)
  BY <1>1, <1>2, SentSame
<1>4. /\ F \in Seq(A) /\ B \in Seq(A) /\ P \in Seq(A) /\ \A l \in Rank : Z[l] \in Seq(A)
  BY <1>1, <1>2, OnTheWay
<1>5. \A l \in Rank : Way(F, B, P, Z[l], R)
  BY <1>2 DEF Flow
<1>6. h \in A
  BY <1>1, <1>2, <1>4, HeadTailProperties
<1>7. /\ Way(F, B, P, Tail(Z[k]), R) /\ Tail(Z[k]) \in Seq(A)
      /\ Precede(F, <<h>>, R) /\ Precede(B, <<h>>, R) /\ Precede(P, <<h>>, R)
      /\ Precede(<<h>>, Tail(Z[k]), R)
      /\ \A x : OnWay(F, B, P, Z[k], x) => OnWay(F, B, P, Tail(Z[k]), x) \/ x = h
  <2>1. Z[k] \in Seq(A) /\ Z[k] # <<>> /\ h = Head(Z[k]) /\ Tail(Z[k]) \in Seq(A)
    BY <1>1, <1>2, <1>4, HeadTailProperties
  <2>2. QED
    BY <1>5, <2>1, WayPop
<1>8. \A l \in Rank : l # k => Precede(<<h>>, Z[l], R)
  BY <1>1, <1>2, HeadIsOwn
<1>9. PICK Z2 : Z2 = [Z EXCEPT ![k] = Tail(Z[k])]
  OBVIOUS
<1>10. sed'[<<p, s>>] = Z2 /\ Z2[k] = Tail(Z[k]) /\ \A l \in Rank : l # k => Z2[l] = Z[l]
  <2>1. sed \in [Program \X Stream -> [Rank -> Seq(Lines)]]
    BY DEF IInv, TypeOK
  <2>2. QED
    BY <1>1, <1>2, <1>9, <2>1
<1>11. \A l \in Rank : /\ Z2[l] \in Seq(A) /\ Way(F, B, P, Z2[l], R) /\ Precede(<<h>>, Z2[l], R)
                       /\ \A x : OnWay(F, B, P, Z[l], x) => OnWay(F, B, P, Z2[l], x) \/ x = h
  BY <1>4, <1>5, <1>7, <1>8, <1>10
<1>12. CASE Streamed(p)
  <2>1. /\ UNCHANGED <<file, thread>> /\ thread[<<p, s>>].state # "failed"
        /\ pipe' = [pipe EXCEPT ![<<p, s>>] = Append(@, h)]
    BY <1>2, <1>12 DEF SedPrints, Flowing
  <2>2. Append(P, h) = P \o <<h>>
    BY <1>4, <1>6, AppendIsConcat
  <2>3. Pipe(p, s)' = P \o <<h>>
    BY <1>1, <1>2, <2>1, <2>2 DEF Pipe, IInv, TypeOK
  <2>4. Arrives(p, s, F, B, P \o <<h>>, Z2)
    BY <1>2, <1>10, <2>1, <2>3 DEF Arrives, Buf
  <2>5. \A l \in Rank :
           /\ Way(F, B, P \o <<h>>, Z2[l], R)
           /\ \A x : OnWay(F, B, P, Z2[l], x) \/ x = h => OnWay(F, B, P \o <<h>>, Z2[l], x)
    BY <1>4, <1>6, <1>7, <1>11, WayPush
  <2>6. Keeps(p, s, F, B, P \o <<h>>, Z2)
    BY <1>2, <1>3, <1>11, <2>5 DEF Keeps
  <2>7. QED
    BY <1>1, <2>4, <2>6, FlowFrom
<1>13. CASE ~Streamed(p)
  <2>1. WriteTo(p, s, <<h>>) /\ UNCHANGED <<pipe, thread>>
    BY <1>2, <1>13 DEF SedPrints
  <2>2. h \in Lines /\ <<h>> \in Seq(Lines)
    BY <1>1, <1>2, Printing
  <2>3. Writes(p, s, <<h>>)
    BY <1>1, <2>1, <2>2, Disjoint DEF Writes
  <2>4. file'[FileOf(p, s)] = F \o <<h>>
    BY <1>2, <2>2, <2>3, AtEnd
  <2>5. Buf(p, s)' = B /\ Pipe(p, s)' = P /\ B = <<>> /\ P = <<>>
    BY <1>2, <1>13, <2>1, NoForwarder DEF Buf, Pipe
  <2>6. Arrives(p, s, F \o <<h>>, B, P, Z2)
    BY <1>10, <2>4, <2>5 DEF Arrives
  <2>7. \A l \in Rank :
           /\ Way(F \o <<h>>, B, P, Z2[l], R)
           /\ \A x : OnWay(F, B, P, Z2[l], x) \/ x = h => OnWay(F \o <<h>>, B, P, Z2[l], x)
    BY <1>4, <1>6, <1>7, <1>11, <2>5, WayStraight
  <2>8. Keeps(p, s, F \o <<h>>, B, P, Z2)
    BY <1>2, <1>3, <1>11, <2>7 DEF Keeps
  <2>9. QED
    BY <1>1, <2>6, <2>8, FlowFrom
<1>14. QED
  BY <1>12, <1>13

LEMMA FlowForwarder ==
    ASSUME IInv, Next, NEW p \in Steps, NEW s \in Stream, Safe(p, s), Flow(p, s),
           ReadPipe(p, s) \/ Forward(p, s)
    PROVE  Flow(p, s)'
<1>1. p \in Program /\ Launched(p) /\ sent' = sent /\ sed' = sed
  BY DEF Program, Safe, ReadPipe, Forward
<1>2. PICK A, F, B, P, Z, R :
        /\ A = AllOwn \cup {Hole}
        /\ F = file[FileOf(p, s)] /\ B = Buf(p, s) /\ P = Pipe(p, s) /\ Z = sed[<<p, s>>]
        /\ R = Later(p, s)
  OBVIOUS
<1>3. R = Later(p, s)' /\ \A l \in Rank : ~PrintLine(p, l, s)
  BY <1>1, <1>2, SentSame
<1>4. F \in Seq(A) /\ B \in Seq(A) /\ P \in Seq(A) /\ \A l \in Rank : Z[l] \in Seq(A)
  BY <1>1, <1>2, OnTheWay
<1>5. \A l \in Rank : Way(F, B, P, Z[l], R)
  BY <1>2 DEF Flow
<1>6. B = thread[<<p, s>>].buf /\ P = pipe[<<p, s>>]
  BY <1>2 DEF Buf, Pipe
<1>7. /\ pipe \in [Steps \X Stream -> Seq(Lines)]
      /\ thread \in [Steps \X Stream -> [state : ThreadState, buf : Seq(Lines)]]
  BY DEF IInv, TypeOK
<1>8. CASE ReadPipe(p, s)
  <2>1. /\ file' = file /\ B = <<>>
        /\ thread' = [thread EXCEPT ![<<p, s>>].buf = P] /\ pipe' = [pipe EXCEPT ![<<p, s>>] = <<>>]
    BY <1>6, <1>8 DEF ReadPipe
  <2>2. Buf(p, s)' = P /\ Pipe(p, s)' = <<>>
    BY <1>7, <2>1 DEF Buf, Pipe
  <2>3. Arrives(p, s, F, P, <<>>, Z)
    BY <1>1, <1>2, <2>1, <2>2 DEF Arrives
  <2>4. \A l \in Rank : /\ Way(F, P, <<>>, Z[l], R)
                        /\ \A x : OnWay(F, B, P, Z[l], x) => OnWay(F, P, <<>>, Z[l], x)
    BY <1>5, <2>1, WayRead
  <2>5. Keeps(p, s, F, P, <<>>, Z)
    BY <1>2, <1>3, <2>4 DEF Keeps
  <2>6. QED
    BY <1>1, <2>3, <2>5, FlowFrom
<1>9. CASE Forward(p, s)
  <2>1. WriteTo(p, s, B) /\ pipe' = pipe /\ thread' = [thread EXCEPT ![<<p, s>>].buf = <<>>]
    BY <1>6, <1>9 DEF Forward
  <2>2. Buf(p, s)' = <<>> /\ Pipe(p, s)' = P
    BY <1>6, <1>7, <2>1 DEF Buf, Pipe
  <2>3. B \in Seq(Lines)
    BY <1>6, <1>7
  <2>4. Writes(p, s, B)
    BY <1>1, <2>1, <2>3, Disjoint DEF Writes
  <2>5. file'[FileOf(p, s)] = F \o B
    BY <1>1, <1>2, <2>3, <2>4, AtEnd
  <2>6. Arrives(p, s, F \o B, <<>>, P, Z)
    BY <1>1, <1>2, <2>2, <2>5 DEF Arrives
  <2>7. \A l \in Rank : /\ Way(F \o B, <<>>, P, Z[l], R)
                        /\ \A x : OnWay(F, B, P, Z[l], x) => OnWay(F \o B, <<>>, P, Z[l], x)
    BY <1>4, <1>5, WayForward
  <2>8. Keeps(p, s, F \o B, <<>>, P, Z)
    BY <1>2, <1>3, <2>7 DEF Keeps
  <2>9. QED
    BY <1>1, <2>6, <2>8, FlowFrom
<1>10. QED
  BY <1>8, <1>9

(* The step is another stream's. *)
LEMMA FlowStill ==
    ASSUME IInv, Next, NEW p \in Program, NEW s \in Stream, Launched(p), Safe(p, s)',
           Flowing(p, s)', Flow(p, s), ~Mover(p, s)
    PROVE  Flow(p, s)'
<1>1. /\ \A k \in Rank : ~PrintLine(p, k, s) /\ ~SedPrints(p, k, s)
      /\ p \in Steps => ~ReadPipe(p, s) /\ ~Forward(p, s)
  BY DEF Mover
<1>2. PICK C, F, B, P, Z, R :
        /\ C = (AllOwn \cup {Hole}) \cup Lines
        /\ F = file[FileOf(p, s)] /\ B = Buf(p, s) /\ P = Pipe(p, s) /\ Z = sed[<<p, s>>]
        /\ R = Later(p, s)
  OBVIOUS
<1>3. sent'[<<p, s>>] = sent[<<p, s>>] /\ \A k \in Rank : sed'[<<p, s>>][k] = Z[k]
  BY <1>1, <1>2, SentStep, SedStep DEF SedTakes, SedGives
<1>4. R = Later(p, s)'
  BY <1>2, <1>3, SentSame
<1>5. Buf(p, s)' = B /\ Pipe(p, s)' = P
  <2>1. CASE p \notin Steps
    BY <1>2, <2>1 DEF Buf, Pipe
  <2>2. CASE p \in Steps
    <3>1. ~StreamOpens(p, s)
      BY <2>2, Active DEF StreamOpens, LaunchStep
    <3>2. \/ StreamStill(p, s) \/ StreamEnds(p, s) \/ StreamBreaks(p, s)
      BY <1>1, <2>2, <3>1, StreamStep DEF StreamMoves, StreamReads, StreamForwards
    <3>3. CASE StreamBreaks(p, s)
      <4>1. /\ thread[<<p, s>>].state # "none" <=> Streamed(p)
            /\ thread[<<p, s>>].state # "reading" => pipe[<<p, s>>] = <<>>
        BY <2>2 DEF IInv, ThreadInv
      <4>2. thread[<<p, s>>].state # "reading"
        BY <3>3, <4>1, FilesStay DEF StreamBreaks, Flowing
      <4>3. QED
        BY <1>2, <2>2, <3>3, <4>1, <4>2 DEF StreamBreaks, Buf, Pipe
    <3>4. QED
      BY <1>2, <2>2, <3>2, <3>3 DEF StreamStill, StreamEnds, Buf, Pipe
  <2>3. QED
    BY <2>1, <2>2
<1>6. \A l \in Rank : Way(F, B, P, Z[l], R)
  BY <1>2 DEF Flow
<1>7. CASE file'[FileOf(p, s)] = F
  <2>1. Arrives(p, s, F, B, P, Z)
    BY <1>3, <1>5, <1>7 DEF Arrives
  <2>2. Keeps(p, s, F, B, P, Z)
    BY <1>1, <1>2, <1>4, <1>6 DEF Keeps
  <2>3. QED
    BY <2>1, <2>2, FlowFrom
<1>8. ASSUME NEW q \in Program, NEW t \in Stream, NEW ls \in Seq(Lines), Writing(q, t, ls),
             file'[FileOf(p, s)] = F \o ls
      PROVE  Flow(p, s)'
  <2>1. q # p \/ t # s
    BY <1>8 DEF Writing
  <2>2. ASSUME NEW m \in DOMAIN ls, NEW x
        PROVE  <<ls[m], x>> \notin R /\ <<x, ls[m]>> \notin R
    <3>1. ls[m] \in Own(q, t)'
      BY <1>8 DEF Writing
    <3>2. PICK i : ls[m] = Line(q, t, i)
      BY <3>1 DEF Own
    <3>3. ls[m] \notin Own(p, s)
      BY <2>1, <3>2 DEF Own, Line
    <3>4. QED
      BY <1>2, <3>3 DEF Later
  <2>3. /\ F \in Seq(C) /\ B \in Seq(C) /\ P \in Seq(C) /\ \A l \in Rank : Z[l] \in Seq(C)
        /\ ls \in Seq(C)
    <3>1. AllOwn \cup {Hole} \subseteq C /\ Lines \subseteq C
      BY <1>2
    <3>2. QED
      BY <1>2, <3>1, OnTheWay, SeqMonotonic
  <2>4. \A l \in Rank : /\ Way(F \o ls, B, P, Z[l], R)
                        /\ \A x : OnWay(F, B, P, Z[l], x) => OnWay(F \o ls, B, P, Z[l], x)
    BY <1>6, <2>2, <2>3, WayForeign
  <2>5. Arrives(p, s, F \o ls, B, P, Z)
    BY <1>3, <1>5, <1>8 DEF Arrives
  <2>6. Keeps(p, s, F \o ls, B, P, Z)
    BY <1>1, <1>2, <1>4, <2>4 DEF Keeps
  <2>7. QED
    BY <2>5, <2>6, FlowFrom
<1>9. QED
  BY <1>2, <1>7, <1>8, SafeFile

LEMMA FlowNext ==
    ASSUME IInv, Next
    PROVE  FlowInv'
<1> SUFFICES ASSUME NEW p \in Program, NEW s \in Stream, Safe(p, s)', Flowing(p, s)'
             PROVE  Flow(p, s)'
  BY DEF FlowInv
<1>1. CASE Launched(p)
  <2>1. Safe(p, s) /\ Flowing(p, s)
    BY <1>1, SafeBefore
  <2>2. Flow(p, s)
    BY <2>1 DEF IInv, FlowInv
  <2>3. CASE Mover(p, s)
    BY <2>1, <2>2, <2>3, FlowPrint, FlowSed, FlowForwarder DEF Mover
  <2>4. CASE ~Mover(p, s)
    BY <1>1, <2>2, <2>4, FlowStill
  <2>5. QED
    BY <2>3, <2>4
<1>2. CASE ~Launched(p)
  <2>1. sent[<<p, s>>] = <<>>
    BY <1>2 DEF IInv, IdleInv
  <2>2. sent'[<<p, s>>] = <<>>
    BY <1>2, <2>1, SentStep, NewLine, Active
  <2>3. DOMAIN sent'[<<p, s>>] = {}
    BY <2>2
  <2>4. \A w : w \notin Later(p, s)'
    BY <2>3 DEF Later
  <2>5. QED
    BY <2>3, <2>4 DEF Flow, Way, Ordered, Precede
<1>3. QED
  BY <1>1, <1>2

----------------------------------------------------------------------------
(* The theorems *)

LEMMA Stutter ==
    ASSUME IInv, UNCHANGED vars
    PROVE  IInv'
<1>1. TypeOK' /\ IdleInv'
  BY DEF vars, IInv, TypeOK, IdleInv, Launched
<1>2. LinesInv'
  <2>1. \A p \in Program, s \in Stream : Own(p, s)' = Own(p, s)
    BY DEF vars, Own
  <2>2. \A p \in Program, s \in Stream, k \in Rank : OwnOf(p, s, k)' = OwnOf(p, s, k)
    BY DEF vars, OwnOf
  <2>3. AllOwn' = AllOwn
    BY <2>1 DEF AllOwn
  <2>4. \A p \in Steps : p \in Program
    BY DEF Program
  <2>5. QED
    BY <2>1, <2>2, <2>3, <2>4 DEF vars, IInv, LinesInv
<1>3. LaunchedInv'
  BY DEF vars, IInv, LaunchedInv, Launched, FileOf, OneFile, JobFile, StepFile
<1>4. ThreadInv' /\ ClientInv'
  BY DEF vars, IInv, ThreadInv, ClientInv, Labelled, Streamed, Held, Alive
<1>5. StatusInv' /\ AloneInv'
  BY DEF vars, IInv, StatusInv, AloneInv, Launched, Current, Ended, Alive
<1>6. \A p \in Program, s \in Stream :
         /\ Safe(p, s)' <=> Safe(p, s)
         /\ Flowing(p, s)' <=> Flowing(p, s)
         /\ Appends(p)' <=> Appends(p)
         /\ FileOf(p, s)' = FileOf(p, s) /\ Target(p, s)' = Target(p, s)
         /\ Later(p, s)' = Later(p, s) /\ Buf(p, s)' = Buf(p, s) /\ Pipe(p, s)' = Pipe(p, s)
  <2> SUFFICES ASSUME NEW p \in Program, NEW s \in Stream
               PROVE  /\ Safe(p, s)' <=> Safe(p, s)
                      /\ Flowing(p, s)' <=> Flowing(p, s)
                      /\ Appends(p)' <=> Appends(p)
                      /\ FileOf(p, s)' = FileOf(p, s) /\ Target(p, s)' = Target(p, s)
                      /\ Later(p, s)' = Later(p, s) /\ Buf(p, s)' = Buf(p, s)
                      /\ Pipe(p, s)' = Pipe(p, s)
    OBVIOUS
  <2>1. Safe(p, s)' <=> Safe(p, s)
    BY DEF vars, Safe, JobSafe, StepSafe, StepPath, Launched, Current, Inherits
  <2>2. /\ Flowing(p, s)' <=> Flowing(p, s)
        /\ Appends(p)' <=> Appends(p)
    BY DEF vars, Flowing, Streamed, Appends
  <2>3. FileOf(p, s)' = FileOf(p, s) /\ Target(p, s)' = Target(p, s)
    BY DEF vars, FileOf, JobFile, StepFile, Target
  <2>4. Later(p, s)' = Later(p, s) /\ Buf(p, s)' = Buf(p, s) /\ Pipe(p, s)' = Pipe(p, s)
    BY DEF vars, Later, Own, Buf, Pipe
  <2>5. QED
    BY <2>1, <2>2, <2>3, <2>4
<1>7. OffsetInv'
  BY <1>6 DEF vars, IInv, OffsetInv
<1>8. FlowInv'
  BY <1>6 DEF vars, IInv, FlowInv, Flow
<1>9. QED
  BY <1>1, <1>2, <1>3, <1>4, <1>5, <1>7, <1>8 DEF IInv

THEOREM Inductive == Spec => []IInv
<1>1. IInv /\ [Next]_vars => IInv'
  <2>1. CASE UNCHANGED vars
    BY <2>1, Stutter
  <2>2. ASSUME IInv, Next PROVE IInv'
    BY <2>2, TypeNext, LinesNext, IdleNext, LaunchedNext, ThreadNext, ClientNext, StatusNext,
       AloneNext, OffsetNext, FlowNext DEF IInv
  <2>3. QED
    BY <2>1, <2>2
<1>2. QED
  BY <1>1, InitHolds, PTL DEF Spec

(* The variables keep their types. *)
THEOREM TypeCorrect == Spec => []TypeOK
<1>1. IInv => TypeOK
  BY DEF IInv
<1>2. QED
  BY <1>1, Inductive, PTL

(* The launcher script returns 0 exactly when every task did, whatever the *)
(* order in which they end and however many there are: the `wait` loop of  *)
(* the launcher and its slotd_status.                                      *)
THEOREM StatusIsOfAllTasks == Spec => []StatusOfAllTasks
<1>1. IInv => StatusOfAllTasks
  <2>1. SUFFICES ASSUME IInv, NEW p \in Program, launcher[p].state = "exited"
                 PROVE  launcher[p].status = "ok" <=> \A k \in Rank : task[<<p, k>>].code = "ok"
    BY DEF StatusOfAllTasks
  <2>2. /\ launcher[p].waited = job.tasks
        /\ launcher[p].status = "ok" <=>
              \A k \in Rank : k < launcher[p].waited => task[<<p, k>>].code = "ok"
        /\ \A k \in Rank : k >= job.tasks => task[<<p, k>>].code = "ok"
    BY <2>1 DEF IInv, StatusInv
  <2>3. \A k \in Rank : k < job.tasks \/ k >= job.tasks
    BY <2>1, Ranks DEF IInv
  <2>4. QED
    BY <2>2, <2>3
<1>2. QED
  BY <1>1, Inductive, PTL

(* When nothing is on its way, the lines are in the file. *)
LEMMA Arrived ==
    ASSUME IInv, NEW p \in Program, NEW s \in Stream, Safe(p, s), Flowing(p, s),
           Buf(p, s) = <<>>, Pipe(p, s) = <<>>, \A k \in Rank : sed[<<p, s>>][k] = <<>>
    PROVE  Kept(p, s)
<1>1. PICK f : f = file[FileOf(p, s)]
  OBVIOUS
<1>2. file[desc[Target(p, s)].file] = f /\ f \in Seq(Lines \cup {Hole})
  BY <1>1, TargetFact DEF Safe, IInv, TypeOK
<1>3. sent[<<p, s>>] \in Seq(Rank)
  BY DEF IInv, TypeOK
<1>4. Flow(p, s)
  BY DEF IInv, FlowInv
<1>5. 0 \in Rank
  BY Ranks DEF IInv
<1>6. Ordered(f, Later(p, s))
  BY <1>1, <1>4, <1>5 DEF Flow, Way
<1>7. ASSUME NEW i \in DOMAIN sent[<<p, s>>]
      PROVE  \E n \in DOMAIN f :
                /\ f[n] = Line(p, s, i)
                /\ \A m \in 1 .. n, j \in DOMAIN sent[<<p, s>>] :
                       f[m] = Line(p, s, j) /\ sent[<<p, s>>][i] = sent[<<p, s>>][j] => j <= i
  <2>1. Has(f, Line(p, s, i))
    <3>1. OnWay(f, <<>>, <<>>, <<>>, Line(p, s, i))
      <4>1. sent[<<p, s>>][i] \in Rank
        BY <1>3, LenProperties
      <4>2. QED
        BY <1>1, <1>4, <4>1 DEF Flow
    <3>2. QED
      BY <3>1 DEF OnWay, Has
  <2>2. PICK n \in DOMAIN f : f[n] = Line(p, s, i)
    BY <2>1 DEF Has
  <2>3. ASSUME NEW m \in 1 .. n, NEW j \in DOMAIN sent[<<p, s>>],
               f[m] = Line(p, s, j), sent[<<p, s>>][i] = sent[<<p, s>>][j], ~(j <= i)
        PROVE  FALSE
    <3>1. i \in Nat /\ j \in Nat /\ n \in Nat /\ m \in DOMAIN f
      BY <1>2, <1>3, LenProperties
    <3>2. m # n
      BY <2>2, <2>3, <3>1 DEF Line
    <3>3. m < n
      BY <2>3, <3>1, <3>2
    <3>4. <<Line(p, s, j), Line(p, s, i)>> \in Later(p, s)
      BY <2>3, <3>1 DEF Later, Own
    <3>5. QED
      BY <1>6, <2>2, <2>3, <3>1, <3>3, <3>4 DEF Ordered
  <2>4. QED
    BY <2>2, <2>3
<1>8. DOMAIN sent[<<p, s>>] = 1 .. Len(sent[<<p, s>>])
  BY <1>3, LenProperties
<1>9. QED
  BY <1>2, <1>7, <1>8 DEF Kept

(* No line of a batch job is lost, for any number of runs and steps: every *)
(* stream of a run writes at the end of its file, because two streams of   *)
(* one file share an offset, other runs append or are gone, and the steps  *)
(* write elsewhere (open_output_file, try_clone and --open-mode).          *)
THEOREM JobOutputIsKept == Spec => []JobOutputKept
<1>1. IInv => JobOutputKept
  <2>1. SUFFICES ASSUME IInv, NEW r \in Runs, NEW s \in Stream, Launched(r),
                        job.append \/ (Current(r) /\ launcher[r].alone),
                        \A p \in Steps : ~Inherits(p)
                 PROVE  Kept(r, s)
    BY DEF JobOutputKept
  <2>2. r \in Program /\ Safe(r, s)
    BY <2>1 DEF Program, Safe, JobSafe
  <2>3. ~Streamed(r) /\ ~Labelled(r)
    BY <2>1, <2>2, Active, Disjoint
  <2>4. QED
    BY <2>1, <2>2, <2>3, Arrived, NoForwarder DEF Flowing
<1>2. QED
  BY <1>1, Inductive, PTL

(* When srun reports, what its tasks and their leftovers printed to a file *)
(* of the step is in it and in order, through the seds, the socket pairs   *)
(* and the two threads of --unbuffered: srun joins both threads, a thread  *)
(* ends only when nothing holds the stream, and then nothing is left on    *)
(* its way (ForegroundIoState::finish).                                    *)
THEOREM StepOutputIsKept == Spec => []StepOutputKept
<1>1. IInv => StepOutputKept
  <2>1. SUFFICES ASSUME IInv, NEW p \in Steps, NEW s \in Stream, client[p] = "reported",
                        StepPath(p, s) # "none", Streamed(p) \/ ~Labelled(p),
                        \A q \in Steps \ {p} : ~Launched(q)
                 PROVE  Kept(p, s)
    BY DEF StepOutputKept, StepPath
  <2>2. p \in Program /\ Launched(p)
    BY <2>1, Active DEF Program
  <2>3. Safe(p, s)
    BY <2>1, <2>2, Disjoint DEF Safe, StepSafe
  <2>4. Streamed(p) => thread[<<p, s>>].state = "ended"
    BY <2>1 DEF IInv, ClientInv, Stream
  <2>5. Flowing(p, s)
    BY <2>4 DEF Flowing
  <2>6. CASE Streamed(p)
    <3>1. thread[<<p, s>>].buf = <<>> /\ pipe[<<p, s>>] = <<>> /\ ~Held(p, s)
      BY <2>1, <2>4, <2>6 DEF IInv, ThreadInv
    <3>2. Buf(p, s) = <<>> /\ Pipe(p, s) = <<>> /\ \A k \in Rank : sed[<<p, s>>][k] = <<>>
      BY <3>1 DEF Buf, Pipe, Held
    <3>3. QED
      BY <2>1, <2>2, <2>3, <2>5, <3>2, Arrived
  <2>7. CASE ~Streamed(p)
    BY <2>1, <2>2, <2>3, <2>5, <2>7, Arrived, NoForwarder
  <2>8. QED
    BY <2>6, <2>7
<1>2. QED
  BY <1>1, Inductive, PTL
=============================================================================
