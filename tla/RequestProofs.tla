--------------------------- MODULE RequestProofs ---------------------------
(***************************************************************************)
(* What Request promises, for every script, environment, command line,     *)
(* configuration and update.                                               *)
(***************************************************************************)
EXTENDS Request, FiniteSetTheorems, SequenceTheorems, WellFoundedInduction, TLAPS

----------------------------------------------------------------------------
(* Time limits *)

(* A time limit is a word. *)
LEMMA LimitIsWord ==
    ASSUME NEW text, IsDuration(text), IsTimeLimit(text)
    PROVE  TimeLimitSecs(text) \in 0 .. MaxWord
<1> DEFINE days == IF text.days = <<>> THEN 0 ELSE text.days[1] * Day
<1> DEFINE parts == text.parts
<1>1. /\ U64 \subseteq Nat
      /\ text.days \in Seq(U64) /\ parts \in Seq(U64) /\ Len(parts) \in 1 .. 3
  BY CalendarAssumption DEF IsDuration, IsTimeLimit, U64
<1>2. days \in Nat
  <2>1. text.days # <<>> => text.days[1] \in U64
    BY <1>1
  <2>2. text.days # <<>> => text.days[1] \in Nat
    BY <1>1, <2>1
  <2>3. QED
    BY <2>2 DEF Day
<1>3. SecondsOf(parts) \in Nat
  <2>1. \A i \in 1 .. Len(parts) : parts[i] \in U64
    BY <1>1
  <2> HIDE DEF parts
  <2>2. \A i \in 1 .. Len(parts) : parts[i] \in Nat
    BY <1>1, <2>1
  <2>3. CASE Len(parts) = 1
    BY <2>2, <2>3 DEF SecondsOf
  <2>4. CASE Len(parts) = 2
    BY <2>2, <2>4 DEF SecondsOf
  <2>5. CASE Len(parts) = 3
    BY <2>2, <2>5 DEF SecondsOf
  <2>6. QED
    BY <1>1, <2>3, <2>4, <2>5
<1>4. TimeLimitSecs(text) = (days + SecondsOf(parts)) % (MaxWord + 1)
  BY DEF TimeLimitSecs
<1> HIDE DEF days, parts
<1>5. days + SecondsOf(parts) \in Nat
  BY <1>2, <1>3
<1>6. \A n \in Nat : n % (MaxWord + 1) \in 0 .. MaxWord
  BY CalendarAssumption
<1>7. QED
  BY <1>4, <1>5, <1>6

(* The clock of a duration has the seconds it was made of, or none. *)
LEMMA DurationReadsBack ==
    ASSUME NEW seconds \in Int, seconds <= MaxWord,
           NEW limit, limit = IF seconds > 0 THEN seconds ELSE 0
    PROVE  /\ IsDuration(Duration(seconds)) /\ IsTimeLimit(Duration(seconds))
           /\ TimeLimitSecs(Duration(seconds)) = limit
<1> DEFINE rem == limit % 86400
           h == rem \div 3600
           m == (rem % 3600) \div 60
           s == rem % 60
<1>1. /\ limit \in Nat /\ limit <= MaxWord /\ rem \in Nat
      /\ limit = 86400 * (limit \div 86400) + rem
      /\ limit \div 86400 \in Nat /\ limit \div 86400 <= limit /\ rem <= limit
  BY CalendarAssumption
<1>2. /\ h \in Nat /\ m \in Nat /\ s \in Nat
      /\ h * 3600 + m * 60 + s = rem
  <2> HIDE DEF rem
  <2>1. rem = 3600 * h + (rem % 3600) /\ rem % 3600 \in Nat
    BY <1>1
  <2>2. rem % 3600 = 60 * m + ((rem % 3600) % 60) /\ (rem % 3600) % 60 \in Nat
    BY <2>1
  <2>3. (rem % 3600) % 60 = s
    BY <1>1
  <2>4. QED
    BY <1>1, <2>1, <2>2, <2>3
<1>3. Duration(seconds).parts = <<h, m, s>>
  BY DEF Duration, Day
<1>4. Duration(seconds).days = IF limit >= 86400 THEN <<limit \div 86400>> ELSE <<>>
  BY DEF Duration, Day
<1> HIDE DEF rem, h, m, s
<1>5. {h, m, s, limit \div 86400} \subseteq U64
  BY <1>1, <1>2, CalendarAssumption DEF U64
<1>6. IsDuration(Duration(seconds)) /\ IsTimeLimit(Duration(seconds))
  BY <1>3, <1>4, <1>5 DEF IsDuration, IsTimeLimit
<1>7. SecondsOf(<<h, m, s>>) = rem
  BY <1>2 DEF SecondsOf
<1>8. TimeLimitSecs(Duration(seconds))
        = ((IF limit >= 86400 THEN (limit \div 86400) * 86400 ELSE 0) + rem) % (MaxWord + 1)
  BY <1>3, <1>4, <1>7 DEF TimeLimitSecs, Day
<1>9. (IF limit >= 86400 THEN (limit \div 86400) * 86400 ELSE 0) + rem = limit
  BY <1>1
<1>10. limit % (MaxWord + 1) = limit
  BY <1>1, CalendarAssumption
<1>11. QED
  BY <1>6, <1>8, <1>9, <1>10

----------------------------------------------------------------------------
(* What is true of every input and of every row *)

IsInput == \E in \in Inputs : script = in.script /\ env = in.env /\ cli = in.cli

IsLimit(time) == time = <<>> \/ \E n \in 0 .. MaxWord : time = <<n>>

IsRow(r) == r = [partition |-> r.partition, mem |-> r.mem, gpus |-> r.gpus, time |-> r.time,
                 constraint |-> r.constraint, begin |-> r.begin, flags |-> r.flags]

(* The directives, the request and the row have limits that are words, and *)
(* the constraint was compared with the row's partition.                   *)
RowInv ==
    /\ IsInput
    /\ read \in Nat
    /\ "time" \in DOMAIN given => given["time"] \in 0 .. MaxWord
    /\ phase \in {"submitted", "updated"} =>
        /\ IsRow(row)
        /\ IsLimit(row.time)
        /\ row.constraint \subseteq FeaturesOf(row.partition)

(* A set of numbers up to n has a largest one. *)
LEMMA Largest ==
    ASSUME NEW n \in Nat, NEW S \in SUBSET (0 .. n), S # {}
    PROVE  \E m \in S : \A k \in S : k <= m
<1> DEFINE Above == {m .. n : m \in S}
<1>1. Above \subseteq FiniteSubsetsOf(Nat)
  <2>1. \A m \in S : IsFiniteSet(m .. n) /\ m .. n \subseteq Nat
    BY FS_Interval
  <2>2. QED
    BY <2>1 DEF FiniteSubsetsOf
<1>2. Above # {}
  OBVIOUS
<1> HIDE DEF Above
<1>3. PICK R \in Above : \A Q \in Above : <<Q, R>> \notin StrictSubsetOrdering(Nat)
  BY <1>1, <1>2, FS_StrictSubsetOrderingWellFounded, WFMin
<1>4. PICK m \in S : R = m .. n
  BY DEF Above
<1>5. ASSUME NEW k \in S, k > m
      PROVE  FALSE
  <2>1. k .. n \in Above
    BY DEF Above
  <2>2. k .. n \subseteq m .. n /\ m \in m .. n /\ m \notin k .. n
    BY <1>5
  <2>3. k .. n \in SUBSET Nat /\ m .. n \in SUBSET Nat
    OBVIOUS
  <2>4. <<k .. n, R>> \in StrictSubsetOrdering(Nat)
    BY <1>4, <2>2, <2>3 DEF StrictSubsetOrdering
  <2>5. QED
    BY <1>3, <2>1, <2>4
<1>6. QED
  BY <1>5

LEMMA MaxIsLargest ==
    ASSUME NEW n \in Nat, NEW S \in SUBSET (1 .. n), S # {}
    PROVE  Max(S) \in S /\ \A k \in S : k <= Max(S)
<1>1. S \in SUBSET (0 .. n)
  OBVIOUS
<1>2. \E m \in S : \A k \in S : m >= k
  BY <1>1, Largest
<1>3. Max(S) \in S /\ \A k \in S : Max(S) >= k
  BY <1>2 DEF Max
<1>4. QED
  BY <1>3

(* ... so that a property that holds of 0 and of the next number whenever  *)
(* it holds of one, holds up to n: Good is where it holds.                 *)
LEMMA UpTo ==
    ASSUME NEW n \in Nat, NEW Good, 0 \in Good,
           \A k \in 0 .. n - 1 : k \in Good => k + 1 \in Good
    PROVE  0 .. n \subseteq Good
<1> SUFFICES ASSUME NEW b \in 0 .. n, b \notin Good
             PROVE  FALSE
  OBVIOUS
<1> DEFINE S == {k \in 0 .. b : k \in Good}
<1>1. b \in Nat /\ S \in SUBSET (0 .. b) /\ S # {}
  OBVIOUS
<1>2. PICK m \in S : \A k \in S : k <= m
  <2> HIDE DEF S
  <2>1. QED
    BY <1>1, Largest
<1>3. m # b /\ m \in 0 .. n - 1
  OBVIOUS
<1>4. m + 1 \in S
  BY <1>3
<1>5. QED
  BY <1>2, <1>4

(* A value that can be read is one value. *)
LEMMA ParsedIsValue ==
    ASSUME NEW opt, NEW text, Parsed(opt, text) # <<>>
    PROVE  Parsed(opt, text) = <<Parsed(opt, text)[1]>>
BY DEF Parsed

LEMMA ParsedLimit ==
    ASSUME NEW text, IsText("time", text), Parsed("time", text) # <<>>
    PROVE  Parsed("time", text)[1] \in 0 .. MaxWord
<1>1. IsTimeLimit(text) /\ Parsed("time", text) = <<TimeLimitSecs(text)>>
  BY DEF Parsed
<1>2. QED
  BY <1>1, LimitIsWord DEF IsText

LEMMA ConstraintInFeatures ==
    ASSUME NEW constraint, NEW p, MatchesConstraint(constraint, p)
    PROVE  constraint \subseteq FeaturesOf(p)
BY DEF MatchesConstraint, FeaturesOf, AvailableFeatures, Features, IsGpuPartition

(* The texts that tokens give to their options, up to the last, which     *)
(* counts.                                                                 *)
LEMMA TokensAreSequence ==
    ASSUME NEW tokens, AreTokens(tokens)
    PROVE  /\ Len(tokens) \in Nat /\ DOMAIN tokens = 1 .. Len(tokens)
           /\ AtToken(tokens) \subseteq 1 .. Len(tokens)
           /\ GivenAt(tokens) \subseteq 1 .. Len(tokens)
<1>1. Len(tokens) \in Nat /\ DOMAIN tokens = 1 .. Len(tokens)
  BY DEF AreTokens, IsSequence
<1>2. AtToken(tokens) \subseteq DOMAIN tokens
  BY DEF AtToken
<1>3. GivenAt(tokens) \subseteq AtToken(tokens)
  BY DEF GivenAt
<1>4. QED
  BY <1>1, <1>2, <1>3

LEMMA TextIsText ==
    ASSUME NEW tokens, AreTokens(tokens), NEW i \in GivenAt(tokens),
           TextAt(tokens, i) # <<>>
    PROVE  IsText(tokens[i].opt, TextAt(tokens, i)[1])
<1> DEFINE opt == tokens[i].opt
<1>1. i \in 1 .. Len(tokens) /\ i \in DOMAIN tokens
  BY TokensAreSequence
<1>2. tokens[i].form \in {"glued", "name"}
  BY DEF GivenAt
<1>3. CASE tokens[i].form = "glued"
  <2>1. TextAt(tokens, i)[1] = tokens[i].text[opt]
    BY <1>3 DEF TextAt
  <2>2. opt \in DOMAIN tokens[i].text /\ AreTexts(tokens[i].text)
    BY <1>1, <1>3 DEF AreTokens
  <2>3. QED
    BY <2>1, <2>2 DEF AreTexts
<1>4. CASE tokens[i].form = "name"
  <2>1. i # Len(tokens)
    BY <1>4 DEF TextAt
  <2>2. TextAt(tokens, i)[1] = tokens[i + 1].text[opt]
    BY <1>4, <2>1 DEF TextAt
  <2>3. i < Len(tokens) /\ i + 1 \in DOMAIN tokens
    BY <1>1, <2>1, TokensAreSequence
  <2>4. opt \in DOMAIN tokens[i + 1].text /\ AreTexts(tokens[i + 1].text)
    BY <1>1, <1>4, <2>3 DEF AreTokens
  <2>5. QED
    BY <2>2, <2>4 DEF AreTexts
<1>5. QED
  BY <1>2, <1>3, <1>4

Named(tokens, opt) == {i \in GivenAt(tokens) : tokens[i].opt = opt}

LEMMA LastNamed ==
    ASSUME NEW tokens, AreTokens(tokens), NEW opt \in DOMAIN GivenBy(tokens)
    PROVE  /\ Max(Named(tokens, opt)) \in GivenAt(tokens)
           /\ tokens[Max(Named(tokens, opt))].opt = opt
           /\ \A i \in Named(tokens, opt) : i <= Max(Named(tokens, opt))
           /\ GivenBy(tokens)[opt] = Parsed(opt, TextAt(tokens, Max(Named(tokens, opt)))[1])[1]
<1>1. opt \in {tokens[i].opt : i \in GivenAt(tokens)}
  BY DEF GivenBy
<1>2. Named(tokens, opt) \in SUBSET (1 .. Len(tokens)) /\ Named(tokens, opt) # {}
  BY <1>1, TokensAreSequence DEF Named
<1>3. /\ Max(Named(tokens, opt)) \in Named(tokens, opt)
      /\ \A i \in Named(tokens, opt) : i <= Max(Named(tokens, opt))
  BY <1>2, TokensAreSequence, MaxIsLargest
<1>4. GivenBy(tokens)[opt] = Parsed(opt, TextAt(tokens, Max(Named(tokens, opt)))[1])[1]
  BY <1>1 DEF GivenBy, Named
<1>5. QED
  BY <1>3, <1>4 DEF Named

LEMMA LineLimit ==
    ASSUME NEW tokens, AreTokens(tokens), LineIsValid(tokens),
           "time" \in DOMAIN GivenBy(tokens)
    PROVE  GivenBy(tokens)["time"] \in 0 .. MaxWord
<1> DEFINE last == Max(Named(tokens, "time"))
           text == TextAt(tokens, last)
<1>1. /\ last \in GivenAt(tokens) /\ tokens[last].opt = "time"
      /\ GivenBy(tokens)["time"] = Parsed("time", text[1])[1]
  BY LastNamed
<1>2. text # <<>> /\ Parsed("time", text[1]) # <<>>
  BY <1>1 DEF LineIsValid
<1>3. IsText("time", text[1])
  BY <1>1, <1>2, TextIsText
<1>4. QED
  BY <1>1, <1>2, <1>3, ParsedLimit

----------------------------------------------------------------------------
(* RowInv is inductive *)

LEMMA InputIsTyped ==
    ASSUME IsInput
    PROVE  /\ IsSequence(script) /\ \A n \in DOMAIN script : IsLine(script[n])
           /\ AreTexts(env.given) /\ AreTexts(cli.given)
           /\ DOMAIN env.given \subseteq Valued /\ DOMAIN env.flags \subseteq Flags
           /\ DOMAIN cli.given \subseteq Valued /\ cli.flags \subseteq Flags
BY RequestAssumption DEF IsInput

LEMMA ReadLineKeepsRow ==
    ASSUME RowInv, ReadLine
    PROVE  RowInv'
<1> DEFINE line == script[read + 1]
<1>1. IsInput /\ IsInput' /\ row' = row /\ phase = "reading"
  BY DEF RowInv, IsInput, ReadLine, inputs
<1>2. phase' \in {"reading", "refused", "resolving"}
  BY <1>1 DEF ReadLine, ReadDirective
<1>3. ASSUME "time" \in DOMAIN given'
      PROVE  given'["time"] \in 0 .. MaxWord
  <2>1. CASE given' = given
    BY <1>3, <2>1 DEF RowInv
  <2>2. CASE given' # given
    <3>1. line.kind = "directive" /\ LineIsValid(line.tokens)
      BY <2>2 DEF ReadLine, ReadDirective
    <3>2. given' = Over(GivenBy(line.tokens), given)
      BY <3>1 DEF ReadLine, ReadDirective
    <3>3. AreTokens(line.tokens)
      <4>1. read < Len(script) /\ read + 1 \in 1 .. Len(script)
        BY <1>1 DEF ReadLine, RowInv
      <4>2. QED
        BY <1>1, <4>1, InputIsTyped DEF IsLine, IsSequence
    <3>4. CASE "time" \in DOMAIN GivenBy(line.tokens)
      BY <3>1, <3>2, <3>3, <3>4, LineLimit DEF Over
    <3>5. CASE "time" \notin DOMAIN GivenBy(line.tokens)
      BY <1>3, <3>2, <3>5 DEF Over, RowInv
    <3>6. QED
      BY <3>4, <3>5
  <2>3. QED
    BY <2>1, <2>2
<1>4. read' \in Nat
  BY DEF RowInv, ReadLine
<1>5. QED
  BY <1>1, <1>2, <1>3, <1>4 DEF RowInv

(* Whichever source a time limit comes from. *)
LEMMA ResolvedLimit ==
    ASSUME RowInv, CliIsValid
    PROVE  IsLimit(Optional("time"))
<1> DEFINE limit == Resolved("time", 0)
<1>1. AreTexts(cli.given) /\ AreTexts(env.given)
  BY InputIsTyped DEF RowInv
<1>2. CASE "time" \in DOMAIN cli.given
  <2>1. IsText("time", cli.given["time"]) /\ Parsed("time", cli.given["time"]) # <<>>
    BY <1>1, <1>2 DEF AreTexts, CliIsValid
  <2>2. limit \in 0 .. MaxWord
    BY <1>2, <2>1, ParsedLimit DEF Resolved
  <2>3. QED
    BY <1>2, <2>2 DEF Optional, IsLimit
<1>3. CASE "time" \notin DOMAIN cli.given /\ "time" \in DOMAIN EnvGiven
  <2>1. IsText("time", env.given["time"]) /\ Parsed("time", env.given["time"]) # <<>>
    BY <1>1, <1>3 DEF AreTexts, EnvGiven
  <2>2. "time" \in DOMAIN Merged /\ Merged["time"] = Parsed("time", env.given["time"])[1]
    BY <1>3 DEF EnvGiven, Merged, Over
  <2>3. limit \in 0 .. MaxWord
    BY <1>3, <2>1, <2>2, ParsedLimit DEF Resolved
  <2>4. QED
    BY <2>2, <2>3 DEF Optional, IsLimit
<1>4. CASE "time" \notin DOMAIN cli.given /\ "time" \notin DOMAIN EnvGiven
  <2>1. DOMAIN Merged = DOMAIN EnvGiven \cup DOMAIN given
    BY DEF Merged, Over
  <2>2. CASE "time" \in DOMAIN given
    <3>1. Merged["time"] = given["time"]
      BY <1>4, <2>2 DEF Merged, Over
    <3>2. limit \in 0 .. MaxWord
      BY <1>4, <2>1, <2>2, <3>1 DEF Resolved, RowInv
    <3>3. QED
      BY <2>1, <2>2, <3>2 DEF Optional, IsLimit
  <2>3. CASE "time" \notin DOMAIN given
    BY <1>4, <2>1, <2>3 DEF Optional, IsLimit
  <2>4. QED
    BY <2>2, <2>3
<1>5. QED
  BY <1>2, <1>3, <1>4

LEMMA ResolveKeepsRow ==
    ASSUME RowInv, Resolve
    PROVE  RowInv'
<1>1. IsInput' /\ read' = read /\ given' = given /\ phase' \in {"submitted", "refused"}
  BY DEF RowInv, IsInput, Resolve, inputs
<1>2. CASE phase' = "refused"
  BY <1>1, <1>2 DEF RowInv
<1>3. CASE phase' = "submitted"
  <2>1. CliIsValid /\ Acceptable(Built) /\ row' = [Built EXCEPT !.begin = TimesOf(@)]
    BY <1>3 DEF Resolve
  <2>2. /\ IsRow(row') /\ row'.time = Optional("time")
        /\ row'.constraint = Built.constraint /\ row'.partition = Built.partition
    BY <2>1 DEF Built, IsRow
  <2>3. row'.constraint \subseteq FeaturesOf(row'.partition)
    BY <2>1, <2>2, ConstraintInFeatures DEF Acceptable
  <2>4. QED
    BY <1>1, <2>1, <2>2, <2>3, ResolvedLimit DEF RowInv, IsLimit
<1>4. QED
  BY <1>1, <1>2, <1>3

LEMMA UpdateKeepsRow ==
    ASSUME RowInv, NEW update \in Updates, Update(update)
    PROVE  RowInv'
<1> DEFINE p == LastOf(update, "partition")
           t == LastOf(update, "time")
           at(key) == {i \in DOMAIN update : key \in DOMAIN update[i]}
<1>1. /\ IsInput' /\ read' = read /\ given' = given /\ IsRow(row) /\ IsLimit(row.time)
      /\ row.constraint \subseteq FeaturesOf(row.partition)
  BY DEF RowInv, IsInput, Update, inputs
<1>2. row' = [row EXCEPT !.partition = IF p = <<>> THEN @ ELSE p[1],
                         !.time = IF t = <<>> THEN @ ELSE <<TimeLimitSecs(t[1])>>]
  BY DEF Update
<1> HIDE DEF p, t
<1>3. /\ IsRow(row') /\ row'.constraint = row.constraint
      /\ row'.partition = IF p = <<>> THEN row.partition ELSE p[1]
      /\ row'.time = IF t = <<>> THEN row.time ELSE <<TimeLimitSecs(t[1])>>
  BY <1>1, <1>2 DEF IsRow
<1>4. row'.constraint \subseteq FeaturesOf(row'.partition)
  <2>1. CASE p = <<>>
    BY <1>1, <1>3, <2>1
  <2>2. CASE p # <<>>
    <3>1. p = <<p[1]>>
      BY <2>2 DEF p, LastOf
    <3>2. p[1] \in Range(p)
      BY <3>1 DEF Range
    <3>3. MatchesConstraint(row.constraint, p[1])
      BY <3>2 DEF p, Update, UpdateIsValid
    <3>4. QED
      BY <1>3, <2>2, <3>3, ConstraintInFeatures
  <2>3. QED
    BY <2>1, <2>2
<1>5. IsLimit(row'.time)
  <2>1. CASE t = <<>>
    BY <1>1, <1>3, <2>1
  <2>2. CASE t # <<>>
    <3>1. at("time") # {} /\ t[1] = update[Max(at("time"))]["time"]
      BY <2>2 DEF t, LastOf
    <3>2. Len(update) \in Nat /\ at("time") \in SUBSET (1 .. Len(update))
      BY UpdateAssumption DEF IsSequence
    <3>3. Max(at("time")) \in at("time")
      <4> HIDE DEF at
      <4>1. QED
        BY <3>1, <3>2, MaxIsLargest
    <3>4. /\ Max(at("time")) \in DOMAIN update
          /\ "time" \in DOMAIN update[Max(at("time"))]
      BY <3>3
    <3>5. IsDuration(t[1]) /\ IsTimeLimit(t[1])
      BY <3>1, <3>4, UpdateAssumption DEF AreTexts, IsText, Update, UpdateIsValid, TimesAreValid
    <3>6. TimeLimitSecs(t[1]) \in 0 .. MaxWord
      BY <3>5, LimitIsWord
    <3>7. QED
      BY <1>3, <2>2, <3>6 DEF IsLimit
  <2>3. QED
    BY <2>1, <2>2
<1>6. QED
  BY <1>1, <1>3, <1>4, <1>5 DEF RowInv

LEMMA RowInvIsInvariant == Spec => []RowInv
<1>1. Init => RowInv
  BY DEF Init, RowInv, IsInput
<1>2. RowInv /\ [Next]_vars => RowInv'
  <2> SUFFICES ASSUME RowInv, [Next]_vars PROVE RowInv'
    OBVIOUS
  <2>1. CASE ReadEnd
    BY <2>1 DEF ReadEnd, RowInv, IsInput, inputs
  <2>2. CASE UNCHANGED vars
    BY <2>2 DEF RowInv, IsInput, vars
  <2>3. QED
    BY <2>1, <2>2, ReadLineKeepsRow, ResolveKeepsRow, UpdateKeepsRow DEF Next
<1>3. QED
  BY <1>1, <1>2, PTL DEF Spec

(* A job that asks for a feature is never in a partition without it        *)
(* (ResourceArgs::resolve and run_update_job).                             *)
THEOREM FeaturesAreThere == Spec => []ConstraintHolds
<1>1. RowInv => ConstraintHolds
  BY DEF RowInv, ConstraintHolds
<1>2. QED
  BY <1>1, RowInvIsInvariant, PTL

(* The time limit that is shown is the time the daemon grants, for every   *)
(* width of the word: 0 for a limit that is negative once it is signed     *)
(* (parse_time_limit_secs, format_duration_secs, timed_out_jobs).          *)
THEOREM LimitIsShown == Spec => []LimitReadsBack
<1>1. RowInv => LimitReadsBack
  <2> SUFFICES ASSUME RowInv, phase \in {"submitted", "updated"},
                      NEW limit \in Range(row.time)
               PROVE  /\ IsTimeLimit(Duration(Signed(limit)))
                      /\ TimeLimitSecs(Duration(Signed(limit))) = Granted(limit)
    BY DEF LimitReadsBack
  <2>1. limit \in 0 .. MaxWord
    BY DEF RowInv, IsLimit, Range
  <2>2. Signed(limit) \in Int /\ Signed(limit) <= MaxWord
    BY <2>1, CalendarAssumption DEF Signed
  <2>3. QED
    BY <2>2, DurationReadsBack DEF Granted
<1>2. QED
  BY <1>1, RowInvIsInvariant, PTL

----------------------------------------------------------------------------
(* The calendar *)

(* Truncating division was made to round down. *)
LEMMA EraRoundsDown ==
    ASSUME NEW n \in Int
    PROVE  Era(n, 400) = n \div 400 /\ Era(n, 146097) = n \div 146097
<1>1. CASE n >= 0
  BY <1>1 DEF Era, Quotient
<1>2. CASE n < 0
  <2>1. Era(n, 400) = -((399 - n) \div 400)
    BY <1>2 DEF Era, Quotient
  <2>2. Era(n, 146097) = -((146096 - n) \div 146097)
    BY <1>2 DEF Era, Quotient
  <2>3. QED
    BY <2>1, <2>2
<1>3. QED
  BY <1>1, <1>2

(* The year has a leap day more than the years before it if and only if    *)
(* the code calls it a leap year.                                          *)
LEMMA LeapDay ==
    ASSUME NEW y \in Nat
    PROVE  LeapDays(y) - LeapDays(y - 1) = IF IsLeapYear(y) THEN 1 ELSE 0
<1>1. y \div 4 - (y - 1) \div 4 = IF y % 4 = 0 THEN 1 ELSE 0
  OBVIOUS
<1>2. y \div 100 - (y - 1) \div 100 = IF y % 100 = 0 THEN 1 ELSE 0
  OBVIOUS
<1>3. y \div 400 - (y - 1) \div 400 = IF y % 400 = 0 THEN 1 ELSE 0
  OBVIOUS
<1>4. (y % 400 = 0 => y % 100 = 0) /\ (y % 100 = 0 => y % 4 = 0)
  OBVIOUS
<1>5. QED
  BY <1>1, <1>2, <1>3, <1>4 DEF LeapDays, IsLeapYear

LEMMA LeapDaysAreNumbers ==
    ASSUME NEW y \in Int
    PROVE  LeapDays(y) \in Int
BY DEF LeapDays

LEMMA MonthsAgree ==
    ASSUME NEW y \in Nat, NEW m \in 1 .. 12
    PROVE  Length(y, m) = DaysInMonth(y, m)
<1>1. LeapDays(y) \in Int /\ LeapDays(y - 1) \in Int
  BY LeapDaysAreNumbers
<1>2. (LeapDays(y) > LeapDays(y - 1)) <=> IsLeapYear(y)
  BY <1>1, LeapDay
<1>3. QED
  BY <1>2 DEF Length, DaysInMonth

(* The dates that are accepted are those of the calendar. *)
LEMMA AcceptedIsReal ==
    ASSUME NEW date \in [1 .. 6 -> Nat]
    PROVE  IsDate(date[1], date[2], date[3]) /\ IsTime(date[4], date[5], date[6]) <=> Real(date)
<1>1. \A i \in 1 .. 6 : date[i] \in Nat
  OBVIOUS
<1>2. CASE date[2] \in 1 .. 12
  <2>1. Length(date[1], date[2]) = DaysInMonth(date[1], date[2])
    BY <1>1, <1>2, MonthsAgree
  <2>2. DaysInMonth(date[1], date[2]) \in 28 .. 31
    BY <1>2 DEF DaysInMonth
  <2>3. QED
    BY <1>1, <2>1, <2>2 DEF IsDate, IsTime, Real
<1>3. CASE date[2] \notin 1 .. 12
  BY <1>3 DEF IsDate, Real
<1>4. QED
  BY <1>2, <1>3

(* Months from March on, whose days do not depend on the year. *)
MonthFromMarch(m) == IF m > 2 THEN m - 3 ELSE m + 9
DayFromMarch(m, d) == (153 * MonthFromMarch(m) + 2) \div 5 + d - 1

LEMMA DayFromMarchIs ==
    ASSUME NEW d \in Int
    PROVE  /\ DayFromMarch(1, d) = 305 + d /\ DayFromMarch(2, d) = 336 + d
           /\ DayFromMarch(3, d) = d - 1 /\ DayFromMarch(4, d) = 30 + d
           /\ DayFromMarch(5, d) = 60 + d /\ DayFromMarch(6, d) = 91 + d
           /\ DayFromMarch(7, d) = 121 + d /\ DayFromMarch(8, d) = 152 + d
           /\ DayFromMarch(9, d) = 183 + d /\ DayFromMarch(10, d) = 213 + d
           /\ DayFromMarch(11, d) = 244 + d /\ DayFromMarch(12, d) = 274 + d
BY DEF DayFromMarch, MonthFromMarch

(* The days before a month, counted month by month; without a leap day. *)
DaysBeforeMonth(m) == <<0, 31, 59, 90, 120, 151, 181, 212, 243, 273, 304, 334>>[m]

LeapAdded(y, m) == IF m > 2 /\ IsLeapYear(y) THEN 1 ELSE 0

LEMMA DaysBefore ==
    ASSUME NEW y \in Nat, NEW m \in 1 .. 12, NEW d \in Int
    PROVE  DaysCounted(y, m, d) =
             365 * (y - 1970) + LeapDays(y - 1) - 477 + d - 1
             + DaysBeforeMonth(m) + LeapAdded(y, m)
<1> DEFINE leap == IF IsLeapYear(y) THEN 1 ELSE 0
           counts(b) == b = [n \in 1 .. 12 |-> IF n = 1 THEN 0 ELSE b[n - 1] + Length(y, n - 1)]
           table == <<0, 31, 59 + leap, 90 + leap, 120 + leap, 151 + leap, 181 + leap,
                      212 + leap, 243 + leap, 273 + leap, 304 + leap, 334 + leap>>
           before == CHOOSE b : counts(b)
<1>1. leap \in 0 .. 1
  OBVIOUS
<1>2. /\ Length(y, 1) = 31 /\ Length(y, 2) = 28 + leap /\ Length(y, 3) = 31
      /\ Length(y, 4) = 30 /\ Length(y, 5) = 31 /\ Length(y, 6) = 30
      /\ Length(y, 7) = 31 /\ Length(y, 8) = 31 /\ Length(y, 9) = 30
      /\ Length(y, 10) = 31 /\ Length(y, 11) = 30
  BY MonthsAgree DEF DaysInMonth
<1>3. DaysCounted(y, m, d) = 365 * (y - 1970) + LeapDays(y - 1) - LeapDays(1969) + before[m] + d - 1
  BY DEF DaysCounted
<1>4. LeapDays(1969) = 477
  BY DEF LeapDays
<1> HIDE DEF leap
<1>5. counts(table)
  BY <1>1, <1>2
<1>6. counts(before)
  BY <1>5
<1>7. before[m] = table[m]
  <2> HIDE DEF before
  <2> DEFINE at(n) == IF n = 1 THEN 0 ELSE before[n - 1] + Length(y, n - 1)
  <2>1. \A n \in 1 .. 12 : before[n] = at(n)
    BY <1>6
  <2>2. /\ before[1] = 0 /\ before[2] = before[1] + Length(y, 1)
        /\ before[3] = before[2] + Length(y, 2) /\ before[4] = before[3] + Length(y, 3)
        /\ before[5] = before[4] + Length(y, 4) /\ before[6] = before[5] + Length(y, 5)
        /\ before[7] = before[6] + Length(y, 6) /\ before[8] = before[7] + Length(y, 7)
        /\ before[9] = before[8] + Length(y, 8) /\ before[10] = before[9] + Length(y, 9)
        /\ before[11] = before[10] + Length(y, 10) /\ before[12] = before[11] + Length(y, 11)
    BY <2>1
  <2>3. QED
    BY <1>1, <1>2, <2>2
<1>8. LeapDays(y - 1) \in Int
  BY LeapDaysAreNumbers
<1> HIDE DEF before
<1>9. table[m] = DaysBeforeMonth(m) + IF m > 2 THEN leap ELSE 0
  BY <1>1 DEF DaysBeforeMonth
<1>10. /\ LeapAdded(y, m) = (IF m > 2 THEN leap ELSE 0) /\ LeapAdded(y, m) \in Int
       /\ DaysBeforeMonth(m) \in Int
  BY DEF LeapAdded, leap, DaysBeforeMonth
<1>11. before[m] = DaysBeforeMonth(m) + LeapAdded(y, m)
  BY <1>7, <1>9, <1>10
<1> HIDE DEF table
<1>12. QED
  BY <1>3, <1>4, <1>8, <1>10, <1>11

(* The year that begins in March, counted within its 400 years. *)
CivilYear(y, m) == IF m <= 2 THEN y - 1 ELSE y
DayOfEra(yoe, doy) == yoe * 365 + yoe \div 4 - yoe \div 100 + doy

LEMMA SplitByEra ==
    ASSUME NEW n \in Int
    PROVE  /\ n \div 400 \in Int /\ n % 400 \in Int /\ 0 <= n % 400 /\ n % 400 < 400
           /\ n = 400 * (n \div 400) + (n % 400)
           /\ n \div 4 = 100 * (n \div 400) + ((n % 400) \div 4)
           /\ n \div 100 = 4 * (n \div 400) + ((n % 400) \div 100)
<1> DEFINE e == n \div 400
           r == n % 400
<1>1. e \in Int /\ r \in Int /\ 0 <= r /\ r < 400
  BY SMT
<1>2. n = 400 * e + r
  BY SMT
<1> HIDE DEF e, r
<1>3. n \div 4 = 100 * e + (r \div 4)
  BY <1>1, <1>2, SMT
<1>4. n \div 100 = 4 * e + (r \div 100)
  BY <1>1, <1>2, SMT
<1>5. QED
  BY <1>1, <1>2, <1>3, <1>4 DEF e, r

LEMMA DaysByEra ==
    ASSUME NEW y \in Nat, NEW m \in 1 .. 12, NEW d \in Nat
    PROVE  DaysFromCivil(y, m, d) =
             (CivilYear(y, m) \div 400) * 146097
             + DayOfEra(CivilYear(y, m) % 400, DayFromMarch(m, d)) - 719468
<1> DEFINE yy == CivilYear(y, m)
<1>1. yy \in Int
  BY DEF CivilYear
<1>2. Era(yy, 400) = yy \div 400 /\ yy - (yy \div 400) * 400 = yy % 400
  <2> HIDE DEF yy
  <2>1. Era(yy, 400) = yy \div 400
    BY <1>1, EraRoundsDown
  <2>2. yy - (yy \div 400) * 400 = yy % 400
    BY <1>1, SplitByEra
  <2>3. QED
    BY <2>1, <2>2
<1>3. DaysFromCivil(y, m, d) =
        Era(yy, 400) * 146097 + DayOfEra(yy - Era(yy, 400) * 400, DayFromMarch(m, d)) - 719468
  BY DEF DaysFromCivil, CivilYear, DayOfEra, DayFromMarch, MonthFromMarch
<1>4. QED
  BY <1>2, <1>3

(* The code's count is the calendar's. *)
LEMMA CountsAgree ==
    ASSUME NEW y \in Nat, NEW m \in 1 .. 12, NEW d \in Nat
    PROVE  DaysFromCivil(y, m, d) = DaysCounted(y, m, d)
<1> DEFINE yy == CivilYear(y, m)
           doy == DayFromMarch(m, d)
           leap == IF IsLeapYear(y) THEN 1 ELSE 0
<1>1. yy \in Int /\ doy \in Int /\ leap \in 0 .. 1
  BY DEF CivilYear, DayFromMarch, MonthFromMarch
<1>2. LeapDays(yy) \in Int /\ LeapDays(y - 1) \in Int /\ LeapDays(y) \in Int
  BY <1>1, LeapDaysAreNumbers
<1>3. (yy \div 400) * 146097 + DayOfEra(yy % 400, doy) = 365 * yy + LeapDays(yy) + doy
  <2> HIDE DEF yy, doy
  <2> DEFINE e == yy \div 400
             r == yy % 400
  <2>1. /\ yy = 400 * e + r /\ e \in Int /\ r \in Int
        /\ yy \div 4 = 100 * e + (r \div 4) /\ yy \div 100 = 4 * e + (r \div 100)
    BY <1>1, SplitByEra
  <2>2. LeapDays(yy) = yy \div 4 - yy \div 100 + e
    BY DEF LeapDays
  <2>3. DayOfEra(r, doy) = r * 365 + r \div 4 - r \div 100 + doy
    BY DEF DayOfEra
  <2> HIDE DEF e, r
  <2>4. r \div 4 \in Int /\ r \div 100 \in Int
    BY <2>1
  <2>5. e * 146097 + DayOfEra(r, doy) = 365 * yy + LeapDays(yy) + doy
    BY <1>1, <2>1, <2>2, <2>3, <2>4
  <2>6. QED
    BY <2>5 DEF e, r
<1>4. DaysFromCivil(y, m, d) = 365 * yy + LeapDays(yy) + doy - 719468
  <2>1. DaysFromCivil(y, m, d) = (yy \div 400) * 146097 + DayOfEra(yy % 400, doy) - 719468
    BY DaysByEra
  <2> HIDE DEF yy, doy
  <2>2. DayOfEra(yy % 400, doy) \in Int
    BY <1>1, SplitByEra DEF DayOfEra
  <2>3. (yy \div 400) * 146097 \in Int
    BY <1>1, SplitByEra
  <2>4. QED
    BY <1>1, <1>2, <1>3, <2>1, <2>2, <2>3
<1>5. LeapDays(y) - LeapDays(y - 1) = leap
  BY LeapDay
<1> DEFINE before == DaysBeforeMonth(m)
           added == LeapAdded(y, m)
<1>6. DaysCounted(y, m, d) = 365 * (y - 1970) + LeapDays(y - 1) - 477 + d - 1 + before + added
  BY DaysBefore
<1>7. yy = (IF m > 2 THEN y ELSE y - 1) /\ added = IF m > 2 THEN leap ELSE 0
  BY DEF CivilYear, LeapAdded
<1>8. doy = IF m > 2 THEN d - 60 + before ELSE d + 305 + before
  <2>1. \/ m = 1 \/ m = 2 \/ m = 3 \/ m = 4 \/ m = 5 \/ m = 6
        \/ m = 7 \/ m = 8 \/ m = 9 \/ m = 10 \/ m = 11 \/ m = 12
    OBVIOUS
  <2>2. QED
    BY <2>1, DayFromMarchIs DEF DaysBeforeMonth
<1>9. before \in Int
  BY DEF DaysBeforeMonth
<1> HIDE DEF yy, doy, leap, before, added
<1>10. CASE m > 2
  BY <1>2, <1>4, <1>5, <1>6, <1>7, <1>8, <1>9, <1>10
<1>11. CASE ~(m > 2)
  BY <1>2, <1>4, <1>6, <1>7, <1>8, <1>9, <1>11
<1>12. QED
  BY <1>10, <1>11

(* The day of an era gives back its year: what the divisions by 1460,      *)
(* 36524 and 146096 correct.  Only a leap year's last day, 29 February,    *)
(* is the day 365 after 1 March.                                           *)
EndsLeap(yoe) == ((yoe + 1) % 4 = 0 /\ (yoe + 1) % 100 # 0) \/ yoe = 399

LEMMA Division ==
    ASSUME NEW n \in Int, NEW k \in Nat, k > 0, NEW q \in Int, NEW r \in Int,
           n = k * q + r, 0 <= r, r < k
    PROVE  n \div k = q
BY SMT

(* The years of an era are c centuries, q times four years, and r. *)
LEMMA EraBounds ==
    ASSUME NEW c \in Int, NEW q \in Int, NEW r \in Int, NEW doy \in Int,
           0 <= c, c <= 3, 0 <= q, q <= 24, 0 <= r, r <= 3, 0 <= doy, doy <= 365,
           doy = 365 => r = 3 /\ (q = 24 => c = 3)
    PROVE  /\ 0 <= 1461 * q + 365 * r + doy /\ 1461 * q + 365 * r + doy <= 36524
           /\ 1461 * q + 365 * r + doy = 36524 => c = 3
           /\ 0 <= 24 * c + q + 365 * r + doy /\ 24 * c + q + 365 * r + doy < 2920
           /\ 24 * c + q + 365 * r + doy < 1460 => doy <= 364
           /\ 24 * c + q + 365 * r + doy >= 1460 => doy >= 1
<1>1. 1461 * q <= 35064 /\ 365 * r <= 1095 /\ 24 * c <= 72
  BY SMT
<1>2. QED
  BY <1>1, SMT

LEMMA YearComesBack ==
    ASSUME NEW yoe \in Int, 0 <= yoe, yoe < 400,
           NEW doy \in Int, 0 <= doy, doy <= 365, doy = 365 => EndsLeap(yoe)
    PROVE  /\ DayOfEra(yoe, doy) \in Int
           /\ 0 <= DayOfEra(yoe, doy) /\ DayOfEra(yoe, doy) < 146097
           /\ YearOfEra(DayOfEra(yoe, doy)) = yoe
           /\ DayOfYear(DayOfEra(yoe, doy), yoe) = doy
<1> DEFINE doe == DayOfEra(yoe, doy)
           c == yoe \div 100
           w == yoe % 100
           q == w \div 4
           r == w % 4
<1>1. /\ c \in 0 .. 3 /\ q \in 0 .. 24 /\ r \in 0 .. 3
      /\ yoe = 100 * c + 4 * q + r
  <2>1. c \in 0 .. 3 /\ w \in 0 .. 99 /\ yoe = 100 * c + w
    BY SMT
  <2> HIDE DEF c, w
  <2>2. q \in 0 .. 24 /\ r \in 0 .. 3 /\ w = 4 * q + r
    BY <2>1, SMT
  <2>3. QED
    BY <2>1, <2>2, SMT
<1> HIDE DEF c, w, q, r, doe
<1>2. yoe \div 100 = c /\ yoe \div 4 = 25 * c + q
  BY <1>1, SMT DEF c
<1>3. doe = 36524 * c + 1461 * q + 365 * r + doy
  BY <1>1, <1>2, SMT DEF DayOfEra, doe
<1>4. doy = 365 => r = 3 /\ (q = 24 => c = 3)
  BY <1>1, SMT DEF EndsLeap
<1> DEFINE rest == 1461 * q + 365 * r + doy
           e == 24 * c + q + 365 * r + doy
<1>5. /\ 0 <= rest /\ rest <= 36524 /\ (rest = 36524 => c = 3)
      /\ 0 <= e /\ e < 2920 /\ (e < 1460 => doy <= 364) /\ (e >= 1460 => doy >= 1)
  BY <1>1, <1>4, EraBounds
<1>6. /\ rest \in Int /\ e \in Int /\ doe \in Int
      /\ doe = 36524 * c + rest /\ doe = 1460 * (25 * c + q) + e
  BY <1>1, <1>3, SMT
<1> HIDE DEF rest, e
<1>7. 0 <= doe /\ doe <= 146096 /\ (rest < 36524 => doe < 146096)
  BY <1>1, <1>5, <1>6, SMT
<1>8. doe \div 36524 - doe \div 146096 = c
  <2>1. CASE rest = 36524
    <3>1. doe = 146096 /\ c = 3
      BY <1>5, <1>6, <2>1, SMT
    <3>2. doe \div 36524 = 4 /\ doe \div 146096 = 1
      BY <3>1, SMT
    <3>3. QED
      BY <3>1, <3>2, SMT
  <2>2. CASE rest < 36524
    <3>1. doe \div 36524 = c
      BY <1>1, <1>5, <1>6, <2>2, Division
    <3>2. doe \div 146096 = 0
      BY <1>6, <1>7, <2>2, Division
    <3>3. QED
      BY <1>1, <3>1, <3>2, SMT
  <2>3. QED
    BY <1>5, <1>6, <2>1, <2>2, SMT
<1>9. PICK g \in 0 .. 1 : doe \div 1460 = 25 * c + q + g /\ doy - g \in 0 .. 364
  <2> DEFINE k == 25 * c + q
  <2>1. k \in Int /\ doe = 1460 * k + e
    BY <1>1, <1>6, SMT
  <2> HIDE DEF k
  <2>2. CASE e < 1460
    <3>1. doe \div 1460 = k + 0 /\ doy - 0 \in 0 .. 364
      BY <1>5, <1>6, <2>1, <2>2, Division
    <3>2. QED
      BY <3>1 DEF k
  <2>3. CASE e >= 1460
    <3>1. doe = 1460 * (k + 1) + (e - 1460) /\ 0 <= e - 1460 /\ e - 1460 < 1460
      BY <1>5, <1>6, <2>1, <2>3, SMT
    <3>2. doe \div 1460 = k + 1
      BY <1>6, <2>1, <3>1, Division
    <3>3. doy - 1 \in 0 .. 364
      BY <1>5, <2>3, SMT
    <3>4. QED
      BY <3>2, <3>3 DEF k
  <2>4. QED
    BY <1>6, <2>2, <2>3, SMT
<1>10. doe - doe \div 1460 + doe \div 36524 - doe \div 146096
         = doe - (25 * c + q + g) + c
  <2>1. doe \div 36524 \in Int /\ doe \div 146096 \in Int
    BY <1>6, SMT
  <2>2. QED
    BY <1>1, <1>6, <1>8, <1>9, <2>1, SMT
<1>11. doe - (25 * c + q + g) + c = 365 * yoe + (doy - g)
  <2>1. /\ c \in Int /\ q \in Int /\ r \in Int /\ g \in Int
        /\ doe = 36524 * c + 1461 * q + 365 * r + doy /\ yoe = 100 * c + 4 * q + r
    BY <1>1, <1>3, <1>9
  <2>2. QED
    BY <2>1, SMT
<1>12. (365 * yoe + (doy - g)) \div 365 = yoe
  <2>1. /\ 365 * yoe + (doy - g) \in Int /\ doy - g \in Int
        /\ 0 <= doy - g /\ doy - g < 365
    BY <1>9, SMT
  <2>2. QED
    BY <2>1, Division
<1>13. doe \in Int /\ 0 <= doe
  BY <1>6, <1>7
<1>14. doe < 146097
  BY <1>13, <1>7, SMT
<1> DEFINE corrected == doe - doe \div 1460 + doe \div 36524 - doe \div 146096
           number == doe - (25 * c + q + g) + c
           exact == 365 * yoe + (doy - g)
<1>15. corrected = number /\ number = exact /\ exact \div 365 = yoe
  BY <1>10, <1>11, <1>12
<1> HIDE DEF number, exact, corrected
<1>16. corrected \div 365 = yoe
  BY <1>15
<1>17. YearOfEra(doe) = yoe
  BY <1>16 DEF YearOfEra, corrected
<1>18. DayOfYear(doe, yoe) = doy
  <2>1. yoe \div 4 \in Int /\ yoe \div 100 \in Int
    BY SMT
  <2>2. doe = yoe * 365 + yoe \div 4 - yoe \div 100 + doy
    BY DEF DayOfEra, doe
  <2>3. QED
    BY <2>1, <2>2, SMT DEF DayOfYear
<1>19. QED
  BY <1>13, <1>14, <1>17, <1>18 DEF doe

(* The day of the year from March gives back its month and its day. *)
LEMMA MonthOfDay ==
    ASSUME NEW m \in 1 .. 12, NEW d \in Nat, d >= 1,
           d <= IF m \in {4, 6, 9, 11} THEN 30 ELSE IF m = 2 THEN 29 ELSE 31
    PROVE  /\ (5 * DayFromMarch(m, d) + 2) \div 153 = MonthFromMarch(m)
           /\ DayFromMarch(m, d) - (153 * MonthFromMarch(m) + 2) \div 5 + 1 = d
           /\ MonthFromMarch(m) \in 0 .. 11
           /\ m = IF MonthFromMarch(m) < 10 THEN MonthFromMarch(m) + 3 ELSE MonthFromMarch(m) - 9
<1> DEFINE doy == DayFromMarch(m, d)
           mp == MonthFromMarch(m)
           r == 5 * doy + 2 - 153 * mp
<1>1. mp \in 0 .. 11 /\ m = IF mp < 10 THEN mp + 3 ELSE mp - 9
  BY SMT DEF MonthFromMarch
<1>2. doy = (153 * mp + 2) \div 5 + d - 1 /\ (153 * mp + 2) \div 5 \in Int
  BY <1>1, SMT DEF DayFromMarch
<1>3. 0 <= r /\ r < 153
  <2>1. CASE m \in {1, 2}
    BY <2>1, DayFromMarchIs, SMT DEF MonthFromMarch
  <2>2. CASE m \in {3, 5, 7, 8, 10, 12}
    BY <2>2, DayFromMarchIs, SMT DEF MonthFromMarch
  <2>3. CASE m \in {4, 6, 9, 11}
    BY <2>3, DayFromMarchIs, SMT DEF MonthFromMarch
  <2>4. QED
    BY <2>1, <2>2, <2>3
<1>4. doy \in Int /\ mp \in Int
  BY <1>1, <1>2
<1> HIDE DEF doy, mp
<1>5. 5 * doy + 2 \in Int /\ r \in Int /\ 5 * doy + 2 = 153 * mp + r
  BY <1>4, SMT
<1> HIDE DEF r
<1>6. (5 * doy + 2) \div 153 = mp
  BY <1>3, <1>4, <1>5, Division
<1>7. doy - (153 * mp + 2) \div 5 + 1 = d
  BY <1>2, <1>4, SMT
<1>8. QED
  BY <1>1, <1>6, <1>7 DEF doy, mp

(* A date is what its days are converted back to. *)
LEMMA CivilAgrees ==
    ASSUME NEW y \in Nat, NEW m \in 1 .. 12, NEW d \in Nat, d >= 1, d <= DaysInMonth(y, m)
    PROVE  CivilFromDays(DaysFromCivil(y, m, d)) = <<y, m, d>>
<1> DEFINE yy == CivilYear(y, m)
           era == yy \div 400
           yoe == yy % 400
           doy == DayFromMarch(m, d)
           doe == DayOfEra(yoe, doy)
           mp == MonthFromMarch(m)
           z == DaysFromCivil(y, m, d) + 719468
           zEra == Era(z, 146097)
<1>1. d <= IF m \in {4, 6, 9, 11} THEN 30 ELSE IF m = 2 THEN 29 ELSE 31
  BY DEF DaysInMonth
<1>2. /\ (5 * doy + 2) \div 153 = mp /\ doy - (153 * mp + 2) \div 5 + 1 = d
      /\ mp \in 0 .. 11 /\ m = IF mp < 10 THEN mp + 3 ELSE mp - 9
  BY <1>1, MonthOfDay
<1>3. /\ yy \in Int /\ era \in Int /\ yoe \in Int /\ 0 <= yoe /\ yoe < 400 /\ yy = 400 * era + yoe
      /\ yy = IF m <= 2 THEN y - 1 ELSE y
  <2>1. yy \in Int /\ yy = IF m <= 2 THEN y - 1 ELSE y
    BY DEF CivilYear
  <2>2. QED
    BY <2>1, SplitByEra
<1>4. doy \in Int /\ 0 <= doy /\ doy <= 365 /\ (doy = 365 => m = 2 /\ d = 29)
  <2>1. CASE m \in {1, 2}
    BY <1>1, <2>1, DayFromMarchIs, SMT
  <2>2. CASE m \in {3, 5, 7, 8, 10, 12}
    BY <1>1, <2>2, DayFromMarchIs, SMT
  <2>3. CASE m \in {4, 6, 9, 11}
    BY <1>1, <2>3, DayFromMarchIs, SMT
  <2>4. QED
    BY <2>1, <2>2, <2>3
<1>5. doy = 365 => EndsLeap(yoe)
  <2> SUFFICES ASSUME doy = 365 PROVE EndsLeap(yoe)
    OBVIOUS
  <2>1. m = 2 /\ IsLeapYear(y)
    BY <1>4 DEF DaysInMonth
  <2>2. y = 400 * era + (yoe + 1)
    BY <1>3, <2>1, SMT
  <2> HIDE DEF yy, era, yoe
  <2>3. /\ y % 4 = (yoe + 1) % 4 /\ y % 100 = (yoe + 1) % 100
        /\ y % 400 = (yoe + 1) % 400
    BY <1>3, <2>2, SMT
  <2>4. (yoe + 1) % 400 = 0 => yoe = 399
    BY <1>3, SMT
  <2>5. QED
    BY <2>1, <2>3, <2>4 DEF IsLeapYear, EndsLeap
<1>6. /\ doe \in Int /\ 0 <= doe /\ doe < 146097
      /\ YearOfEra(doe) = yoe /\ DayOfYear(doe, yoe) = doy
  <2>1. /\ yoe \in Int /\ 0 <= yoe /\ yoe < 400
        /\ doy \in Int /\ 0 <= doy /\ doy <= 365 /\ (doy = 365 => EndsLeap(yoe))
    BY <1>3, <1>4, <1>5
  <2> HIDE DEF yoe, doy
  <2>2. /\ DayOfEra(yoe, doy) \in Int
        /\ 0 <= DayOfEra(yoe, doy) /\ DayOfEra(yoe, doy) < 146097
        /\ YearOfEra(DayOfEra(yoe, doy)) = yoe
        /\ DayOfYear(DayOfEra(yoe, doy), yoe) = doy
    BY <2>1, YearComesBack
  <2>3. QED
    BY <2>2
<1>7. DaysFromCivil(y, m, d) = era * 146097 + doe - 719468
  BY DaysByEra
<1>8. MonthAndDay(doy) = <<m, d>>
  <2> HIDE DEF doy, mp
  <2>1. MonthAndDay(doy) = <<IF mp < 10 THEN mp + 3 ELSE mp - 9, doy - (153 * mp + 2) \div 5 + 1>>
    BY <1>2 DEF MonthAndDay
  <2>2. QED
    BY <1>2, <2>1
<1> HIDE DEF yy, era, yoe, doy, doe, mp
<1>9. z \in Int /\ z = 146097 * era + doe
  BY <1>3, <1>6, <1>7, SMT
<1> HIDE DEF z
<1>10. z \div 146097 = era
  BY <1>3, <1>6, <1>9, Division
<1>11. zEra = era
  BY <1>9, <1>10, EraRoundsDown
<1> HIDE DEF zEra
<1>12. z - zEra * 146097 = doe
  BY <1>3, <1>6, <1>9, <1>11, SMT
<1>13. yoe + zEra * 400 + (IF m <= 2 THEN 1 ELSE 0) = y
  BY <1>3, <1>11, SMT
<1>14. CivilFromDays(DaysFromCivil(y, m, d)) =
         <<yoe + zEra * 400 + (IF m <= 2 THEN 1 ELSE 0), m, d>>
  <2> DEFINE md == MonthAndDay(DayOfYear(z - zEra * 146097, YearOfEra(z - zEra * 146097)))
  <2>1. CivilFromDays(DaysFromCivil(y, m, d)) =
          <<YearOfEra(z - zEra * 146097) + zEra * 400 + (IF md[1] <= 2 THEN 1 ELSE 0),
            md[1], md[2]>>
    BY DEF CivilFromDays, z, zEra
  <2>2. md = <<m, d>>
    BY <1>6, <1>8, <1>12
  <2>3. YearOfEra(z - zEra * 146097) = yoe
    BY <1>6, <1>12
  <2> HIDE DEF md
  <2>4. md[1] = m /\ md[2] = d
    BY <2>2
  <2>5. QED
    BY <2>1, <2>3, <2>4
<1>15. QED
  BY <1>13, <1>14

(* What is stored for a date that the calendar has, and what is shown.     *)
LEMMA DateReadsBack ==
    ASSUME NEW date \in [1 .. 6 -> Nat], Real(date)
    PROVE  /\ ToEpoch(date[1], date[2], date[3], date[4], date[5], date[6])
                = <<DaysCounted(date[1], date[2], date[3]),
                    date[4] * 3600 + date[5] * 60 + date[6]>>
           /\ FromEpoch(<<DaysCounted(date[1], date[2], date[3]),
                          date[4] * 3600 + date[5] * 60 + date[6]>>) = date
<1> DEFINE days == DaysCounted(date[1], date[2], date[3])
           secs == date[4] * 3600 + date[5] * 60 + date[6]
<1>1. \A i \in 1 .. 6 : date[i] \in Nat
  OBVIOUS
<1>2. /\ date[2] \in 1 .. 12 /\ date[3] \in 1 .. Length(date[1], date[2])
      /\ date[4] < 24 /\ date[5] < 60 /\ date[6] < 60
  BY DEF Real
<1>3. Length(date[1], date[2]) = DaysInMonth(date[1], date[2])
  BY <1>1, <1>2, MonthsAgree
<1>4. date[3] >= 1 /\ date[3] <= DaysInMonth(date[1], date[2])
  BY <1>1, <1>2, <1>3 DEF DaysInMonth
<1>5. DaysFromCivil(date[1], date[2], date[3]) = days
  BY <1>1, <1>2, CountsAgree
<1>6. CivilFromDays(days) = <<date[1], date[2], date[3]>>
  BY <1>1, <1>2, <1>4, <1>5, CivilAgrees
<1>7. /\ secs \div 3600 = date[4] /\ (secs % 3600) \div 60 = date[5] /\ secs % 60 = date[6]
  <2>1. ASSUME NEW h \in Nat, NEW mi \in Nat, NEW se \in Nat, mi < 60, se < 60
        PROVE  /\ (h * 3600 + mi * 60 + se) \div 3600 = h
               /\ ((h * 3600 + mi * 60 + se) % 3600) \div 60 = mi
               /\ (h * 3600 + mi * 60 + se) % 60 = se
    <3>1. (h * 3600 + mi * 60 + se) % 3600 = mi * 60 + se
      BY <2>1, SMT
    <3>2. (h * 3600 + mi * 60 + se) \div 3600 = h
      BY <2>1, SMT
    <3>3. (mi * 60 + se) \div 60 = mi
      BY <2>1, SMT
    <3>4. (h * 3600 + mi * 60 + se) % 60 = se
      BY <2>1, SMT
    <3>5. QED
      BY <3>1, <3>2, <3>3, <3>4
  <2>2. QED
    BY <1>1, <1>2, <2>1
<1> HIDE DEF days, secs
<1>8. FromEpoch(<<days, secs>>) = <<date[1], date[2], date[3], date[4], date[5], date[6]>>
  BY <1>6, <1>7 DEF FromEpoch
<1>9. date = <<date[1], date[2], date[3], date[4], date[5], date[6]>>
  OBVIOUS
<1>10. QED
  BY <1>5, <1>8, <1>9 DEF ToEpoch, days, secs

----------------------------------------------------------------------------
(* Tokens in a row *)

(* The loop is at every token but those that follow a `--opt`. *)
Starts(tokens) == {i \in DOMAIN tokens : i = 1 \/ tokens[i - 1].form # "name"}

LEMMA AtTokenIs ==
    ASSUME NEW tokens, AreTokens(tokens)
    PROVE  AtToken(tokens) = Starts(tokens)
<1> DEFINE n == Len(tokens)
           walks(f) == f = [i \in 1 .. n |-> IF i = 1 THEN TRUE
                                            ELSE ~(f[i - 1] /\ tokens[i - 1].form = "name")]
           closed == [i \in 1 .. n |-> i = 1 \/ tokens[i - 1].form # "name"]
           at == CHOOSE f : walks(f)
<1>1. n \in Nat /\ DOMAIN tokens = 1 .. n
  BY TokensAreSequence
<1>2. \A i \in 1 .. n : tokens[i].form = "name" /\ i < n => tokens[i + 1].form # "name"
  BY <1>1 DEF AreTokens
<1>3. \A i \in 1 .. n : i # 1 => i - 1 \in 1 .. n /\ i - 1 < n
  BY <1>1
<1>4. \A i \in 1 .. n : i # 1 /\ tokens[i - 1].form = "name" /\ i - 1 # 1
          => tokens[(i - 1) - 1].form # "name"
  <2> SUFFICES ASSUME NEW i \in 1 .. n, i # 1, tokens[i - 1].form = "name", i - 1 # 1,
                      tokens[(i - 1) - 1].form = "name"
               PROVE  FALSE
    OBVIOUS
  <2>1. (i - 1) - 1 \in 1 .. n /\ (i - 1) - 1 < n /\ ((i - 1) - 1) + 1 = i - 1
    BY <1>1
  <2>2. QED
    BY <1>2, <2>1
<1> HIDE DEF n
<1>5. \A i \in 1 .. n : closed[i] = IF i = 1 THEN TRUE
                                    ELSE ~(closed[i - 1] /\ tokens[i - 1].form = "name")
  <2> SUFFICES ASSUME NEW i \in 1 .. n, i # 1
               PROVE  closed[i] <=> ~(closed[i - 1] /\ tokens[i - 1].form = "name")
    BY <1>1
  <2>1. closed[i - 1] <=> (i - 1 = 1 \/ tokens[(i - 1) - 1].form # "name")
    BY <1>3
  <2>2. QED
    BY <1>3, <1>4, <2>1
<1>6. walks(closed)
  <2> DEFINE next == [i \in 1 .. n |-> IF i = 1 THEN TRUE
                                      ELSE ~(closed[i - 1] /\ tokens[i - 1].form = "name")]
  <2>1. \A i \in 1 .. n : closed[i] = next[i]
    BY <1>5
  <2>2. QED
    BY <2>1
<1>7. walks(at)
  BY <1>6
<1>8. \A i \in 1 .. n : at[i] = IF i = 1 THEN TRUE
                                ELSE ~(at[i - 1] /\ tokens[i - 1].form = "name")
  <2> HIDE DEF at
  <2>1. QED
    BY <1>7
<1> HIDE DEF at, walks
<1>9. \A i \in 1 .. n : at[i] <=> (i = 1 \/ tokens[i - 1].form # "name")
  <2> SUFFICES ASSUME NEW i \in 1 .. n
               PROVE  at[i] <=> (i = 1 \/ tokens[i - 1].form # "name")
    OBVIOUS
  <2>1. CASE i = 1 \/ tokens[i - 1].form # "name"
    BY <1>8, <2>1
  <2>2. CASE i # 1 /\ tokens[i - 1].form = "name"
    <3>1. i - 1 = 1 \/ tokens[(i - 1) - 1].form # "name"
      BY <1>4, <2>2
    <3>2. at[i - 1]
      BY <1>3, <1>8, <2>2, <3>1
    <3>3. ~at[i]
      BY <1>8, <2>2, <3>2
    <3>4. QED
      BY <2>2, <3>3
  <2>3. QED
    BY <2>1, <2>2
<1>10. AtToken(tokens) = {i \in DOMAIN tokens : at[i]}
  BY DEF AtToken, at, walks, n
<1>11. QED
  BY <1>1, <1>9, <1>10 DEF Starts

(* A line that is not refused does not end in a name without its text. *)
LEMMA NoNameAtEnd ==
    ASSUME NEW tokens, AreTokens(tokens), LineIsValid(tokens), tokens # <<>>
    PROVE  tokens[Len(tokens)].form # "name"
<1> DEFINE n == Len(tokens)
<1>1. n \in Nat /\ DOMAIN tokens = 1 .. n
  BY TokensAreSequence
<1>2. n # 0
  BY <1>1 DEF AreTokens, IsSequence
<1> SUFFICES ASSUME tokens[n].form = "name" PROVE FALSE
  OBVIOUS
<1>3. n = 1 \/ tokens[n - 1].form # "name"
  <2> SUFFICES ASSUME n # 1, tokens[n - 1].form = "name" PROVE FALSE
    OBVIOUS
  <2>1. n - 1 \in 1 .. n /\ n - 1 < n /\ (n - 1) + 1 = n
    BY <1>1, <1>2
  <2>2. tokens[(n - 1) + 1].form = "word"
    BY <1>1, <2>1 DEF AreTokens
  <2>3. QED
    BY <2>1, <2>2
<1>4. n \in AtToken(tokens)
  BY <1>1, <1>2, <1>3, AtTokenIs DEF Starts
<1>5. n \in GivenAt(tokens) /\ TextAt(tokens, n) = <<>>
  BY <1>4 DEF GivenAt, TextAt
<1>6. QED
  BY <1>5 DEF LineIsValid

LEMMA SequenceOfItsRange ==
    ASSUME NEW S, NEW s \in Seq(S)
    PROVE  IsSequence(s)
<1>1. Len(s) \in Nat /\ DOMAIN s = 1 .. Len(s) /\ s \in [1 .. Len(s) -> S]
  BY LenProperties
<1>2. s \in [1 .. Len(s) -> Range(s)]
  BY <1>1 DEF Range
<1>3. QED
  BY <1>1, <1>2, SeqDef DEF IsSequence

(* What follows a line's tokens changes nothing about them, and the tokens *)
(* that follow are read as if they stood alone.                            *)
LEMMA Joined ==
    ASSUME NEW s, AreTokens(s), LineIsValid(s), NEW t, AreTokens(t)
    PROVE  /\ AreTokens(s \o t)
           /\ Len(s \o t) = Len(s) + Len(t)
           /\ \A i \in 1 .. Len(s) : (s \o t)[i] = s[i]
           /\ \A i \in 1 .. Len(t) : (s \o t)[Len(s) + i] = t[i]
           /\ AtToken(s \o t) = AtToken(s) \cup {Len(s) + i : i \in AtToken(t)}
<1> DEFINE u == s \o t
           n == Len(s)
           k == Len(t)
           S == Range(s) \cup Range(t)
<1>1. s \in Seq(S) /\ t \in Seq(S)
  BY SeqMonotonic DEF AreTokens, IsSequence
<1>2. /\ n \in Nat /\ DOMAIN s = 1 .. n /\ k \in Nat /\ DOMAIN t = 1 .. k
  BY TokensAreSequence
<1>3. /\ u \in Seq(S) /\ Len(u) = n + k
      /\ \A i \in 1 .. n + k : u[i] = IF i <= n THEN s[i] ELSE t[i - n]
  BY <1>1, ConcatProperties
<1>4. n # 0 => s[n].form # "name"
  BY <1>2, NoNameAtEnd
<1> HIDE DEF u, n, k, S
<1>5. DOMAIN u = 1 .. n + k /\ IsSequence(u)
  BY <1>3, SequenceOfItsRange, LenProperties
<1>6. \A i \in 1 .. n : u[i] = s[i]
  BY <1>2, <1>3
<1>7. \A i \in 1 .. k : u[n + i] = t[i]
  <2> SUFFICES ASSUME NEW i \in 1 .. k PROVE u[n + i] = t[i]
    OBVIOUS
  <2>1. n + i \in 1 .. n + k /\ ~(n + i <= n) /\ (n + i) - n = i
    BY <1>2
  <2>2. QED
    BY <1>3, <2>1
<1>8. \A i \in 1 .. n + k : i \in 1 .. n \/ \E j \in 1 .. k : i = n + j
  <2> SUFFICES ASSUME NEW i \in 1 .. n + k, i \notin 1 .. n PROVE \E j \in 1 .. k : i = n + j
    OBVIOUS
  <2>1. i - n \in 1 .. k /\ i = n + (i - n)
    BY <1>2
  <2>2. QED
    BY <2>1
<1>9. ASSUME NEW i \in 1 .. n, s[i].form = "name"
      PROVE  i < n /\ i + 1 \in 1 .. n /\ u[i + 1] = s[i + 1]
  <2>1. i < n /\ i + 1 \in 1 .. n
    BY <1>2, <1>4, <1>9
  <2>2. QED
    BY <1>6, <2>1
<1>10. ASSUME NEW i \in 1 .. k, i < k
       PROVE  i + 1 \in 1 .. k /\ u[(n + i) + 1] = t[i + 1]
  <2>1. i + 1 \in 1 .. k /\ n + (i + 1) = (n + i) + 1
    BY <1>2, <1>10
  <2>2. QED
    BY <1>7, <2>1
<1>11. AreTokens(u)
  <2> DEFINE ok(w, i) ==
        /\ w[i].form \in Form
        /\ w[i].form \in {"glued", "word"} => AreTexts(w[i].text)
        /\ w[i].form = "glued" => w[i].opt \in DOMAIN w[i].text
        /\ w[i].form = "name" /\ i < Len(w) =>
              /\ w[i + 1].form = "word"
              /\ w[i].opt \in DOMAIN w[i + 1].text
  <2>1. (\A i \in 1 .. n : ok(s, i)) /\ (\A i \in 1 .. k : ok(t, i))
    BY <1>2 DEF AreTokens
  <2>2. \A i \in 1 .. n : ok(u, i)
    BY <1>6, <1>9, <2>1 DEF n
  <2>3. \A j \in 1 .. k : ok(u, n + j)
    <3> SUFFICES ASSUME NEW j \in 1 .. k PROVE ok(u, n + j)
      OBVIOUS
    <3>1. u[n + j] = t[j]
      BY <1>7
    <3>2. n + j < Len(u) => j < k
      BY <1>2, <1>3
    <3>3. j < k => u[(n + j) + 1] = t[j + 1]
      BY <1>10
    <3>4. ok(t, j)
      BY <2>1
    <3>5. QED
      BY <3>1, <3>2, <3>3, <3>4 DEF k
  <2> HIDE DEF ok
  <2>4. \A i \in DOMAIN u : ok(u, i)
    BY <1>5, <1>8, <2>2, <2>3
  <2>5. QED
    BY <1>5, <2>4 DEF ok, AreTokens
<1>12. AtToken(u) = AtToken(s) \cup {n + i : i \in AtToken(t)}
  <2>1. /\ AtToken(u) = {i \in 1 .. n + k : i = 1 \/ u[i - 1].form # "name"}
        /\ AtToken(s) = {i \in 1 .. n : i = 1 \/ s[i - 1].form # "name"}
        /\ AtToken(t) = {i \in 1 .. k : i = 1 \/ t[i - 1].form # "name"}
    BY <1>2, <1>5, <1>11, AtTokenIs DEF Starts
  <2>2. ASSUME NEW i \in 1 .. n
        PROVE  i \in 1 .. n + k /\ (i # 1 => u[i - 1] = s[i - 1])
    <3>1. i # 1 => i - 1 \in 1 .. n
      BY <1>2
    <3>2. QED
      BY <1>2, <1>6, <3>1
  <2>3. ASSUME NEW j \in 1 .. k
        PROVE  /\ n + j \in 1 .. n + k /\ n + j \notin 1 .. n
               /\ j # 1 => n + j # 1 /\ u[(n + j) - 1] = t[j - 1]
               /\ j = 1 => (n + j = 1 \/ u[(n + j) - 1].form # "name")
    <3>1. n + j \in 1 .. n + k /\ n + j \notin 1 .. n
      BY <1>2
    <3>2. ASSUME j # 1 PROVE n + j # 1 /\ u[(n + j) - 1] = t[j - 1]
      <4>1. j - 1 \in 1 .. k /\ n + (j - 1) = (n + j) - 1 /\ n + j # 1
        BY <1>2, <3>2
      <4>2. QED
        BY <1>7, <4>1
    <3>3. ASSUME j = 1, n + j # 1 PROVE u[(n + j) - 1].form # "name"
      <4>1. n # 0 /\ n \in 1 .. n /\ (n + j) - 1 = n
        BY <1>2, <3>3
      <4>2. QED
        BY <1>4, <1>6, <4>1
    <3>4. QED
      BY <3>1, <3>2, <3>3
  <2>4. \A i \in 1 .. n : i \in AtToken(u) <=> i \in AtToken(s)
    BY <2>1, <2>2
  <2>5. \A j \in 1 .. k : n + j \in AtToken(u) <=> j \in AtToken(t)
    BY <2>1, <2>3
  <2>6. /\ AtToken(u) \subseteq 1 .. n + k /\ AtToken(s) \subseteq 1 .. n
        /\ AtToken(t) \subseteq 1 .. k
    BY <2>1
  <2>7. QED
    BY <1>8, <2>2, <2>3, <2>4, <2>5, <2>6
<1>13. QED
  BY <1>3, <1>6, <1>7, <1>11, <1>12 DEF u, n, k

LEMMA JoinedGiven ==
    ASSUME NEW s, AreTokens(s), LineIsValid(s), NEW t, AreTokens(t)
    PROVE  /\ GivenAt(s \o t) = GivenAt(s) \cup {Len(s) + i : i \in GivenAt(t)}
           /\ \A i \in GivenAt(s) : /\ (s \o t)[i].opt = s[i].opt
                                    /\ TextAt(s \o t, i) = TextAt(s, i)
           /\ \A i \in GivenAt(t) : /\ (s \o t)[Len(s) + i].opt = t[i].opt
                                    /\ TextAt(s \o t, Len(s) + i) = TextAt(t, i)
<1> DEFINE u == s \o t
           n == Len(s)
           k == Len(t)
           named(w, i) == w[i].form \in {"glued", "name"}
<1>1. /\ n \in Nat /\ k \in Nat
      /\ AtToken(s) \subseteq 1 .. n /\ AtToken(t) \subseteq 1 .. k
      /\ GivenAt(s) \subseteq 1 .. n /\ GivenAt(t) \subseteq 1 .. k
  BY TokensAreSequence
<1>2. /\ Len(u) = n + k
      /\ \A i \in 1 .. n : u[i] = s[i]
      /\ \A i \in 1 .. k : u[n + i] = t[i]
      /\ AtToken(u) = AtToken(s) \cup {n + i : i \in AtToken(t)}
  BY Joined
<1> HIDE DEF u, n, k
<1>3. GivenAt(u) = GivenAt(s) \cup {n + i : i \in GivenAt(t)}
  <2>1. /\ GivenAt(u) = {i \in AtToken(u) : named(u, i)}
        /\ GivenAt(s) = {i \in AtToken(s) : named(s, i)}
        /\ GivenAt(t) = {i \in AtToken(t) : named(t, i)}
    BY DEF GivenAt
  <2>2. \A i \in AtToken(s) : named(u, i) <=> named(s, i)
    BY <1>1, <1>2
  <2>3. \A i \in AtToken(t) : named(u, n + i) <=> named(t, i)
    BY <1>1, <1>2
  <2> HIDE DEF named
  <2>4. QED
    BY <1>2, <2>1, <2>2, <2>3
<1>4. ASSUME NEW i \in GivenAt(s)
      PROVE  u[i].opt = s[i].opt /\ TextAt(u, i) = TextAt(s, i)
  <2>1. i \in 1 .. n /\ u[i] = s[i]
    BY <1>1, <1>2
  <2>2. i = n => s[i].form # "name"
    <3>1. i = n => s # <<>>
      BY <1>1, <2>1 DEF n
    <3>2. QED
      BY <3>1, NoNameAtEnd DEF n
  <2>3. s[i].form \in {"glued", "name"}
    BY DEF GivenAt
  <2>4. CASE s[i].form = "glued"
    BY <2>1, <2>4 DEF TextAt
  <2>5. CASE s[i].form = "name"
    <3>1. i # n /\ i # Len(u) /\ i + 1 \in 1 .. n
      BY <1>1, <1>2, <2>1, <2>2, <2>5
    <3>2. u[i + 1] = s[i + 1]
      BY <1>2, <3>1
    <3>3. QED
      BY <2>1, <2>5, <3>1, <3>2 DEF TextAt, n
  <2>6. QED
    BY <2>1, <2>3, <2>4, <2>5
<1>5. ASSUME NEW i \in GivenAt(t)
      PROVE  u[n + i].opt = t[i].opt /\ TextAt(u, n + i) = TextAt(t, i)
  <2>1. i \in 1 .. k /\ u[n + i] = t[i]
    BY <1>1, <1>2
  <2>2. n + i = Len(u) <=> i = k
    BY <1>1, <1>2, <2>1
  <2>3. i # k => u[(n + i) + 1] = t[i + 1]
    <3>1. i # k => i + 1 \in 1 .. k /\ n + (i + 1) = (n + i) + 1
      BY <1>1, <2>1
    <3>2. QED
      BY <1>2, <3>1
  <2>4. QED
    BY <2>1, <2>2, <2>3 DEF TextAt, k
<1>6. QED
  BY <1>3, <1>4, <1>5 DEF u, n

(* So the lines read are read like one line: it is valid if and only if    *)
(* every one is, and what is said last counts.                             *)
LEMMA JoinedLines ==
    ASSUME NEW s, AreTokens(s), LineIsValid(s), NEW t, AreTokens(t)
    PROVE  /\ LineIsValid(t) => LineIsValid(s \o t)
           /\ LineIsValid(t) => GivenBy(s \o t) = Over(GivenBy(t), GivenBy(s))
           /\ FlagsBy(s \o t) = FlagsBy(s) \cup FlagsBy(t)
<1> DEFINE u == s \o t
           n == Len(s)
           k == Len(t)
<1>1. /\ n \in Nat /\ k \in Nat
      /\ AtToken(s) \subseteq 1 .. n /\ AtToken(t) \subseteq 1 .. k
      /\ GivenAt(s) \subseteq 1 .. n /\ GivenAt(t) \subseteq 1 .. k
  BY TokensAreSequence
<1>2. /\ AreTokens(u) /\ Len(u) = n + k
      /\ \A i \in 1 .. n : u[i] = s[i]
      /\ \A i \in 1 .. k : u[n + i] = t[i]
      /\ AtToken(u) = AtToken(s) \cup {n + i : i \in AtToken(t)}
  BY Joined
<1>3. /\ GivenAt(u) = GivenAt(s) \cup {n + i : i \in GivenAt(t)}
      /\ \A i \in GivenAt(s) : u[i].opt = s[i].opt /\ TextAt(u, i) = TextAt(s, i)
      /\ \A i \in GivenAt(t) : u[n + i].opt = t[i].opt /\ TextAt(u, n + i) = TextAt(t, i)
  <2>1. GivenAt(u) = GivenAt(s) \cup {n + i : i \in GivenAt(t)}
    BY JoinedGiven
  <2>2. \A i \in GivenAt(s) : u[i].opt = s[i].opt /\ TextAt(u, i) = TextAt(s, i)
    BY JoinedGiven
  <2>3. \A i \in GivenAt(t) : u[n + i].opt = t[i].opt /\ TextAt(u, n + i) = TextAt(t, i)
    <3>1. \A i \in GivenAt(t) : (s \o t)[Len(s) + i].opt = t[i].opt
      <4>1. \A i \in GivenAt(t) : Len(s) + i \in 1 .. n + k /\ i \in 1 .. k
        BY <1>1
      <4>2. QED
        BY <1>2, <4>1
    <3>2. \A i \in GivenAt(t) : TextAt(s \o t, Len(s) + i) = TextAt(t, i)
      BY JoinedGiven
    <3>3. QED
      BY <3>1, <3>2
  <2>4. QED
    BY <2>1, <2>2, <2>3
<1> HIDE DEF u, n, k
<1>4. LineIsValid(t) => LineIsValid(u)
  BY <1>3 DEF LineIsValid
<1>5. FlagsBy(u) = FlagsBy(s) \cup FlagsBy(t)
  <2>1. \A i \in AtToken(s) : u[i] = s[i]
    BY <1>1, <1>2
  <2>2. \A i \in AtToken(t) : u[n + i] = t[i]
    BY <1>1, <1>2
  <2>3. QED
    BY <1>2, <2>1, <2>2 DEF FlagsBy
<1>6. GivenBy(u) = Over(GivenBy(t), GivenBy(s))
  <2>1. DOMAIN GivenBy(u) = DOMAIN GivenBy(t) \cup DOMAIN GivenBy(s)
    BY <1>3 DEF GivenBy
  <2>2. ASSUME NEW opt \in DOMAIN GivenBy(t)
        PROVE  GivenBy(u)[opt] = GivenBy(t)[opt]
    <3> DEFINE last == Max(Named(t, opt))
               lastU == Max(Named(u, opt))
    <3>1. /\ last \in GivenAt(t) /\ t[last].opt = opt
          /\ \A i \in Named(t, opt) : i <= last
          /\ GivenBy(t)[opt] = Parsed(opt, TextAt(t, last)[1])[1]
      BY LastNamed
    <3>2. opt \in DOMAIN GivenBy(u)
      BY <2>1
    <3>3. /\ lastU \in GivenAt(u) /\ u[lastU].opt = opt
          /\ \A i \in Named(u, opt) : i <= lastU
          /\ GivenBy(u)[opt] = Parsed(opt, TextAt(u, lastU)[1])[1]
      BY <1>2, <3>2, LastNamed
    <3> HIDE DEF last, lastU
    <3>4. n + last \in Named(u, opt)
      BY <1>3, <3>1 DEF Named
    <3>5. n + last <= lastU
      BY <3>3, <3>4
    <3>6. lastU \notin GivenAt(s)
      BY <1>1, <3>1, <3>5
    <3>7. PICK i \in GivenAt(t) : lastU = n + i
      BY <1>3, <3>3, <3>6
    <3>8. i \in Named(t, opt)
      BY <1>3, <3>3, <3>7 DEF Named
    <3>9. i <= last
      BY <3>1, <3>8
    <3>10. i = last
      BY <1>1, <3>1, <3>5, <3>7, <3>9
    <3>11. TextAt(u, lastU) = TextAt(t, last)
      BY <1>3, <3>7, <3>10
    <3>12. QED
      BY <3>1, <3>3, <3>11
  <2>3. ASSUME NEW opt \in DOMAIN GivenBy(s), opt \notin DOMAIN GivenBy(t)
        PROVE  GivenBy(u)[opt] = GivenBy(s)[opt]
    <3>1. Named(u, opt) = Named(s, opt)
      <4>1. \A i \in GivenAt(t) : t[i].opt # opt
        BY <2>3 DEF GivenBy
      <4>2. QED
        BY <1>3, <4>1 DEF Named
    <3>2. /\ Max(Named(s, opt)) \in GivenAt(s)
          /\ GivenBy(s)[opt] = Parsed(opt, TextAt(s, Max(Named(s, opt)))[1])[1]
      BY LastNamed
    <3>3. opt \in DOMAIN GivenBy(u)
      BY <2>1
    <3>4. GivenBy(u)[opt] = Parsed(opt, TextAt(u, Max(Named(u, opt)))[1])[1]
      BY <1>2, <3>3, LastNamed
    <3>5. QED
      BY <1>3, <3>1, <3>2, <3>4
  <2>4. GivenBy(u) = [opt \in DOMAIN GivenBy(u) |-> GivenBy(u)[opt]]
    BY DEF GivenBy
  <2>5. QED
    BY <2>1, <2>2, <2>3, <2>4 DEF Over
<1>7. QED
  BY <1>4, <1>5, <1>6 DEF u

----------------------------------------------------------------------------
(* The header's tokens, line by line *)

FirstOf(e, n) == [k \in 1 .. n |-> e[k]]

LEMMA FirstOfIsSequence ==
    ASSUME NEW e, NEW n \in Nat
    PROVE  Len(FirstOf(e, n)) = n /\ \A k \in 1 .. n : FirstOf(e, n)[k] = e[k]
<1> DEFINE S == {e[k] : k \in 1 .. n}
<1>1. FirstOf(e, n) \in [1 .. n -> S]
  BY DEF FirstOf
<1>2. FirstOf(e, n) \in Seq(S)
  <2> HIDE DEF S
  <2>1. QED
    BY <1>1, SeqDef
<1>3. Len(FirstOf(e, n)) \in Nat /\ DOMAIN FirstOf(e, n) = 1 .. Len(FirstOf(e, n))
  BY <1>2, LenProperties
<1>4. DOMAIN FirstOf(e, n) = 1 .. n
  BY <1>1
<1>5. \A a, b \in Nat : 1 .. a = 1 .. b => a = b
  <2> SUFFICES ASSUME NEW a \in Nat, NEW b \in Nat, 1 .. a = 1 .. b, a < b PROVE FALSE
    OBVIOUS
  <2>1. b \in 1 .. b /\ b \notin 1 .. a
    OBVIOUS
  <2>2. QED
    BY <2>1
<1>6. QED
  BY <1>3, <1>4, <1>5 DEF FirstOf

(* FlattenSeq of one sequence more is FlattenSeq, then that sequence. *)
Flattens(f, e, n) == f = [i \in 1 .. n |-> IF i = 1 THEN e[i] ELSE f[i - 1] \o e[i]]

LEMMA FlattensAt ==
    ASSUME NEW e, NEW n \in Nat, NEW f, Flattens(f, e, n)
    PROVE  \A i \in 1 .. n : f[i] = IF i = 1 THEN e[i] ELSE f[i - 1] \o e[i]
BY DEF Flattens

LEMMA FlattensExists ==
    ASSUME NEW e, NEW n \in Nat
    PROVE  \E f : Flattens(f, e, n)
<1> DEFINE Good == {k \in 0 .. n : \E f : Flattens(f, e, k)}
<1>1. 0 \in Good
  <2>1. Flattens(<<>>, e, 0)
    BY DEF Flattens
  <2>2. QED
    BY <2>1
<1>2. ASSUME NEW k \in 0 .. n - 1, k \in Good
      PROVE  k + 1 \in Good
  <2>1. PICK f : Flattens(f, e, k)
    BY <1>2
  <2> DEFINE last == IF k = 0 THEN e[1] ELSE f[k] \o e[k + 1]
             g == [i \in 1 .. k + 1 |-> IF i = k + 1 THEN last ELSE f[i]]
             next == [i \in 1 .. k + 1 |-> IF i = 1 THEN e[i] ELSE g[i - 1] \o e[i]]
  <2>2. ASSUME NEW i \in 1 .. k + 1
        PROVE  g[i] = next[i]
    <3>1. CASE i = k + 1
      <4>1. k # 0 => i - 1 \in 1 .. k + 1 /\ i - 1 # k + 1 /\ i - 1 = k
        BY <3>1
      <4>2. k # 0 => g[i - 1] = f[k]
        BY <4>1
      <4>3. k = 0 <=> i = 1
        BY <3>1
      <4>4. QED
        BY <3>1, <4>2, <4>3
    <3>2. CASE i # k + 1
      <4>1. i \in 1 .. k
        BY <3>2
      <4>2. f[i] = IF i = 1 THEN e[i] ELSE f[i - 1] \o e[i]
        BY <2>1, <4>1, FlattensAt
      <4>3. i # 1 => i - 1 \in 1 .. k + 1 /\ i - 1 # k + 1
        BY <4>1
      <4>4. i # 1 => g[i - 1] = f[i - 1]
        BY <4>3
      <4>5. g[i] = f[i]
        BY <3>2
      <4>6. QED
        BY <4>2, <4>4, <4>5
    <3>3. QED
      BY <3>1, <3>2
  <2>3. g = next
    BY <2>2
  <2>4. Flattens(g, e, k + 1)
    BY <2>3 DEF Flattens
  <2>5. k + 1 \in 0 .. n
    OBVIOUS
  <2>6. QED
    BY <2>4, <2>5
<1> HIDE DEF Good
<1>3. n \in Good
  BY <1>1, <1>2, UpTo
<1>4. QED
  BY <1>3 DEF Good

LEMMA FlattensUnique ==
    ASSUME NEW e, NEW n \in Nat, NEW m \in Nat, n <= m,
           NEW f, Flattens(f, e, n), NEW g, Flattens(g, e, m)
    PROVE  \A i \in 1 .. n : f[i] = g[i]
<1> DEFINE Good == {k \in 0 .. n : k = 0 \/ f[k] = g[k]}
<1>1. 0 \in Good
  OBVIOUS
<1>2. ASSUME NEW k \in 0 .. n - 1, k \in Good
      PROVE  k + 1 \in Good
  <2>1. k + 1 \in 1 .. n /\ k + 1 \in 1 .. m /\ (k + 1) - 1 = k /\ (k + 1 = 1 <=> k = 0)
    OBVIOUS
  <2>2. /\ f[k + 1] = IF k = 0 THEN e[k + 1] ELSE f[k] \o e[k + 1]
        /\ g[k + 1] = IF k = 0 THEN e[k + 1] ELSE g[k] \o e[k + 1]
    BY <2>1, FlattensAt
  <2>3. f[k + 1] = g[k + 1]
    BY <1>2, <2>2
  <2>4. QED
    BY <2>1, <2>3
<1> HIDE DEF Good
<1>3. 0 .. n \subseteq Good
  BY <1>1, <1>2, UpTo
<1>4. QED
  BY <1>3 DEF Good

LEMMA FlattenIs ==
    ASSUME NEW e, NEW n \in Nat, n # 0
    PROVE  \E f : Flattens(f, e, n) /\ FlattenSeq(FirstOf(e, n)) = f[n]
<1> DEFINE s == FirstOf(e, n)
           P(f) == f = [i \in 1 .. Len(s) |-> IF i = 1 THEN s[i] ELSE f[i - 1] \o s[i]]
           f0 == CHOOSE f : P(f)
<1>1. Len(s) = n /\ \A k \in 1 .. n : s[k] = e[k]
  BY FirstOfIsSequence
<1>2. FlattenSeq(s) = f0[Len(s)]
  BY <1>1 DEF FlattenSeq
<1> HIDE DEF s
<1>3. \A f : P(f) <=> Flattens(f, e, n)
  <2> SUFFICES ASSUME NEW f PROVE P(f) <=> Flattens(f, e, n)
    OBVIOUS
  <2> DEFINE a == [i \in 1 .. Len(s) |-> IF i = 1 THEN s[i] ELSE f[i - 1] \o s[i]]
             b == [i \in 1 .. n |-> IF i = 1 THEN e[i] ELSE f[i - 1] \o e[i]]
  <2>1. a = b
    BY <1>1
  <2>2. QED
    BY <2>1 DEF Flattens
<1> HIDE DEF P
<1>4. P(f0)
  BY <1>3, FlattensExists
<1>5. QED
  BY <1>1, <1>2, <1>3, <1>4 DEF s

LEMMA FlattenNext ==
    ASSUME NEW e, NEW n \in Nat
    PROVE  /\ FlattenSeq(FirstOf(e, 0)) = <<>>
           /\ FlattenSeq(FirstOf(e, n + 1)) =
                 IF n = 0 THEN e[1] ELSE FlattenSeq(FirstOf(e, n)) \o e[n + 1]
<1>1. FlattenSeq(FirstOf(e, 0)) = <<>>
  <2>1. Len(FirstOf(e, 0)) = 0
    BY FirstOfIsSequence
  <2>2. FirstOf(e, 0) = <<>>
    BY DEF FirstOf
  <2>3. QED
    BY <2>1, <2>2 DEF FlattenSeq
<1>2. n + 1 \in Nat /\ n + 1 # 0 /\ n <= n + 1 /\ n + 1 \in 1 .. n + 1 /\ (n + 1) - 1 = n
  OBVIOUS
<1>3. PICK g : Flattens(g, e, n + 1) /\ FlattenSeq(FirstOf(e, n + 1)) = g[n + 1]
  BY <1>2, FlattenIs
<1>4. g[n + 1] = IF n = 0 THEN e[n + 1] ELSE g[n] \o e[n + 1]
  BY <1>2, <1>3, FlattensAt
<1>5. CASE n = 0
  BY <1>1, <1>3, <1>4, <1>5
<1>6. CASE n # 0
  <2>1. PICK f : Flattens(f, e, n) /\ FlattenSeq(FirstOf(e, n)) = f[n]
    BY <1>6, FlattenIs
  <2>2. f[n] = g[n]
    <3>1. n \in 1 .. n
      BY <1>6
    <3>2. QED
      BY <1>2, <1>3, <2>1, <3>1, FlattensUnique
  <2>3. QED
    BY <1>1, <1>3, <1>4, <1>6, <2>1, <2>2
<1>7. QED
  BY <1>5, <1>6

LEMMA MinIsSmallest ==
    ASSUME NEW n \in Nat, NEW S \in SUBSET (1 .. n), S # {}
    PROVE  Min(S) \in S /\ \A k \in S : Min(S) <= k
<1> DEFINE T == {n - k : k \in S}
<1>1. T \in SUBSET (0 .. n) /\ T # {}
  <2>1. \A k \in S : n - k \in 0 .. n
    OBVIOUS
  <2>2. QED
    BY <2>1
<1>2. PICK m \in T : \A k \in T : k <= m
  <2> HIDE DEF T
  <2>1. QED
    BY <1>1, Largest
<1>3. PICK x \in S : m = n - x
  OBVIOUS
<1>4. \A k \in S : n - k <= n - x
  BY <1>2, <1>3
<1>5. \E y \in S : \A k \in S : y <= k
  BY <1>3, <1>4
<1>6. QED
  BY <1>5 DEF Min

TokensOf(line) == IF line.kind = "directive" THEN line.tokens ELSE <<>>
Lines(s) == [k \in DOMAIN s |-> TokensOf(s[k])]

(* the tokens of the first n lines *)
Tokens(s, n) == FlattenSeq(FirstOf(Lines(s), n))

IsScript(s) == IsSequence(s) /\ \A n \in DOMAIN s : IsLine(s[n])

LEMMA NoTokens ==
    /\ AreTokens(<<>>) /\ LineIsValid(<<>>)
    /\ GivenBy(<<>>) = <<>> /\ FlagsBy(<<>>) = {}
<1>1. AreTokens(<<>>)
  BY EmptySeq DEF AreTokens, IsSequence
<1>2. AtToken(<<>>) = {} /\ GivenAt(<<>>) = {}
  BY <1>1, TokensAreSequence
<1>3. GivenBy(<<>>) = <<>>
  <2>1. DOMAIN GivenBy(<<>>) = {} /\ GivenBy(<<>>) = [x \in {} |-> GivenBy(<<>>)[x]]
    BY <1>2 DEF GivenBy
  <2>2. QED
    BY <2>1
<1>4. QED
  BY <1>1, <1>2, <1>3 DEF LineIsValid, FlagsBy

LEMMA TokensNext ==
    ASSUME NEW s, IsScript(s), NEW n \in Nat, n < Len(s), AreTokens(Tokens(s, n))
    PROVE  /\ AreTokens(TokensOf(s[n + 1]))
           /\ Tokens(s, n + 1) = Tokens(s, n) \o TokensOf(s[n + 1])
           /\ s[n + 1].kind # "directive" => Tokens(s, n + 1) = Tokens(s, n)
<1> DEFINE e == Lines(s)
           t == TokensOf(s[n + 1])
<1>1. Len(s) \in Nat /\ DOMAIN s = 1 .. Len(s)
  BY DEF IsScript, IsSequence
<1>2. n + 1 \in DOMAIN s /\ e[n + 1] = t
  BY <1>1 DEF Lines
<1>3. AreTokens(t)
  BY <1>2, NoTokens DEF IsScript, IsLine, TokensOf
<1>4. Tokens(s, n) \o <<>> = Tokens(s, n) /\ <<>> \o t = t
  BY <1>3, ConcatEmptySeq DEF AreTokens, IsSequence
<1> HIDE DEF e, t
<1>5. /\ FlattenSeq(FirstOf(e, 0)) = <<>>
      /\ FlattenSeq(FirstOf(e, n + 1)) =
            IF n = 0 THEN e[1] ELSE FlattenSeq(FirstOf(e, n)) \o e[n + 1]
  BY FlattenNext
<1>6. Tokens(s, n + 1) = Tokens(s, n) \o t
  <2>1. CASE n = 0
    <3>1. Tokens(s, n) = <<>> /\ Tokens(s, n + 1) = e[n + 1]
      BY <1>5, <2>1 DEF Tokens, e
    <3>2. QED
      BY <1>2, <1>4, <3>1
  <2>2. CASE n # 0
    BY <1>2, <1>5, <2>2 DEF Tokens, e
  <2>3. QED
    BY <2>1, <2>2
<1>7. s[n + 1].kind # "directive" => t = <<>>
  BY DEF t, TokensOf
<1>8. QED
  BY <1>3, <1>4, <1>6, <1>7 DEF t

(* The header ends before the first command. *)
LEMMA HeaderIs ==
    ASSUME IsScript(script)
    PROVE  /\ HeaderTokens = Tokens(script, Len(Header))
           /\ (\A n \in DOMAIN script : script[n].kind # "command") => Len(Header) = Len(script)
           /\ \A k \in DOMAIN script :
                 script[k].kind = "command" /\ (\A n \in 1 .. k - 1 : script[n].kind # "command")
                 => Len(Header) = k - 1
<1> DEFINE N == Len(script)
           commands == {n \in DOMAIN script : script[n].kind = "command"}
           cut == IF commands = {} THEN N ELSE Min(commands) - 1
<1>1. N \in Nat /\ DOMAIN script = 1 .. N /\ script \in Seq(Range(script))
  BY DEF IsScript, IsSequence
<1>2. commands # {} => Min(commands) \in commands /\ \A k \in commands : Min(commands) <= k
  <2>1. commands \in SUBSET (1 .. N)
    BY <1>1
  <2> HIDE DEF commands, N
  <2>2. QED
    BY <1>1, <2>1, MinIsSmallest
<1>3. cut \in 0 .. N
  BY <1>1, <1>2
<1>4. Header = SubSeq(script, 1, cut)
  BY DEF Header
<1>5. (\A n \in DOMAIN script : script[n].kind # "command") => cut = N
  OBVIOUS
<1>6. ASSUME NEW k \in DOMAIN script, script[k].kind = "command",
             \A n \in 1 .. k - 1 : script[n].kind # "command"
      PROVE  cut = k - 1
  <2>1. k \in commands
    BY <1>6
  <2>2. Min(commands) <= k /\ Min(commands) \in 1 .. N /\ script[Min(commands)].kind = "command"
    BY <1>1, <1>2, <2>1
  <2>3. ~(Min(commands) < k)
    <3> SUFFICES ASSUME Min(commands) < k PROVE FALSE
      OBVIOUS
    <3>1. Min(commands) \in 1 .. k - 1
      BY <1>1, <2>2
    <3>2. QED
      BY <1>6, <2>2, <3>1
  <2>4. QED
    BY <1>1, <2>1, <2>2, <2>3
<1> HIDE DEF cut, N, commands
<1>7. /\ Len(Header) = cut /\ DOMAIN Header = 1 .. cut
      /\ \A i \in 1 .. cut : Header[i] = script[i] /\ i \in DOMAIN script
  <2>1. \A i \in 1 .. cut : i \in 1 .. N /\ script[i] \in Range(script)
    BY <1>1, <1>3 DEF Range
  <2>2. /\ SubSeq(script, 1, cut) \in Seq(Range(script))
        /\ Len(SubSeq(script, 1, cut)) = IF 1 <= cut THEN cut - 1 + 1 ELSE 0
        /\ \A i \in 1 .. cut - 1 + 1 : SubSeq(script, 1, cut)[i] = script[1 + i - 1]
    BY <1>3, <2>1, SubSeqProperties
  <2>3. Len(Header) = cut /\ \A i \in 1 .. cut : Header[i] = script[i]
    <3>1. cut - 1 + 1 = cut /\ (~(1 <= cut) => cut = 0) /\ \A i \in 1 .. cut : 1 + i - 1 = i
      BY <1>1, <1>3
    <3>2. QED
      BY <1>4, <2>2, <3>1
  <2>4. DOMAIN Header = 1 .. Len(Header)
    BY <1>4, <2>2, LenProperties
  <2>5. QED
    BY <1>1, <2>1, <2>3, <2>4
<1>8. HeaderTokens = Tokens(script, cut)
  <2> DEFINE a == [n \in DOMAIN Header |->
                     IF Header[n].kind = "directive" THEN Header[n].tokens ELSE <<>>]
             b == FirstOf(Lines(script), cut)
  <2>1. a = b
    BY <1>7 DEF FirstOf, Lines, TokensOf
  <2>2. QED
    BY <2>1 DEF HeaderTokens, Tokens
<1>9. QED
  BY <1>5, <1>6, <1>7, <1>8 DEF N

----------------------------------------------------------------------------
(* What has been read, and what is asked *)

IsRead(n) ==
    /\ AreTokens(Tokens(script, n)) /\ LineIsValid(Tokens(script, n))
    /\ given = GivenBy(Tokens(script, n))
    /\ flags = FlagsBy(Tokens(script, n))

HeaderInv ==
    /\ phase = "reading" => /\ read \in 0 .. Len(script)
                            /\ \A n \in 1 .. read : script[n].kind # "command"
                            /\ IsRead(read)
    /\ phase = "resolving" => IsRead(Len(Header))

(* What was asked is in the row, and can be granted; a refused date is one *)
(* that --begin does not accept.                                           *)
AskedInv ==
    /\ phase = "submitted" => /\ StrongestSourceWins
                              /\ \A b \in Range(Asked("begin")) :
                                     IsBegin(b) /\ IsText("begin", b)
    /\ phase = "refused" /\ OnlyDateGiven =>
          \A b \in Range(Asked("begin")) : ~IsBegin(b) /\ IsText("begin", b)

SourceInv == IsInput /\ HeaderInv /\ AskedInv

(* The directives' value of an option is the one that Directive states. *)
LEMMA DirectiveIsGiven ==
    ASSUME AreTokens(HeaderTokens), LineIsValid(HeaderTokens), NEW opt
    PROVE  Directive(opt) = IF opt \in DOMAIN GivenBy(HeaderTokens)
                            THEN <<GivenBy(HeaderTokens)[opt]>> ELSE <<>>
<1> DEFINE at == Named(HeaderTokens, opt)
           text == TextAt(HeaderTokens, Max(at))[1]
<1>1. Directive(opt) = IF at = {} THEN <<>> ELSE Parsed(opt, text)
  BY DEF Directive, Named
<1>2. opt \in DOMAIN GivenBy(HeaderTokens) <=> at # {}
  BY DEF GivenBy, Named
<1>3. CASE opt \in DOMAIN GivenBy(HeaderTokens)
  <2>1. /\ Max(at) \in GivenAt(HeaderTokens) /\ HeaderTokens[Max(at)].opt = opt
        /\ GivenBy(HeaderTokens)[opt] = Parsed(opt, text)[1]
    BY <1>3, LastNamed
  <2>2. Parsed(opt, text) # <<>>
    BY <2>1 DEF LineIsValid
  <2>3. Parsed(opt, text) = <<Parsed(opt, text)[1]>>
    BY <2>2, ParsedIsValue
  <2>4. QED
    BY <1>1, <1>2, <1>3, <2>1, <2>3
<1>4. CASE opt \notin DOMAIN GivenBy(HeaderTokens)
  BY <1>1, <1>2, <1>4
<1>5. QED
  BY <1>3, <1>4

LEMMA AskedIsResolved ==
    ASSUME AreTokens(HeaderTokens), LineIsValid(HeaderTokens), given = GivenBy(HeaderTokens),
           CliIsValid, NEW opt, NEW default
    PROVE  IF opt \in DOMAIN cli.given \cup DOMAIN Merged
           THEN Asked(opt) = <<Resolved(opt, default)>>
           ELSE Asked(opt) = <<>>
<1>1. DOMAIN Merged = DOMAIN EnvGiven \cup DOMAIN given
  BY DEF Merged, Over
<1>2. opt \in DOMAIN EnvGiven <=> opt \in DOMAIN env.given /\ Parsed(opt, env.given[opt]) # <<>>
  BY DEF EnvGiven
<1>3. CASE opt \in DOMAIN cli.given
  <2>1. Parsed(opt, cli.given[opt]) = <<Parsed(opt, cli.given[opt])[1]>>
    BY <1>3, ParsedIsValue DEF CliIsValid
  <2>2. QED
    BY <1>3, <2>1 DEF Asked, Resolved
<1>4. CASE opt \notin DOMAIN cli.given /\ opt \in DOMAIN EnvGiven
  <2>1. Parsed(opt, env.given[opt]) = <<Parsed(opt, env.given[opt])[1]>>
    BY <1>2, <1>4, ParsedIsValue
  <2>2. Merged[opt] = Parsed(opt, env.given[opt])[1]
    BY <1>4 DEF Merged, Over, EnvGiven
  <2>3. QED
    BY <1>1, <1>2, <1>4, <2>1, <2>2 DEF Asked, Resolved
<1>5. CASE opt \notin DOMAIN cli.given /\ opt \notin DOMAIN EnvGiven
  <2>1. Asked(opt) = Directive(opt)
    BY <1>2, <1>5 DEF Asked
  <2>2. opt \in DOMAIN given => Merged[opt] = given[opt]
    BY <1>5 DEF Merged, Over
  <2>3. QED
    BY <1>1, <1>5, <2>1, <2>2, DirectiveIsGiven DEF Resolved
<1>6. QED
  BY <1>3, <1>4, <1>5

LEMMA ReadLineKeepsSource ==
    ASSUME SourceInv, ReadLine
    PROVE  SourceInv'
<1> DEFINE line == script[read + 1]
           n == read
<1>1. /\ phase = "reading" /\ read < Len(script) /\ read' = read + 1
      /\ script' = script /\ env' = env /\ cli' = cli /\ row' = row
  BY DEF ReadLine, inputs
<1>2. /\ IsInput /\ IsInput' /\ IsScript(script)
      /\ read \in 0 .. Len(script) /\ IsRead(read)
      /\ \A k \in 1 .. read : script[k].kind # "command"
  BY <1>1, InputIsTyped DEF SourceInv, HeaderInv, IsInput, IsScript
<1>3. /\ Len(script) \in Nat /\ DOMAIN script = 1 .. Len(script)
      /\ read + 1 \in DOMAIN script /\ read + 1 \in 0 .. Len(script)
  BY <1>1, <1>2 DEF IsScript, IsSequence
<1>4. script # <<>>
  BY <1>3
<1>5. AskedInv'
  <2>1. phase' # "submitted"
    BY <1>1 DEF ReadLine, ReadDirective
  <2>2. ~OnlyDateGiven'
    BY <1>1, <1>4 DEF OnlyDateGiven
  <2>3. QED
    BY <2>1, <2>2 DEF AskedInv
<1>6. Header' = Header
  BY <1>1 DEF Header
<1>7. /\ AreTokens(TokensOf(line))
      /\ Tokens(script, read + 1) = Tokens(script, read) \o TokensOf(line)
      /\ line.kind # "directive" => Tokens(script, read + 1) = Tokens(script, read)
  <2>1. AreTokens(Tokens(script, read)) /\ read \in Nat
    BY <1>2, <1>3 DEF IsRead
  <2>2. QED
    BY <1>1, <1>2, <2>1, TokensNext
<1>8. HeaderInv'
  <2>1. CASE line.kind = "directive" /\ LineIsValid(line.tokens)
    <3>1. /\ given' = Over(GivenBy(line.tokens), given)
          /\ flags' = flags \cup FlagsBy(line.tokens) /\ phase' = phase
      BY <2>1 DEF ReadLine, ReadDirective
    <3>2. TokensOf(line) = line.tokens
      BY <2>1 DEF TokensOf
    <3>3. /\ AreTokens(Tokens(script, read + 1)) /\ LineIsValid(Tokens(script, read + 1))
          /\ given' = GivenBy(Tokens(script, read + 1))
          /\ flags' = FlagsBy(Tokens(script, read + 1))
      <4> DEFINE s == Tokens(script, read)
                 t == line.tokens
      <4>1. /\ AreTokens(s) /\ LineIsValid(s) /\ given = GivenBy(s) /\ flags = FlagsBy(s)
        BY <1>2 DEF IsRead
      <4>2. AreTokens(t) /\ LineIsValid(t) /\ Tokens(script, read + 1) = s \o t
        BY <1>7, <2>1, <3>2
      <4> HIDE DEF s, t
      <4>3. AreTokens(s \o t)
        BY <4>1, <4>2, Joined
      <4>4. /\ LineIsValid(s \o t) /\ GivenBy(s \o t) = Over(GivenBy(t), GivenBy(s))
            /\ FlagsBy(s \o t) = FlagsBy(s) \cup FlagsBy(t)
        BY <4>1, <4>2, JoinedLines
      <4>5. given' = Over(GivenBy(t), given) /\ flags' = flags \cup FlagsBy(t)
        BY <3>1 DEF t
      <4>6. QED
        BY <4>1, <4>2, <4>3, <4>4, <4>5
    <3>4. \A k \in 1 .. read + 1 : script[k].kind # "command"
      <4>1. \A k \in 1 .. read + 1 : k \in 1 .. read \/ k = read + 1
        BY <1>2
      <4>2. QED
        BY <1>2, <2>1, <4>1
    <3>5. IsRead(read)'
      BY <1>1, <3>3 DEF IsRead
    <3>6. QED
      BY <1>1, <1>3, <3>1, <3>4, <3>5 DEF HeaderInv
  <2>2. CASE line.kind = "directive" /\ ~LineIsValid(line.tokens)
    <3>1. phase' = "refused"
      BY <2>2 DEF ReadLine, ReadDirective
    <3>2. QED
      BY <3>1 DEF HeaderInv
  <2>3. CASE line.kind = "command"
    <3>1. phase' = "resolving" /\ given' = given /\ flags' = flags
      BY <2>3 DEF ReadLine
    <3>2. Len(Header) = (read + 1) - 1 /\ (read + 1) - 1 = read
      <4>1. (read + 1) - 1 = read
        BY <1>2
      <4>2. QED
        BY <1>2, <1>3, <2>3, <4>1, HeaderIs
    <3>3. IsRead(Len(Header))'
      BY <1>1, <1>2, <1>6, <3>1, <3>2 DEF IsRead
    <3>4. QED
      BY <3>1, <3>3 DEF HeaderInv
  <2>4. CASE line.kind # "directive" /\ line.kind # "command"
    <3>1. phase' = phase /\ given' = given /\ flags' = flags
      BY <2>4 DEF ReadLine
    <3>2. \A k \in 1 .. read + 1 : script[k].kind # "command"
      <4>1. \A k \in 1 .. read + 1 : k \in 1 .. read \/ k = read + 1
        BY <1>2
      <4>2. QED
        BY <1>2, <2>4, <4>1
    <3>3. IsRead(read)'
      BY <1>1, <1>2, <1>7, <2>4, <3>1 DEF IsRead
    <3>4. QED
      BY <1>1, <1>3, <3>1, <3>2, <3>3 DEF HeaderInv
  <2>5. QED
    BY <2>1, <2>2, <2>3, <2>4
<1>9. QED
  BY <1>2, <1>5, <1>8 DEF SourceInv

LEMMA ReadEndKeepsSource ==
    ASSUME SourceInv, ReadEnd
    PROVE  SourceInv'
<1>1. /\ phase = "reading" /\ read = Len(script) /\ phase' = "resolving"
      /\ script' = script /\ env' = env /\ cli' = cli /\ given' = given /\ flags' = flags
  BY DEF ReadEnd, inputs
<1>2. /\ IsInput /\ IsInput' /\ IsScript(script) /\ IsRead(read)
      /\ \A k \in 1 .. read : script[k].kind # "command"
  BY <1>1, InputIsTyped DEF SourceInv, HeaderInv, IsInput, IsScript
<1>3. Len(Header) = read
  <2>1. DOMAIN script = 1 .. read
    BY <1>1, <1>2 DEF IsScript, IsSequence
  <2>2. QED
    BY <1>1, <1>2, <2>1, HeaderIs
<1>4. Header' = Header
  BY <1>1 DEF Header
<1>5. IsRead(Len(Header))'
  BY <1>1, <1>2, <1>3, <1>4 DEF IsRead
<1>6. QED
  BY <1>1, <1>2, <1>5 DEF SourceInv, HeaderInv, AskedInv

(* The row has what is asked. *)
LEMMA BuiltIsAsked ==
    ASSUME IsInput, AreTokens(HeaderTokens), LineIsValid(HeaderTokens),
           given = GivenBy(HeaderTokens), flags = FlagsBy(HeaderTokens), CliIsValid
    PROVE  /\ \A opt \in {"partition", "gpus", "mem", "constraint"} :
                 Asked(opt) # <<>> => Built[opt] = Asked(opt)[1]
           /\ Built.time = Asked("time") /\ Built.begin = Asked("begin")
           /\ Built.flags = cli.flags \cup {f \in DOMAIN env.flags : env.flags[f] = "1"}
                                      \cup FlagsBy(HeaderTokens)
<1>1. \A opt, default : Asked(opt) # <<>> => Resolved(opt, default) = Asked(opt)[1]
  BY AskedIsResolved
<1>2. \A opt : Optional(opt) = Asked(opt)
  BY AskedIsResolved DEF Optional
<1>3. /\ Built["partition"] = Resolved("partition", DefaultPartition)
      /\ \E default : Built["gpus"] = Resolved("gpus", default)
      /\ Built["mem"] = Resolved("mem", 512)
      /\ Built["constraint"] = Resolved("constraint", {})
      /\ Built.time = Optional("time") /\ Built.begin = Optional("begin")
      /\ Built.flags = cli.flags \cup EnvFlags \cup flags
  BY DEF Built
<1>4. QED
  BY <1>1, <1>2, <1>3 DEF EnvFlags

(* At most one --begin is asked. *)
LEMMA BeginIsOne ==
    ASSUME NEW b \in Range(Asked("begin"))
    PROVE  Asked("begin") = <<b>>
<1>1. \A text : Parsed("begin", text) = <<text>>
  BY DEF Parsed
<1>2. (\E text : Asked("begin") = <<text>>) \/ Asked("begin") = <<>>
  BY <1>1 DEF Asked, Directive
<1>3. \A text : Range(<<text>>) = {text}
  BY DEF Range
<1>4. Range(<<>>) = {}
  BY DEF Range
<1>5. QED
  BY <1>2, <1>3, <1>4

(* A begin that is asked is a text of one of the inputs. *)
LEMMA BeginIsText ==
    ASSUME IsInput, AreTokens(HeaderTokens), LineIsValid(HeaderTokens),
           NEW b \in Range(Asked("begin"))
    PROVE  IsText("begin", b)
<1> DEFINE at == Named(HeaderTokens, "begin")
<1>1. AreTexts(cli.given) /\ AreTexts(env.given)
  BY InputIsTyped
<1>2. \A text : Parsed("begin", text) = <<text>> /\ Range(<<text>>) = {text}
  BY DEF Parsed, Range
<1>3. CASE "begin" \in DOMAIN cli.given
  <2>1. b = cli.given["begin"]
    BY <1>2, <1>3 DEF Asked
  <2>2. QED
    BY <1>1, <1>3, <2>1 DEF AreTexts
<1>4. CASE "begin" \notin DOMAIN cli.given /\ "begin" \in DOMAIN env.given
  <2>1. b = env.given["begin"]
    BY <1>2, <1>4 DEF Asked
  <2>2. QED
    BY <1>1, <1>4, <2>1 DEF AreTexts
<1>5. CASE "begin" \notin DOMAIN cli.given /\ "begin" \notin DOMAIN env.given
  <2>1. Asked("begin") = Directive("begin")
    BY <1>5 DEF Asked
  <2>2. Range(<<>>) = {}
    BY DEF Range
  <2>3. at # {} /\ b = TextAt(HeaderTokens, Max(at))[1]
    BY <1>2, <2>1, <2>2 DEF Directive, Named
  <2>4. "begin" \in DOMAIN GivenBy(HeaderTokens)
    BY <2>3 DEF GivenBy, Named
  <2>5. Max(at) \in GivenAt(HeaderTokens) /\ HeaderTokens[Max(at)].opt = "begin"
    BY <2>4, LastNamed
  <2>6. TextAt(HeaderTokens, Max(at)) # <<>>
    BY <2>5 DEF LineIsValid
  <2>7. QED
    BY <2>3, <2>5, <2>6, TextIsText
<1>6. QED
  BY <1>3, <1>4, <1>5

LEMMA ResolveKeepsSource ==
    ASSUME SourceInv, Resolve
    PROVE  SourceInv'
<1>1. /\ phase = "resolving" /\ phase' \in {"submitted", "refused"}
      /\ script' = script /\ env' = env /\ cli' = cli /\ given' = given /\ flags' = flags
  BY DEF Resolve, inputs
<1>2. IsInput /\ IsInput' /\ IsScript(script)
  BY <1>1, InputIsTyped DEF SourceInv, IsInput, IsScript
<1>3. /\ AreTokens(HeaderTokens) /\ LineIsValid(HeaderTokens)
      /\ given = GivenBy(HeaderTokens) /\ flags = FlagsBy(HeaderTokens)
  BY <1>1, <1>2, HeaderIs DEF SourceInv, HeaderInv, IsRead
<1>4. HeaderTokens' = HeaderTokens
  BY <1>1 DEF HeaderTokens, Header
<1>5. \A opt : Asked(opt)' = Asked(opt)
  BY <1>1, <1>4 DEF Asked, Directive
<1>6. ASSUME phase' = "submitted"
      PROVE  /\ StrongestSourceWins'
             /\ \A b \in Range(Asked("begin")) : IsBegin(b) /\ IsText("begin", b)
  <2>1. CliIsValid /\ Acceptable(Built) /\ row' = [Built EXCEPT !.begin = TimesOf(@)]
    BY <1>6 DEF Resolve
  <2>2. /\ \A opt \in {"partition", "gpus", "mem", "constraint"} :
               Asked(opt) # <<>> => Built[opt] = Asked(opt)[1]
        /\ Built.time = Asked("time") /\ Built.begin = Asked("begin")
        /\ Built.flags = cli.flags \cup {f \in DOMAIN env.flags : env.flags[f] = "1"}
                                    \cup FlagsBy(HeaderTokens)
    BY <1>2, <1>3, <2>1, BuiltIsAsked
  <2>3. /\ \A opt \in {"partition", "gpus", "mem", "constraint"} : row'[opt] = Built[opt]
        /\ row'.time = Built.time /\ row'.begin = TimesOf(Built.begin)
        /\ row'.flags = Built.flags
    BY <2>1 DEF Built
  <2>4. \A begin : TimesOf(begin)' = TimesOf(begin)
    BY DEF TimesOf
  <2>5. StrongestSourceWins'
    BY <1>1, <1>4, <1>5, <2>2, <2>3, <2>4 DEF StrongestSourceWins
  <2>6. \A b \in Range(Asked("begin")) : IsBegin(b)
    BY <2>1, <2>2 DEF Acceptable
  <2>7. QED
    BY <1>2, <1>3, <2>5, <2>6, BeginIsText
<1>7. ASSUME phase' = "refused", OnlyDateGiven
      PROVE  \A b \in Range(Asked("begin")) : ~IsBegin(b) /\ IsText("begin", b)
  <2>1. /\ DOMAIN cli.given = {"begin"} /\ script = <<>> /\ DOMAIN env.given = {}
    BY <1>7 DEF OnlyDateGiven
  <2>2. CliIsValid
    BY <2>1 DEF CliIsValid, Parsed
  <2>3. Asked("begin") = <<cli.given["begin"]>>
    BY <2>1 DEF Asked, Parsed
  <2>4. DOMAIN Merged = {}
    <3>1. Len(Header) = Len(script) /\ Len(script) = 0
      BY <1>2, <2>1, HeaderIs
    <3>2. HeaderTokens = Tokens(script, 0)
      BY <1>2, <3>1, HeaderIs
    <3>3. HeaderTokens = <<>>
      BY <3>2, FlattenNext DEF Tokens
    <3>4. DOMAIN given = {}
      BY <1>3, <3>3, NoTokens
    <3>5. QED
      BY <2>1, <3>4 DEF Merged, Over, EnvGiven
  <2>5. /\ Built.partition = DefaultPartition /\ Built.constraint = {}
        /\ Built.begin = Asked("begin")
    <3>1. Built.begin = Asked("begin")
      BY <1>2, <1>3, <2>2, BuiltIsAsked
    <3>2. QED
      BY <2>1, <2>4, <3>1 DEF Built, Resolved
  <2>6. HasPartition(DefaultPartition) /\ MatchesConstraint({}, DefaultPartition)
    <3>1. CpuPartitions[1] \in Range(CpuPartitions)
      BY PartitionAssumption DEF IsSequence, Range
    <3>2. GpuPartitions # <<>> => GpuPartitions[1] \in Range(GpuPartitions)
      BY PartitionAssumption DEF IsSequence, Range
    <3>3. QED
      BY PartitionAssumption, <3>1, <3>2 DEF HasPartition, DefaultPartition, MatchesConstraint
  <2>7. ~Acceptable(Built)
    BY <1>7, <2>2 DEF Resolve
  <2>8. \E b \in Range(Asked("begin")) : ~IsBegin(b)
    BY <2>5, <2>6, <2>7 DEF Acceptable
  <2>9. Range(Asked("begin")) = {cli.given["begin"]}
    BY <2>3 DEF Range
  <2>10. QED
    BY <1>2, <1>3, <2>8, <2>9, BeginIsText
<1>8. AskedInv'
  <2>1. OnlyDateGiven' = OnlyDateGiven
    BY <1>1 DEF OnlyDateGiven
  <2>2. Range(Asked("begin"))' = Range(Asked("begin"))
    BY <1>5
  <2>3. QED
    BY <1>1, <1>6, <1>7, <2>1, <2>2 DEF AskedInv
<1>9. QED
  BY <1>1, <1>2, <1>8 DEF SourceInv, HeaderInv

LEMMA UpdateKeepsSource ==
    ASSUME SourceInv, NEW update \in Updates, Update(update)
    PROVE  SourceInv'
<1>1. phase' = "updated" /\ script' = script /\ env' = env /\ cli' = cli
  BY DEF Update, inputs
<1>2. IsInput'
  BY <1>1 DEF SourceInv, IsInput
<1>3. QED
  BY <1>1, <1>2 DEF SourceInv, HeaderInv, AskedInv

LEMMA IdleKeepsSource ==
    ASSUME SourceInv, UNCHANGED vars
    PROVE  SourceInv'
<1>1. /\ script' = script /\ env' = env /\ cli' = cli /\ read' = read
      /\ given' = given /\ flags' = flags /\ phase' = phase /\ row' = row
  BY DEF vars
<1>2. IsInput' = IsInput
  BY <1>1 DEF IsInput
<1>3. HeaderInv' = HeaderInv
  BY <1>1 DEF HeaderInv, IsRead, Header
<1>4. HeaderTokens' = HeaderTokens
  BY <1>1 DEF HeaderTokens, Header
<1>5. \A opt : Asked(opt)' = Asked(opt)
  BY <1>1, <1>4 DEF Asked, Directive
<1>6. Range(Asked("begin"))' = Range(Asked("begin"))
  BY <1>5
<1>7. TimesOf(Asked("begin"))' = TimesOf(Asked("begin"))
  BY <1>5 DEF TimesOf
<1>8. StrongestSourceWins' = StrongestSourceWins
  BY <1>1, <1>4, <1>5, <1>7 DEF StrongestSourceWins
<1>9. OnlyDateGiven' = OnlyDateGiven
  BY <1>1 DEF OnlyDateGiven
<1>10. AskedInv' = AskedInv
  BY <1>1, <1>6, <1>8, <1>9 DEF AskedInv
<1>11. QED
  BY <1>2, <1>3, <1>10 DEF SourceInv

LEMMA SourceInvIsInvariant == Spec => []SourceInv
<1>1. Init => SourceInv
  <2> SUFFICES ASSUME Init PROVE SourceInv
    OBVIOUS
  <2>1. IsInput /\ phase = "reading" /\ read = 0 /\ given = <<>> /\ flags = {}
    BY DEF Init, IsInput
  <2>2. Tokens(script, 0) = <<>>
    BY FlattenNext DEF Tokens
  <2>3. IsRead(0)
    BY <2>1, <2>2, NoTokens DEF IsRead
  <2>4. Len(script) \in Nat
    BY <2>1, InputIsTyped DEF IsSequence
  <2>5. QED
    BY <2>1, <2>3, <2>4 DEF SourceInv, HeaderInv, AskedInv
<1>2. SourceInv /\ [Next]_vars => SourceInv'
  BY ReadLineKeepsSource, ReadEndKeepsSource, ResolveKeepsSource, UpdateKeepsSource,
     IdleKeepsSource DEF Next
<1>3. QED
  BY <1>1, <1>2, PTL DEF Spec

(* The request has the value of the strongest source, whichever way sbatch *)
(* merges them: merge_batch_directives, line by line, and cli.or(merged)   *)
(* come to the last #SBATCH of the header.                                 *)
THEOREM StrongestWins == Spec => []StrongestSourceWins
<1>1. SourceInv => StrongestSourceWins
  BY DEF SourceInv, AskedInv, StrongestSourceWins
<1>2. QED
  BY <1>1, SourceInvIsInvariant, PTL

(* sbatch accepts the dates of the calendar and no others, and the second  *)
(* it stores is read back as the date that was asked for, whatever the     *)
(* year: datetime_to_epoch, days_from_civil and civil_from_epoch.          *)
THEOREM BeginIsKept == Spec => []BeginIsAsAsked
<1>1. SourceInv => BeginIsAsAsked
  <2> SUFFICES ASSUME SourceInv, NEW b \in Range(Asked("begin")), b.kind = "date"
               PROVE  /\ phase = "submitted" =>
                          /\ Real(b.date)
                          /\ row.begin[1] = <<DaysCounted(b.date[1], b.date[2], b.date[3]),
                                b.date[4] * 3600 + b.date[5] * 60 + b.date[6]>>
                          /\ FromEpoch(row.begin[1]) = b.date
                      /\ phase = "refused" /\ OnlyDateGiven => ~Real(b.date)
    BY DEF BeginIsAsAsked
  <2> DEFINE d == b.date
  <2>1. IsBegin(b) <=> IsDate(d[1], d[2], d[3]) /\ IsTime(d[4], d[5], d[6])
    BY DEF IsBegin
  <2>2. ASSUME phase = "submitted"
        PROVE  /\ Real(d)
               /\ row.begin[1] = <<DaysCounted(d[1], d[2], d[3]),
                                   d[4] * 3600 + d[5] * 60 + d[6]>>
               /\ FromEpoch(row.begin[1]) = d
    <3>1. IsBegin(b) /\ d \in [1 .. 6 -> Nat] /\ row.begin = TimesOf(Asked("begin"))
      BY <2>2 DEF SourceInv, AskedInv, IsText, StrongestSourceWins
    <3>2. Real(d)
      BY <2>1, <3>1, AcceptedIsReal
    <3>3. Asked("begin") = <<b>>
      BY BeginIsOne
    <3>4. row.begin[1] = BeginTime(b, Now)
      BY <3>1, <3>3 DEF TimesOf
    <3>5. BeginTime(b, Now) = ToEpoch(d[1], d[2], d[3], d[4], d[5], d[6])
      BY DEF BeginTime
    <3> HIDE DEF d
    <3>6. /\ ToEpoch(d[1], d[2], d[3], d[4], d[5], d[6])
                = <<DaysCounted(d[1], d[2], d[3]), d[4] * 3600 + d[5] * 60 + d[6]>>
          /\ FromEpoch(<<DaysCounted(d[1], d[2], d[3]),
                         d[4] * 3600 + d[5] * 60 + d[6]>>) = d
      <4>1. d \in [1 .. 6 -> Nat] /\ Real(d)
        BY <3>1, <3>2
      <4>2. QED
        BY <4>1, DateReadsBack
    <3>7. row.begin[1] = <<DaysCounted(d[1], d[2], d[3]), d[4] * 3600 + d[5] * 60 + d[6]>>
      BY <3>4, <3>5, <3>6
    <3>8. QED
      BY <3>2, <3>6, <3>7
  <2>3. ASSUME phase = "refused", OnlyDateGiven PROVE ~Real(d)
    <3>1. ~IsBegin(b) /\ d \in [1 .. 6 -> Nat]
      BY <2>3 DEF SourceInv, AskedInv, IsText
    <3>2. QED
      BY <2>1, <3>1, AcceptedIsReal
  <2>4. QED
    BY <2>2, <2>3
<1>2. QED
  BY <1>1, SourceInvIsInvariant, PTL
=============================================================================
