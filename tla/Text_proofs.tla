----------------------------- MODULE Text_proofs -----------------------------
(***************************************************************************)
(* Proofs about the two modules on texts.  Config: which source a setting  *)
(* is taken from, whatever the sources say, and at which intervals the     *)
(* agent ticks.  GaugeText: what of a gauge can be read off the text that  *)
(* it is shown as, for gauges of any size and with any number of places.   *)
(*                                                                         *)
(* strconv goes digit by digit: TimesTen, OverTen and the mantissa of      *)
(* ParseGauge are recursive functions.  Recurrence shows that there are    *)
(* such functions, Climb is the induction by which they are reasoned about.*)
(***************************************************************************)
EXTENDS GaugeText, Config, SequenceTheorems, FiniteSetTheorems, TLAPS

-----------------------------------------------------------------------------
(* Settings and texts. *)

\* Every setting is of a kind the sources know, and the agent's address is
\* among those the environment may give.
LEMMA Kinds ==
  ASSUME program \in DOMAIN Programs, NEW s \in Settings
  PROVE  /\ Kind(s) \in {"address", "string", "uint", "bool"}
         /\ Kind(s) = "address" => s \notin NoEnv[program]
<1>1. program \in {"agent", "server"}
  BY DEF Programs
<1>2. CASE program = "agent"
  BY <1>2 DEF Settings, Kind, Programs, Agent, NoEnv
<1>3. CASE program = "server"
  BY <1>3 DEF Settings, Kind, Programs, Server, NoEnv
<1> QED
  BY <1>1, <1>2, <1>3

\* A source that is silent says nothing valid.
LEMMA Silent ==
  ASSUME NEW k \in {"address", "string", "uint", "bool"}
  PROVE  Typed(k, Nothing) = {} /\ SetAddr(Nothing) = {}
<1>1. Nothing \notin Int /\ Nothing \notin BOOLEAN
  BY ConfigAssumption
<1>2. Nothing \notin 0 .. W - 1
  BY <1>1, ConfigAssumption
<1> QED
  BY <1>1, <1>2 DEF Typed, SetAddr

\* Of two sources the second counts if the first says nothing.
LEMMA ElseOf ==
  /\ \A v : Else({}, v) = v
  /\ \A meant, v, w : meant # {} => Else(meant, v) = Else(meant, w)
BY DEF Else

-----------------------------------------------------------------------------
(* What the settings are before the environment has been read. *)

\* The file, as soon as it has been read ...
FileOr(s) == Else(Valid("file", s), Builtin(Kind(s)))

\* ... then the command line, with what it makes of an address.
FlagOr(s) ==
  IF Kind(s) # "address" THEN Else(Valid("flag", s), FileOr(s))
  ELSE IF says[s]["flag"] = Nothing THEN Builtin("address")
  ELSE Else(SetAddr(says[s]["flag"]), FileOr(s))

FileRead ==
  phase = "parse" =>
    \A s \in Settings :
      /\ defaults[s] = FileOr(s)
      /\ opts[s] = IF Kind(s) = "address" THEN Builtin("address") ELSE FileOr(s)

BuiltIn ==
  phase = "init" => \A s \in Settings : /\ defaults[s] = Builtin(Kind(s))
                                        /\ opts[s] = Builtin(Kind(s))

FlagsRead == phase = "env" => \A s \in Settings : opts[s] = FlagOr(s)

EnvRead ==
  phase \in {"start", "running"} =>
    \A s \in Settings :
      opts[s] = IF s \in NoEnv[program] THEN FlagOr(s)
                ELSE Else(SetEnv(Kind(s), says[s]["env"]), FlagOr(s))

SoFar ==
  /\ program \in DOMAIN Programs
  /\ BuiltIn /\ FileRead /\ FlagsRead /\ EnvRead

LEMMA StepSoFar == SoFar /\ [ConfigNext]_configVars => SoFar'
<1> SUFFICES ASSUME SoFar, [ConfigNext]_configVars
             PROVE  SoFar'
  OBVIOUS
<1> USE DEF SoFar
<1>1. CASE StatPanics \/ ParseRefuses
  BY <1>1 DEF StatPanics, ParseRefuses, BuiltIn, FileRead, FlagsRead, EnvRead
<1>2. CASE ReadConfig
  <2>1. \A s \in Settings : defaults'[s] = FileOr(s)
    <3> SUFFICES ASSUME NEW s \in Settings
                 PROVE  defaults'[s] = FileOr(s)
      OBVIOUS
    <3>1. CASE file = "json"
      BY <1>2, <3>1 DEF ReadConfig, BuiltIn, FromFile, FileOr, Valid
    <3>2. CASE file # "json"
      BY <1>2, <3>2, ElseOf DEF ReadConfig, BuiltIn, FileOr, Valid
    <3> QED
      BY <3>1, <3>2
  <2>2. \A s \in Settings : opts'[s] = IF Kind(s) = "address"
                                         THEN Builtin("address") ELSE FileOr(s)
    BY <1>2, <2>1 DEF ReadConfig, BuiltIn
  <2>3. FileRead'
    BY <1>2, <2>1, <2>2
       DEF ReadConfig, FileRead, FileOr, Valid, Settings, Kind
  <2> QED
    BY <1>2, <2>3 DEF ReadConfig, BuiltIn, FlagsRead, EnvRead
<1>3. CASE Parse
  <2>1. \A s \in Settings : FromFlag(s) = FlagOr(s)
    <3> SUFFICES ASSUME NEW s \in Settings
                 PROVE  FromFlag(s) = FlagOr(s)
      OBVIOUS
    <3>1. /\ defaults[s] = FileOr(s)
          /\ opts[s] = IF Kind(s) = "address" THEN Builtin("address")
                       ELSE FileOr(s)
      BY <1>3 DEF Parse, FileRead
    <3>2. Typed(Kind(s), Nothing) = {}
      BY Kinds, Silent
    <3> QED
      BY <3>1, <3>2, ElseOf DEF FromFlag, FlagOr, Valid
  <2>2. FlagsRead'
    BY <1>3, <2>1
       DEF Parse, FlagsRead, FlagOr, FileOr, Valid, Settings, Kind
  <2> QED
    BY <1>3, <2>2 DEF Parse, BuiltIn, FileRead, EnvRead
<1>4. CASE Environment
  <2>1. EnvRead'
    BY <1>4 DEF Environment, FlagsRead, EnvRead, FromEnv, FlagOr, FileOr, Valid,
                Settings, Kind
  <2> QED
    BY <1>4, <2>1 DEF Environment, BuiltIn, FileRead, FlagsRead
<1>5. CASE Start
  <2>1. phase = "start" /\ phase' \in {"running", "panicked"}
        /\ UNCHANGED <<program, file, says, opts, defaults>>
    BY <1>5 DEF Start
  <2>2. EnvRead'
    BY <2>1 DEF EnvRead, FlagOr, FileOr, Valid, Settings, Kind
  <2> QED
    BY <2>1, <2>2 DEF BuiltIn, FileRead, FlagsRead
<1>6. CASE UNCHANGED configVars
  BY <1>6 DEF configVars, BuiltIn, FileRead, FlagsRead, EnvRead, FlagOr, FileOr,
              Valid, Settings, Kind
<1> QED
  BY <1>1, <1>2, <1>3, <1>4, <1>5, <1>6 DEF ConfigNext

LEMMA SoFarRanked == SoFar => Precedence
<1> SUFFICES ASSUME SoFar, phase \in {"start", "running"}, NEW s \in Settings
             PROVE  IF Kind(s) # "address" THEN opts[s] = Ranked(s)
                    ELSE LET flag == SetAddr(says[s]["flag"])
                             bad == says[s]["flag"] # Nothing /\ flag = {}
                         IN opts[s] = Else(SetAddr(says[s]["env"]), Else(flag,
                                        IF bad THEN Else(Valid("file", s),
                                                         Builtin("address"))
                                               ELSE Builtin("address")))
  BY DEF Precedence
<1>1. opts[s] = IF s \in NoEnv[program] THEN FlagOr(s)
                ELSE Else(SetEnv(Kind(s), says[s]["env"]), FlagOr(s))
  BY DEF SoFar, EnvRead
<1>2. CASE Kind(s) # "address"
  BY <1>1, <1>2, ElseOf DEF Ranked, FlagOr, FileOr, Valid
<1>3. CASE Kind(s) = "address"
  <2>1. opts[s] = Else(SetAddr(says[s]["env"]), FlagOr(s))
    BY <1>1, <1>3, Kinds DEF SoFar, SetEnv
  <2>2. CASE says[s]["flag"] = Nothing
    BY <1>3, <2>1, <2>2, Silent, ElseOf DEF FlagOr
  <2>3. CASE says[s]["flag"] # Nothing /\ SetAddr(says[s]["flag"]) = {}
    BY <1>3, <2>1, <2>3 DEF FlagOr, FileOr
  <2>4. CASE says[s]["flag"] # Nothing /\ SetAddr(says[s]["flag"]) # {}
    <3>1. FlagOr(s) = Else(SetAddr(says[s]["flag"]), Builtin("address"))
      BY <1>3, <2>4, ElseOf DEF FlagOr
    <3> QED
      BY <1>3, <2>1, <2>4, <3>1
  <2> QED
    BY <2>2, <2>3, <2>4
<1> QED
  BY <1>2, <1>3

\* Whatever the file, the command line and the environment say, a setting is
\* taken from the highest of them that says something valid; but for the
\* agent's address, which the file gives only where the command line fails to.
THEOREM Ranking == ConfigSpec => []Precedence
<1>1. ConfigInit => SoFar
  BY DEF ConfigInit, SoFar, BuiltIn, FileRead, FlagsRead, EnvRead, Settings, Kind
<1> QED
  BY <1>1, StepSoFar, SoFarRanked, PTL DEF ConfigSpec

-----------------------------------------------------------------------------
(* Durations. *)

\* What W and Second are, with the half of W.
LEMMA Widths ==
  /\ W \in Nat /\ W >= 4 /\ W \div 2 \in Nat /\ W = 2 * (W \div 2)
  /\ Second \in Nat /\ Second >= 1 /\ Second <= W \div 2 - 1
BY ConfigAssumption

\* Multiplication is monotone.
LEMMA Times ==
  \A a, b, c \in Nat : a <= b => a * c <= b * c /\ a * c \in Nat /\ b * c \in Nat
OBVIOUS

\* As many seconds as a duration can hold.
LEMMA Longest ==
  /\ MaxSeconds \in Nat
  /\ \A a \in 0 .. MaxSeconds : a * Second \in 0 .. W \div 2 - 1
<1> DEFINE h == W \div 2 - 1
<1>1. h \in Nat /\ Second \in Nat \ {0}
  BY Widths
<1>2. h \div Second \in Nat /\ (h \div Second) * Second <= h
  <2> HIDE DEF h
  <2>1. h = (h \div Second) * Second + (h % Second)
    BY <1>1
  <2>2. h % Second \in Nat /\ h \div Second \in Nat
    BY <1>1
  <2>3. (h \div Second) * Second \in Nat
    BY <1>1, <2>2
  <2> QED
    BY <1>1, <2>1, <2>2, <2>3
<1>3. MaxSeconds = h \div Second
  BY DEF MaxSeconds
<1> HIDE DEF h
<1>4. ASSUME NEW a \in 0 .. MaxSeconds
      PROVE  a * Second \in 0 .. h
  <2>1. a \in Nat /\ a <= h \div Second
    BY <1>2, <1>3
  <2>2. a * Second <= (h \div Second) * Second /\ a * Second \in Nat
    BY <1>1, <1>2, <2>1, Times
  <2>3. (h \div Second) * Second \in Nat
    BY <1>1, <1>2, Times
  <2> QED
    BY <1>1, <1>2, <2>2, <2>3
<1> QED
  BY <1>2, <1>3, <1>4 DEF h

\* Whole widths do not count.
LEMMA Wraps ==
  ASSUME NEW p \in Nat, NEW r \in 0 .. W - 1
  PROVE  (p * W + r) % W = r
<1>1. W \in Nat \ {0}
  BY Widths
<1> QED
  BY <1>1

\* A number of seconds within the limit, positive or not, becomes that many
\* seconds, though a negative one is first made into a uint.
LEMMA PeriodOf ==
  ASSUME NEW a \in -MaxSeconds .. MaxSeconds, NEW n \in 0 .. W - 1,
         n = a \/ n = a + W
  PROVE  Period(n) = a * Second
<1>1. W \in Nat \ {0} /\ W \div 2 \in Nat /\ W = 2 * (W \div 2) /\ Second \in Nat \ {0}
  BY Widths
<1>2. MaxSeconds \in Nat /\ a \in Int
  BY Longest
<1>3. CASE a >= 0
  <2>1. a \in 0 .. MaxSeconds
    BY <1>2, <1>3
  <2>2. a * Second \in 0 .. W \div 2 - 1
    BY <2>1, Longest
  <2>3. n = a
    BY <1>1, <1>2, <1>3
  <2>4. a * Second \in Nat /\ a * Second < W \div 2 /\ a * Second < W
    BY <1>1, <2>2
  <2>5. (a * Second) % W = a * Second
    BY <1>1, <2>4
  <2> QED
    BY <2>3, <2>4, <2>5 DEF Period
<1>4. CASE a < 0
  <2> DEFINE b == -a
  <2>1. b \in 0 .. MaxSeconds /\ b > 0 /\ a = -b
    BY <1>2, <1>4
  <2>2. b * Second \in 0 .. W \div 2 - 1
    BY <2>1, Longest
  <2>3. b * Second >= 1
    <3>1. 1 * Second <= b * Second
      BY <1>1, <1>2, <2>1, Times
    <3> QED
      BY <1>1, <3>1
  <2>4. n = W - b
    BY <1>1, <1>2, <1>4, <2>1
  <2> HIDE DEF b
  <2>5. n * Second = (Second - 1) * W + (W - b * Second)
    <3>1. b \in Int /\ W \in Int /\ Second \in Int
      BY <1>1, <1>2, <2>1
    <3> QED
      BY <2>4, <3>1
  <2>6. W - b * Second \in 0 .. W - 1 /\ W - b * Second >= W \div 2
    BY <1>1, <2>2, <2>3
  <2>7. (n * Second) % W = W - b * Second
    <3>1. Second - 1 \in Nat
      BY <1>1
    <3> QED
      BY <2>5, <2>6, <3>1, Wraps
  <2>8. a * Second = -(b * Second)
    BY <1>1, <1>2, <2>1
  <2>9. Period(n) = (W - b * Second) - W
    BY <1>1, <2>6, <2>7 DEF Period
  <2> QED
    BY <1>1, <2>2, <2>8, <2>9
<1> QED
  BY <1>2, <1>3, <1>4

\* Every period is an int64.
LEMMA PeriodType ==
  ASSUME NEW n \in 0 .. W - 1
  PROVE  Period(n) \in Int /\ Period(n) <= W \div 2 - 1
<1>1. W \in Nat \ {0} /\ W \div 2 \in Nat /\ W = 2 * (W \div 2) /\ Second \in Nat
  BY Widths
<1>2. n * Second \in Nat
  BY <1>1, Times
<1>3. (n * Second) % W \in 0 .. W - 1
  BY <1>1, <1>2
<1> QED
  BY <1>1, <1>3 DEF Period


-----------------------------------------------------------------------------
(* The agent's intervals. *)

LEMMA IntervalKinds ==
  ASSUME program = "agent", NEW s \in Intervals
  PROVE  s \in Settings /\ Kind(s) = "uint" /\ s \notin NoEnv[program]
BY DEF Intervals, Settings, Kind, Programs, Agent, NoEnv

LEMMA ElseType ==
  \A S, meant, v : meant \subseteq S /\ v \in S => Else(meant, v) \in S
BY DEF Else

\* What an interval is set to is a uint; and if the number asked for is within
\* the limit, its period is that number of seconds.
LEMMA Meant ==
  ASSUME program = "agent", NEW s \in Intervals
  PROVE  /\ Ranked(s) \in 0 .. W - 1
         /\ Asked(s) \in -MaxSeconds .. MaxSeconds =>
              Period(Ranked(s)) = Asked(s) * Second
<1> DEFINE t == says[s]["env"]
           R == -(W \div 2) .. W \div 2 - 1
           rest == Else(Valid("flag", s), Else(Valid("file", s), Builtin(Kind(s))))
<1>1. Kind(s) = "uint" /\ s \notin NoEnv[program]
  BY IntervalKinds
<1>2. W \in Nat \ {0} /\ W \div 2 \in Nat /\ W = 2 * (W \div 2) /\ 2 \in 0 .. W - 1
  BY Widths
<1>3. Valid("env", s) = {n % W : n \in {t} \cap R}
  BY <1>1 DEF Valid, SetEnv, SetEnvUint
<1>4. rest \in 0 .. W - 1
  <2>1. Valid("flag", s) \subseteq 0 .. W - 1
    BY <1>1 DEF Valid, Typed
  <2>2. Valid("file", s) \subseteq 0 .. W - 1
    BY <1>1 DEF Valid, Typed
  <2>3. Builtin(Kind(s)) \in 0 .. W - 1
    BY <1>1, <1>2 DEF Builtin
  <2> QED
    BY <2>1, <2>2, <2>3, ElseType
<1>5. Ranked(s) = Else(Valid("env", s), rest)
  BY DEF Ranked
<1>6. Asked(s) = Else({t} \cap R, Ranked(s))
  BY DEF Asked
<1> HIDE DEF rest, t
<1>7. CASE t \in R
  <2>1. {t} \cap R = {t} /\ Valid("env", s) = {t % W}
    BY <1>3, <1>7
  <2>2. Asked(s) = t /\ Ranked(s) = t % W
    BY <1>5, <1>6, <2>1 DEF Else
  <2>3. t % W \in 0 .. W - 1 /\ (t % W = t \/ t % W = t + W)
    <3>1. t \in Int /\ -(W \div 2) <= t /\ t < W \div 2
      BY <1>2, <1>7
    <3>2. CASE t >= 0
      BY <1>2, <3>1, <3>2
    <3>3. CASE t < 0
      BY <1>2, <3>1, <3>3
    <3> QED
      BY <3>1, <3>2, <3>3
  <2> QED
    BY <2>2, <2>3, PeriodOf
<1>8. CASE t \notin R
  <2>1. {t} \cap R = {} /\ Valid("env", s) = {}
    BY <1>3, <1>8
  <2>2. Asked(s) = rest /\ Ranked(s) = rest
    BY <1>5, <1>6, <2>1, ElseOf
  <2> QED
    BY <1>4, <2>2, PeriodOf
<1> QED
  BY <1>7, <1>8

\* An agent that has got as far as its tickers has given them the periods of
\* its settings, and runs if none of them is zero or negative.
Ticking ==
  program = "agent"
    /\ (phase = "running" \/ (phase = "panicked" /\ file # "forbidden")) =>
      /\ \A s \in Intervals : period[s] = Period(Ranked(s))
      /\ phase = "running" => \A s \in Intervals : period[s] > 0
      /\ phase = "panicked" => \E s \in Intervals : ~(period[s] > 0)

LEMMA StepTicking == SoFar /\ Ticking /\ [ConfigNext]_configVars => Ticking'
<1> SUFFICES ASSUME SoFar, Ticking, [ConfigNext]_configVars, program' = "agent",
                    phase' = "running" \/ (phase' = "panicked" /\ file' # "forbidden")
             PROVE  /\ \A s \in Intervals : period'[s] = Period(Ranked(s))'
                    /\ phase' = "running" => \A s \in Intervals : period'[s] > 0
                    /\ phase' = "panicked" =>
                         \E s \in Intervals : ~(period'[s] > 0)
  BY DEF Ticking
<1>1. UNCHANGED <<program, file, says>>
  BY DEF ConfigNext, configVars, StatPanics, ReadConfig, ParseRefuses, Parse,
         Environment, Start
<1>2. \A s \in Intervals : Period(Ranked(s))' = Period(Ranked(s))
  BY <1>1 DEF Period, Ranked, Valid, Kind
<1>3. CASE Start
  <2>1. phase = "start" /\ program = "agent"
    BY <1>1, <1>3 DEF Start
  <2>2. /\ period' = [s \in Intervals |-> Period(opts[s])]
        /\ phase' = IF \A s \in Intervals : period'[s] > 0
                      THEN "running" ELSE "panicked"
    BY <1>3, <2>1 DEF Start
  <2>3. \A s \in Intervals : opts[s] = Ranked(s)
    BY <2>1, IntervalKinds, SoFarRanked DEF Precedence
  <2> QED
    BY <1>2, <2>2, <2>3
<1>4. CASE StatPanics \/ ReadConfig \/ ParseRefuses \/ Parse \/ Environment
  BY <1>1, <1>4 DEF StatPanics, ReadConfig, ParseRefuses, Parse, Environment
<1>5. CASE UNCHANGED configVars
  <2>1. UNCHANGED <<phase, period>>
    BY <1>5 DEF configVars
  <2> QED
    BY <1>1, <1>2, <2>1 DEF Ticking
<1> QED
  BY <1>3, <1>4, <1>5 DEF ConfigNext

\* Whatever the width of a duration and whoever asks for it: an agent that runs
\* ticks at the intervals it was asked for, in seconds that fit into a
\* duration, and one that panics was asked for others.
THEOREM Periods == ConfigSpec => []PeriodAsAsked
<1>1. ConfigInit => SoFar /\ Ticking
  BY DEF ConfigInit, SoFar, BuiltIn, FileRead, FlagsRead, EnvRead, Ticking,
         Settings, Kind
<1>2. SoFar /\ Ticking => PeriodAsAsked
  <2> SUFFICES ASSUME Ticking, program = "agent"
               PROVE  /\ phase = "running" =>
                           \A s \in Intervals :
                             /\ Asked(s) \in -MaxSeconds .. MaxSeconds =>
                                  /\ Asked(s) > 0
                                  /\ period[s] = Asked(s) * Second
                             /\ period[s] \in 1 .. W \div 2 - 1
                      /\ phase = "panicked" /\ file # "forbidden" =>
                           \E s \in Intervals : Asked(s) \notin 1 .. MaxSeconds
    BY DEF PeriodAsAsked
  <2>1. W \div 2 \in Nat /\ Second \in Nat /\ Second >= 1 /\ MaxSeconds \in Nat
    BY Widths, Longest
  <2>2. ASSUME phase = "running", NEW s \in Intervals
        PROVE  /\ Asked(s) \in -MaxSeconds .. MaxSeconds =>
                    Asked(s) > 0 /\ period[s] = Asked(s) * Second
               /\ period[s] \in 1 .. W \div 2 - 1
    <3>1. period[s] = Period(Ranked(s)) /\ period[s] > 0
      BY <2>2 DEF Ticking
    <3>2. period[s] \in 1 .. W \div 2 - 1
      BY <2>1, <3>1, Meant, PeriodType
    <3>3. ASSUME Asked(s) \in -MaxSeconds .. MaxSeconds
          PROVE  Asked(s) > 0 /\ period[s] = Asked(s) * Second
      <4> DEFINE a == Asked(s)
      <4>1. a \in Int /\ period[s] = a * Second
        BY <2>1, <3>1, <3>3, Meant
      <4> HIDE DEF a
      <4>2. a * Second > 0
        BY <3>1, <4>1
      <4>3. ASSUME ~(a > 0)
            PROVE  FALSE
        <5>1. -a \in Nat /\ 0 * Second <= (-a) * Second
          BY <2>1, <4>1, <4>3, Times
        <5>2. (-a) * Second = -(a * Second)
          BY <2>1, <4>1
        <5> QED
          BY <2>1, <4>1, <4>2, <5>1, <5>2
      <4> QED
        BY <4>1, <4>3 DEF a
    <3> QED
      BY <3>2, <3>3
  <2>3. ASSUME phase = "panicked", file # "forbidden"
        PROVE  \E s \in Intervals : Asked(s) \notin 1 .. MaxSeconds
    <3>1. PICK s \in Intervals : ~(period[s] > 0)
      BY <2>3 DEF Ticking
    <3>2. ASSUME Asked(s) \in 1 .. MaxSeconds
          PROVE  FALSE
      <4>1. period[s] = Asked(s) * Second
        BY <2>1, <2>3, <3>2, Meant DEF Ticking
      <4> DEFINE a == Asked(s)
      <4>2. a \in Nat /\ a >= 1
        BY <2>1, <3>2
      <4> HIDE DEF a
      <4>3. 1 * Second <= a * Second /\ a * Second \in Nat
        BY <2>1, <4>2, Times
      <4> QED
        BY <2>1, <3>1, <4>1, <4>3 DEF a
    <3> QED
      BY <3>2
  <2> QED
    BY <2>2, <2>3
<1> QED
  BY <1>1, <1>2, StepSoFar, StepTicking, PTL DEF ConfigSpec

-----------------------------------------------------------------------------
(* Induction and recursion, up to a number. *)

\* Whatever holds of 0 and goes from a number below n to the next holds of n.
LEMMA Climb ==
  ASSUME NEW n \in Nat, NEW T, 0 \in T,
         \A k \in 0 .. n - 1 : k \in T => k + 1 \in T
  PROVE  n \in T
<1> SUFFICES ASSUME n \notin T
             PROVE  FALSE
  OBVIOUS
<1> DEFINE All == 0 .. n
           Segments == {0 .. k : k \in All \ T}
<1>1. IsWellFoundedOn(StrictSubsetOrdering(All), SUBSET All)
  <2>1. IsFiniteSet(All)
    BY FS_Interval
  <2> QED
    BY <2>1, FS_StrictSubsetOrderingWellFounded, FS_FiniteSubsetsOfFinite
<1>2. Segments \subseteq SUBSET All /\ Segments # {}
  OBVIOUS
<1>3. PICK x \in Segments :
        \A y \in Segments : <<y, x>> \notin StrictSubsetOrdering(All)
  <2> HIDE DEF Segments, All
  <2> QED
    BY <1>1, <1>2, WFMin
<1>4. PICK m \in All \ T : x = 0 .. m
  OBVIOUS
<1>5. m # 0 /\ m - 1 \in All \ T
  OBVIOUS
<1>6. /\ 0 .. m - 1 \in Segments
      /\ 0 .. m - 1 \in SUBSET All /\ 0 .. m \in SUBSET All
  BY <1>5
<1>7. 0 .. m - 1 \subseteq 0 .. m /\ m \in 0 .. m /\ m \notin 0 .. m - 1
  BY <1>5
<1> HIDE DEF Segments
<1> QED
  BY <1>3, <1>4, <1>6, <1>7 DEF StrictSubsetOrdering

\* A set of numbers up to n that is not empty has a greatest element.
LEMMA Greatest ==
  ASSUME NEW n \in Nat, NEW S, S \subseteq 0 .. n, S # {}
  PROVE  Max(S) \in S /\ \A y \in S : y <= Max(S)
<1> DEFINE Has(R) == \E x \in R : \A y \in R : x >= y
           T == {k \in 0 .. n : \A R \in SUBSET (0 .. k) : R # {} => Has(R)}
<1>1. 0 \in T
  <2>1. ASSUME NEW R \in SUBSET (0 .. 0), R # {}
        PROVE  Has(R)
    <3>1. \A y \in R : y = 0
      OBVIOUS
    <3>2. 0 \in R
      BY <2>1, <3>1
    <3> QED
      BY <3>1, <3>2
  <2> QED
    BY <2>1
<1>2. ASSUME NEW k \in 0 .. n - 1, k \in T
      PROVE  k + 1 \in T
  <2>1. ASSUME NEW R \in SUBSET (0 .. k + 1), R # {}
        PROVE  Has(R)
    <3>1. CASE k + 1 \in R
      <4>1. \A y \in R : k + 1 >= y
        OBVIOUS
      <4> QED
        BY <3>1, <4>1
    <3>2. CASE k + 1 \notin R
      <4>1. R \in SUBSET (0 .. k)
        BY <3>2
      <4> QED
        BY <1>2, <2>1, <4>1
    <3> QED
      BY <3>1, <3>2
  <2> HIDE DEF Has
  <2> QED
    BY <2>1
<1>3. n \in T
  <2> HIDE DEF T
  <2> QED
    BY <1>1, <1>2, Climb
<1>4. PICK x \in S : \A y \in S : x >= y
  BY <1>3
<1>5. Max(S) \in S /\ \A y \in S : Max(S) >= y
  BY <1>4 DEF Max
<1> QED
  BY <1>5

\* A recurrence over the first n numbers has a solution.
LEMMA Recurrence ==
  ASSUME NEW n \in Nat, NEW a \in Nat,
         NEW step \in [(1 .. n) \X Nat -> Nat]
  PROVE  \E f \in [0 .. n -> Nat] :
           f[0] = a /\ \A i \in 1 .. n : f[i] = step[<<i, f[i - 1]>>]
<1> DEFINE Solves(f, k) == /\ f \in [0 .. k -> Nat] /\ f[0] = a
                           /\ \A i \in 1 .. k : f[i] = step[<<i, f[i - 1]>>]
           T == {k \in 0 .. n : \E f : Solves(f, k)}
<1>1. 0 \in T
  <2> DEFINE f == [i \in 0 .. 0 |-> a]
  <2>1. f \in [0 .. 0 -> Nat] /\ f[0] = a /\ 1 .. 0 = {}
    OBVIOUS
  <2>2. Solves(f, 0)
    <3> HIDE DEF f
    <3> QED
      BY <2>1
  <2> HIDE DEF f, Solves
  <2> QED
    BY <2>2
<1>2. ASSUME NEW k \in 0 .. n - 1, k \in T
      PROVE  k + 1 \in T
  <2>1. PICK f : Solves(f, k)
    BY <1>2
  <2>2. /\ f \in [0 .. k -> Nat] /\ f[0] = a /\ f[k] \in Nat
        /\ \A i \in 1 .. k : f[i] = step[<<i, f[i - 1]>>]
    BY <2>1
  <2> DEFINE next == step[<<k + 1, f[k]>>]
             g == [i \in 0 .. k + 1 |-> IF i = k + 1 THEN next ELSE f[i]]
  <2>3. next \in Nat
    <3>1. <<k + 1, f[k]>> \in (1 .. n) \X Nat
      BY <2>2
    <3> QED
      BY <3>1
  <2> HIDE DEF next
  <2>4. /\ \A i \in 0 .. k : i # k + 1 /\ i \in 0 .. k + 1
        /\ k + 1 \in 0 .. k + 1 /\ k \in 0 .. k /\ 0 \in 0 .. k
        /\ \A i \in 0 .. k + 1 : i # k + 1 => i \in 0 .. k
        /\ \A i \in 1 .. k : i \in 0 .. k /\ i - 1 \in 0 .. k
        /\ \A i \in 1 .. k + 1 : i # k + 1 => i \in 1 .. k
        /\ k + 1 - 1 = k
    OBVIOUS
  <2>5. g \in [0 .. k + 1 -> Nat]
    BY <2>2, <2>3, <2>4
  <2>6. g[k + 1] = next /\ \A i \in 0 .. k : g[i] = f[i]
    BY <2>4
  <2> HIDE DEF g
  <2>7. ASSUME NEW i \in 1 .. k + 1
        PROVE  g[i] = step[<<i, g[i - 1]>>]
    <3>1. CASE i = k + 1
      BY <2>4, <2>6, <3>1 DEF next
    <3>2. CASE i # k + 1
      <4>1. i \in 1 .. k /\ i \in 0 .. k /\ i - 1 \in 0 .. k
        BY <2>4, <3>2
      <4>2. g[i] = f[i] /\ g[i - 1] = f[i - 1]
        BY <2>6, <4>1
      <4> QED
        BY <2>2, <4>1, <4>2
    <3> QED
      BY <3>1, <3>2
  <2>8. Solves(g, k + 1)
    BY <2>2, <2>4, <2>5, <2>6, <2>7
  <2> HIDE DEF Solves
  <2> QED
    BY <2>8
<1>3. n \in T
  <2> HIDE DEF T
  <2> QED
    BY <1>1, <1>2, Climb
<1> QED
  BY <1>3

\* How far a number may be shifted.
LEMMA ShiftRange ==
  ASSUME SomePlaces
  PROVE  /\ Places \in Nat \ {0} /\ Limit \in Nat \ {0}
         /\ Places + Limit \in Nat
         /\ Shifts = 0 .. Places + Limit
BY DEF SomePlaces, Shifts

\* Shifting to the left multiplies by ten at every place.
LEMMA LeftShift ==
  ASSUME SomePlaces, NEW n \in Nat
  PROVE  /\ TimesTen(n, 0) = n
         /\ \A i \in Shifts : TimesTen(n, i) \in Nat
         /\ \A i \in 1 .. Places + Limit :
              TimesTen(n, i) = 10 * TimesTen(n, i - 1)
<1> DEFINE top == Places + Limit
           step == [p \in (1 .. top) \X Nat |-> 10 * p[2]]
           Is(f) == f = [j \in Shifts |-> IF j = 0 THEN n ELSE 10 * f[j - 1]]
           shifted == CHOOSE f : Is(f)
<1>1. top \in Nat /\ Shifts = 0 .. top
  BY ShiftRange
<1> HIDE DEF top
<1>2. step \in [(1 .. top) \X Nat -> Nat]
  OBVIOUS
<1>3. \A i \in 1 .. top, x \in Nat : step[<<i, x>>] = 10 * x
  OBVIOUS
<1> HIDE DEF step
<1>4. PICK f \in [0 .. top -> Nat] :
        f[0] = n /\ \A i \in 1 .. top : f[i] = step[<<i, f[i - 1]>>]
  BY <1>1, <1>2, Recurrence
<1>5. ASSUME NEW j \in Shifts
      PROVE  f[j] = IF j = 0 THEN n ELSE 10 * f[j - 1]
  <2>1. CASE j = 0
    BY <1>4, <2>1
  <2>2. CASE j # 0
    <3>1. j \in 1 .. top /\ j - 1 \in 0 .. top
      BY <1>1, <2>2
    <3>2. f[j - 1] \in Nat
      BY <1>4, <3>1
    <3>3. f[j] = step[<<j, f[j - 1]>>]
      BY <1>4, <3>1
    <3>4. f[j] = 10 * f[j - 1]
      BY <1>3, <3>1, <3>2, <3>3
    <3> QED
      BY <2>2, <3>4
  <2> QED
    BY <2>1, <2>2
<1>6. Is(f)
  BY <1>1, <1>4, <1>5
<1>7. Is(shifted)
  <2> HIDE DEF Is
  <2> QED
    BY <1>6
<1>8. \A i : TimesTen(n, i) = shifted[i]
  BY DEF TimesTen
<1> HIDE DEF shifted
<1>9. \A j \in Shifts : shifted[j] = IF j = 0 THEN n ELSE 10 * shifted[j - 1]
  BY <1>7
<1> DEFINE T == {i \in Shifts : shifted[i] \in Nat}
<1>10. ASSUME NEW i \in Shifts
       PROVE  i \in T
  <2>1. 0 \in T
    BY <1>1, <1>9
  <2>2. ASSUME NEW k \in 0 .. i - 1, k \in T
        PROVE  k + 1 \in T
    <3>1. k + 1 \in Shifts /\ k + 1 # 0 /\ k + 1 - 1 = k
      BY <1>1
    <3>2. shifted[k + 1] = 10 * shifted[k]
      BY <1>9, <3>1
    <3> QED
      BY <2>2, <3>1, <3>2
  <2>3. i \in Nat
    BY <1>1
  <2> HIDE DEF T
  <2> QED
    BY <2>1, <2>2, <2>3, Climb
<1>11. \A i \in 1 .. top : i \in Shifts /\ i # 0
  BY <1>1
<1>12. shifted[0] = n
  <2>1. 0 \in Shifts
    BY <1>1
  <2> QED
    BY <1>9, <2>1
<1>13. ASSUME NEW i \in 1 .. top
       PROVE  TimesTen(n, i) = 10 * TimesTen(n, i - 1)
  <2>1. shifted[i] = 10 * shifted[i - 1]
    BY <1>9, <1>11
  <2> QED
    BY <1>8, <2>1
<1>14. \A i \in Shifts : TimesTen(n, i) \in Nat
  BY <1>8, <1>10
<1> QED
  BY <1>8, <1>12, <1>13, <1>14 DEF top

\* Shifting to the right divides by ten at every place.
LEMMA RightShift ==
  ASSUME SomePlaces, NEW n \in Nat
  PROVE  /\ OverTen(n, 0) = n
         /\ \A i \in Shifts : OverTen(n, i) \in Nat
         /\ \A i \in 1 .. Places + Limit :
              OverTen(n, i) = OverTen(n, i - 1) \div 10
<1> DEFINE top == Places + Limit
           step == [p \in (1 .. top) \X Nat |-> p[2] \div 10]
           Is(f) == f = [j \in Shifts |-> IF j = 0 THEN n ELSE f[j - 1] \div 10]
           shifted == CHOOSE f : Is(f)
<1>1. top \in Nat /\ Shifts = 0 .. top
  BY ShiftRange
<1> HIDE DEF top
<1>2. step \in [(1 .. top) \X Nat -> Nat]
  OBVIOUS
<1>3. \A i \in 1 .. top, x \in Nat : step[<<i, x>>] = x \div 10
  OBVIOUS
<1> HIDE DEF step
<1>4. PICK f \in [0 .. top -> Nat] :
        f[0] = n /\ \A i \in 1 .. top : f[i] = step[<<i, f[i - 1]>>]
  BY <1>1, <1>2, Recurrence
<1>5. ASSUME NEW j \in Shifts
      PROVE  f[j] = IF j = 0 THEN n ELSE f[j - 1] \div 10
  <2>1. CASE j = 0
    BY <1>4, <2>1
  <2>2. CASE j # 0
    <3>1. j \in 1 .. top /\ j - 1 \in 0 .. top
      BY <1>1, <2>2
    <3>2. f[j - 1] \in Nat
      BY <1>4, <3>1
    <3>3. f[j] = step[<<j, f[j - 1]>>]
      BY <1>4, <3>1
    <3>4. f[j] = f[j - 1] \div 10
      BY <1>3, <3>1, <3>2, <3>3
    <3> QED
      BY <2>2, <3>4
  <2> QED
    BY <2>1, <2>2
<1>6. Is(f)
  BY <1>1, <1>4, <1>5
<1>7. Is(shifted)
  <2> HIDE DEF Is
  <2> QED
    BY <1>6
<1>8. \A i : OverTen(n, i) = shifted[i]
  BY DEF OverTen
<1> HIDE DEF shifted
<1>9. \A j \in Shifts : shifted[j] = IF j = 0 THEN n ELSE shifted[j - 1] \div 10
  BY <1>7
<1> DEFINE T == {i \in Shifts : shifted[i] \in Nat}
<1>10. ASSUME NEW i \in Shifts
       PROVE  i \in T
  <2>1. 0 \in T
    BY <1>1, <1>9
  <2>2. ASSUME NEW k \in 0 .. i - 1, k \in T
        PROVE  k + 1 \in T
    <3>1. k + 1 \in Shifts /\ k + 1 # 0 /\ k + 1 - 1 = k
      BY <1>1
    <3>2. shifted[k + 1] = shifted[k] \div 10
      BY <1>9, <3>1
    <3> QED
      BY <2>2, <3>1, <3>2
  <2>3. i \in Nat
    BY <1>1
  <2> HIDE DEF T
  <2> QED
    BY <2>1, <2>2, <2>3, Climb
<1>11. \A i \in 1 .. top : i \in Shifts /\ i # 0
  BY <1>1
<1>12. shifted[0] = n
  <2>1. 0 \in Shifts
    BY <1>1
  <2> QED
    BY <1>9, <2>1
<1>13. ASSUME NEW i \in 1 .. top
       PROVE  OverTen(n, i) = OverTen(n, i - 1) \div 10
  <2>1. shifted[i] = shifted[i - 1] \div 10
    BY <1>9, <1>11
  <2> QED
    BY <1>8, <2>1
<1>14. \A i \in Shifts : OverTen(n, i) \in Nat
  BY <1>8, <1>10
<1> QED
  BY <1>8, <1>12, <1>13, <1>14 DEF top

\* A number below a power of ten has no digits from there on.
LEMMA FewDigits ==
  ASSUME SomePlaces, NEW n \in Nat, NEW w \in Shifts, n < TimesTen(1, w)
  PROVE  OverTen(n, w) = 0
<1> DEFINE T == {i \in Shifts : i <= w => OverTen(n, i) < TimesTen(1, w - i)}
<1>1. 0 \in T
  BY ShiftRange, RightShift
<1>2. ASSUME NEW k \in 0 .. w - 1, k \in T
      PROVE  k + 1 \in T
  <2>1. /\ k + 1 \in 1 .. Places + Limit /\ k \in Shifts /\ k + 1 \in Shifts
        /\ w - k \in 1 .. Places + Limit /\ w - (k + 1) \in Shifts
        /\ k + 1 - 1 = k /\ w - k - 1 = w - (k + 1) /\ k <= w
    BY ShiftRange
  <2>2. OverTen(n, k + 1) = OverTen(n, k) \div 10 /\ OverTen(n, k) \in Nat
    BY <2>1, RightShift
  <2>3. /\ TimesTen(1, w - k) = 10 * TimesTen(1, w - (k + 1))
        /\ TimesTen(1, w - (k + 1)) \in Nat
    BY <2>1, LeftShift
  <2>4. OverTen(n, k) < TimesTen(1, w - k)
    BY <1>2, <2>1
  <2>5. OverTen(n, k + 1) < TimesTen(1, w - (k + 1))
    BY <2>2, <2>3, <2>4
  <2> QED
    BY <2>1, <2>5
<1>3. w \in T
  <2>1. w \in Nat
    BY ShiftRange
  <2> HIDE DEF T
  <2> QED
    BY <1>1, <1>2, <2>1, Climb
<1>4. OverTen(n, w) < TimesTen(1, w - w) /\ w - w = 0
  BY <1>3, ShiftRange
<1> QED
  BY <1>4, LeftShift, RightShift

\* What is left after i digits and then j more, is left after i + j.
LEMMA RightTwice ==
  ASSUME SomePlaces,
         NEW n \in Nat, NEW i \in Shifts, NEW j \in Shifts, i + j \in Shifts
  PROVE  OverTen(OverTen(n, i), j) = OverTen(n, i + j)
<1> DEFINE m == OverTen(n, i)
           T == {k \in Shifts : i + k \in Shifts
                                  => OverTen(m, k) = OverTen(n, i + k)}
<1>1. m \in Nat
  BY RightShift
<1>2. 0 \in T
  BY <1>1, ShiftRange, RightShift
<1> HIDE DEF m
<1>3. ASSUME NEW k \in 0 .. j - 1, k \in T
      PROVE  k + 1 \in T
  <2>1. /\ k + 1 \in 1 .. Places + Limit /\ i + k \in Shifts
        /\ k + 1 \in Shifts /\ i + (k + 1) \in 1 .. Places + Limit
        /\ k + 1 - 1 = k /\ i + (k + 1) - 1 = i + k
    BY ShiftRange
  <2>2. OverTen(m, k + 1) = OverTen(m, k) \div 10
    BY <1>1, <2>1, RightShift
  <2> DEFINE b == i + (k + 1)
  <2>3. OverTen(n, b) = OverTen(n, i + k) \div 10
    <3>1. b \in 1 .. Places + Limit /\ b - 1 = i + k
      BY <2>1, ShiftRange
    <3> HIDE DEF b
    <3>2. OverTen(n, b) = OverTen(n, b - 1) \div 10
      BY <3>1, RightShift
    <3> QED
      BY <3>1, <3>2
  <2> QED
    BY <1>3, <2>1, <2>2, <2>3
<1>4. j \in T
  <2>1. j \in Nat
    BY ShiftRange
  <2> HIDE DEF T
  <2> QED
    BY <1>2, <1>3, <2>1, Climb
<1> QED
  BY <1>4 DEF m

\* If the last z digits of n are zeros, they can be put back.
LEMMA ZerosPutBack ==
  ASSUME SomePlaces, NEW n \in Nat, NEW z \in Shifts,
         \A i \in 0 .. z - 1 : OverTen(n, i) % 10 = 0
  PROVE  TimesTen(OverTen(n, z), z) = n
<1> DEFINE m == OverTen(n, z)
           T == {i \in Shifts : i <= z => TimesTen(m, i) = OverTen(n, z - i)}
<1>1. m \in Nat
  BY RightShift
<1>2. 0 \in T
  <2>1. z - 0 = z
    BY ShiftRange
  <2> QED
    BY <1>1, <2>1, ShiftRange, LeftShift
<1> HIDE DEF m
<1>3. ASSUME NEW k \in 0 .. z - 1, k \in T
      PROVE  k + 1 \in T
  <2> DEFINE l == z - (k + 1)
  <2>1. /\ k + 1 \in 1 .. Places + Limit /\ k + 1 \in Shifts /\ k <= z
        /\ z - k \in 1 .. Places + Limit /\ l \in Shifts /\ l \in 0 .. z - 1
        /\ k + 1 - 1 = k /\ z - k - 1 = l
    BY ShiftRange
  <2>2. TimesTen(m, k + 1) = 10 * TimesTen(m, k)
    BY <1>1, <2>1, LeftShift
  <2>3. OverTen(n, z - k) = OverTen(n, l) \div 10
    BY <2>1, RightShift
  <2>4. OverTen(n, l) % 10 = 0 /\ OverTen(n, l) \in Nat
    BY <2>1, RightShift
  <2>5. TimesTen(m, k) = OverTen(n, z - k)
    BY <1>3, <2>1
  <2> HIDE DEF l
  <2>6. TimesTen(m, k + 1) = OverTen(n, l)
    BY <2>2, <2>3, <2>4, <2>5
  <2> QED
    BY <2>1, <2>6 DEF l
<1>4. z \in T
  <2>1. z \in Nat
    BY ShiftRange
  <2> HIDE DEF T
  <2> QED
    BY <1>2, <1>3, <2>1, Climb
<1>5. TimesTen(m, z) = OverTen(n, z - z) /\ z - z = 0
  BY <1>4, ShiftRange
<1> QED
  BY <1>5, RightShift DEF m

\* Shifting to the left by i and then by j is shifting by i + j, and multiplies
\* by the power of ten.
LEMMA LeftTwice ==
  ASSUME SomePlaces,
         NEW n \in Nat, NEW i \in Shifts, NEW j \in Shifts, i + j \in Shifts
  PROVE  TimesTen(TimesTen(n, i), j) = TimesTen(n, i + j)
<1> DEFINE m == TimesTen(n, i)
           T == {k \in Shifts : i + k \in Shifts
                                  => TimesTen(m, k) = TimesTen(n, i + k)}
<1>1. m \in Nat
  BY LeftShift
<1>2. 0 \in T
  BY <1>1, ShiftRange, LeftShift
<1> HIDE DEF m
<1>3. ASSUME NEW k \in 0 .. j - 1, k \in T
      PROVE  k + 1 \in T
  <2>1. /\ k + 1 \in 1 .. Places + Limit /\ i + k \in Shifts
        /\ k + 1 \in Shifts /\ i + (k + 1) \in 1 .. Places + Limit
        /\ k + 1 - 1 = k /\ i + (k + 1) - 1 = i + k
    BY ShiftRange
  <2>2. TimesTen(m, k + 1) = 10 * TimesTen(m, k)
    BY <1>1, <2>1, LeftShift
  <2> DEFINE b == i + (k + 1)
  <2>3. TimesTen(n, b) = 10 * TimesTen(n, i + k)
    <3>1. b \in 1 .. Places + Limit /\ b - 1 = i + k
      BY <2>1, ShiftRange
    <3> HIDE DEF b
    <3>2. TimesTen(n, b) = 10 * TimesTen(n, b - 1)
      BY <3>1, LeftShift
    <3> QED
      BY <3>1, <3>2
  <2> QED
    BY <1>3, <2>1, <2>2, <2>3
<1>4. j \in T
  <2>1. j \in Nat
    BY ShiftRange
  <2> HIDE DEF T
  <2> QED
    BY <1>2, <1>3, <2>1, Climb
<1> QED
  BY <1>4 DEF m

LEMMA LeftIsTimes ==
  ASSUME SomePlaces, NEW n \in Nat, NEW j \in Shifts
  PROVE  TimesTen(n, j) = n * TimesTen(1, j)
<1> DEFINE T == {k \in Shifts : TimesTen(n, k) = n * TimesTen(1, k)}
<1>1. 0 \in T
  BY ShiftRange, LeftShift
<1>2. ASSUME NEW k \in 0 .. j - 1, k \in T
      PROVE  k + 1 \in T
  <2>1. /\ k + 1 \in 1 .. Places + Limit /\ k \in Shifts /\ k + 1 \in Shifts
        /\ k + 1 - 1 = k
    BY ShiftRange
  <2>2. TimesTen(n, k + 1) = 10 * TimesTen(n, k)
    BY <2>1, LeftShift
  <2>3. TimesTen(1, k + 1) = 10 * TimesTen(1, k) /\ TimesTen(1, k) \in Nat
    BY <2>1, LeftShift
  <2>4. \A p \in Nat : 10 * (n * p) = n * (10 * p)
    OBVIOUS
  <2> QED
    BY <1>2, <2>1, <2>2, <2>3, <2>4
<1>3. j \in T
  <2>1. j \in Nat
    BY ShiftRange
  <2> HIDE DEF T
  <2> QED
    BY <1>1, <1>2, <2>1, Climb
<1> QED
  BY <1>3

-----------------------------------------------------------------------------
(* Texts. *)

Characters == 0 .. Dot

\* What strings.TrimRight leaves of a text, and what it takes away.
LEMMA Trimmed ==
  ASSUME NEW s \in Seq(Characters), NEW cut
  PROVE  \E t \in 0 .. Len(s) :
           /\ TrimRight(s, cut) \in Seq(Characters)
           /\ Len(TrimRight(s, cut)) = t
           /\ \A i \in 1 .. t : TrimRight(s, cut)[i] = s[i]
           /\ \A i \in t + 1 .. Len(s) : s[i] \in cut
           /\ t # 0 => s[t] \notin cut
<1> DEFINE n == Len(s)
           Kept == {0} \cup {i \in 1 .. n : s[i] \notin cut}
           t == Max(Kept)
<1>1. n \in Nat /\ \A i \in 1 .. n : s[i] \in Characters
  OBVIOUS
<1>2. t \in Kept /\ \A i \in Kept : i <= t
  <2>1. Kept \subseteq 0 .. n /\ Kept # {}
    BY <1>1
  <2> HIDE DEF Kept, n
  <2> QED
    BY <1>1, <2>1, Greatest
<1>3. TrimRight(s, cut) = SubSeq(s, 1, t)
  BY DEF TrimRight
<1> HIDE DEF t, n
<1>4. /\ t \in 0 .. n /\ t \in Int /\ \A i \in 1 .. t : s[i] \in Characters
      /\ t # 0 => s[t] \notin cut
      /\ \A i \in t + 1 .. n : s[i] \in cut
  <2>1. t \in 0 .. n /\ (t # 0 => s[t] \notin cut)
    BY <1>1, <1>2
  <2>2. ASSUME NEW i \in t + 1 .. n
        PROVE  s[i] \in cut
    <3>1. i \in 1 .. n /\ ~(i <= t)
      BY <1>1, <2>1
    <3> QED
      BY <1>2, <3>1
  <2>3. \A i \in 1 .. t : i \in 1 .. n
    BY <1>1, <2>1
  <2> QED
    BY <1>1, <2>1, <2>2, <2>3
<1>5. /\ SubSeq(s, 1, t) \in Seq(Characters)
      /\ Len(SubSeq(s, 1, t)) = t
      /\ \A i \in 1 .. t : SubSeq(s, 1, t)[i] = s[i]
  <2>1. /\ SubSeq(s, 1, t) \in Seq(Characters)
        /\ Len(SubSeq(s, 1, t)) = IF 1 <= t THEN t - 1 + 1 ELSE 0
    BY <1>4, SubSeqProperties
  <2>2. \A i \in 1 .. t - 1 + 1 : SubSeq(s, 1, t)[i] = s[1 + i - 1]
    BY <1>4, SubSeqProperties
  <2> QED
    BY <1>4, <2>1, <2>2
<1> QED
  BY <1>3, <1>4, <1>5 DEF n

\* The digits of a number.
LEMMA DigitsOf ==
  ASSUME SomePlaces, NEW n \in Nat, NEW w \in Shifts
  PROVE  /\ Digits(n, w) \in Seq(Characters)
         /\ Len(Digits(n, w)) = w
         /\ \A i \in 1 .. w : /\ Digits(n, w)[i] = OverTen(n, w - i) % 10
                             /\ Digits(n, w)[i] # Dot
<1>1. \A i \in 1 .. w : OverTen(n, w - i) % 10 \in 0 .. 9
  <2> TAKE i \in 1 .. w
  <2>1. w - i \in Shifts
    BY ShiftRange
  <2>2. OverTen(n, w - i) \in Nat
    BY <2>1, RightShift
  <2>3. \A d \in Nat : d % 10 \in 0 .. 9
    OBVIOUS
  <2> QED
    BY <2>2, <2>3
<1>2. \A i \in 1 .. w : Digits(n, w)[i] = OverTen(n, w - i) % 10
  BY DEF Digits
<1>3. w \in Nat /\ Digits(n, w) \in [1 .. w -> Characters]
  BY <1>1, ShiftRange DEF Digits, Characters, Dot
<1>4. Digits(n, w) \in Seq(Characters) /\ Len(Digits(n, w)) = w
  BY <1>3
<1> QED
  BY <1>1, <1>2, <1>4 DEF Dot

\* The digits written of a whole number are enough.
LEMMA WideEnough ==
  ASSUME SomePlaces, NEW n \in Nat, OverTen(n, Limit) = 0
  PROVE  Width(n) \in 1 .. Limit /\ OverTen(n, Width(n)) = 0
<1> DEFINE Wider == {1} \cup {i \in 2 .. Limit : OverTen(n, i - 1) # 0}
           w == Max(Wider)
<1>1. w \in Wider /\ \A i \in Wider : i <= w
  <2>1. Limit \in Nat /\ Wider \subseteq 0 .. Limit /\ Wider # {}
    BY ShiftRange
  <2> HIDE DEF Wider
  <2> QED
    BY <2>1, Greatest
<1>2. Width(n) = w
  BY DEF Width
<1> HIDE DEF w
<1>3. w \in 1 .. Limit
  BY <1>1, ShiftRange
<1>4. CASE w = Limit
  BY <1>2, <1>3, <1>4
<1>5. CASE w # Limit
  <2>1. w + 1 \in 2 .. Limit /\ ~(w + 1 <= w) /\ w + 1 - 1 = w
    BY <1>3, <1>5, ShiftRange
  <2>2. OverTen(n, w) = 0
    BY <1>1, <2>1
  <2> QED
    BY <1>2, <1>3, <2>2
<1> QED
  BY <1>4, <1>5

\* How strconv.ParseFloat comes from a text to its number.
LEMMA Reading ==
  ASSUME SomePlaces, NEW s \in Seq(Characters)
  PROVE  \E read \in [0 .. Len(s) -> Nat] :
           /\ read[0] = 0
           /\ \A i \in 1 .. Len(s) :
                read[i] = IF s[i] = Dot THEN read[i - 1]
                                        ELSE 10 * read[i - 1] + s[i]
           /\ Len(s) # 0 /\ (\A i \in 1 .. Len(s) : s[i] # Dot)
                => ParseGauge(s) = TimesTen(read[Len(s)], Places)
           /\ \A d \in 1 .. Len(s) :
                 /\ Len(s) # 1 /\ s[d] = Dot
                 /\ \A i \in 1 .. Len(s) : s[i] = Dot => i = d
                 => ParseGauge(s)
                      = TimesTen(read[Len(s)], Places - (Len(s) - d))
<1> DEFINE n == Len(s)
           dots == {i \in 1 .. n : s[i] = Dot}
           step == [p \in (1 .. n) \X Nat |->
                      IF p[1] \in dots THEN p[2] ELSE 10 * p[2] + s[p[1]]]
           Is(f) == f = [i \in 0 .. n |->
                           IF i = 0 THEN 0
                           ELSE IF i \in dots THEN f[i - 1]
                           ELSE 10 * f[i - 1] + s[i]]
           mantissa == CHOOSE f : Is(f)
           after == IF dots = {} THEN 0 ELSE n - Max(dots)
<1>1. n \in Nat /\ \A i \in 1 .. n : s[i] \in Nat
  BY DEF Characters, Dot
<1>2. ParseGauge(s) =
        IF dots = 1 .. n \/ \E i, j \in dots : i # j
          THEN NotANumber ELSE TimesTen(mantissa[n], Places - after)
  BY DEF ParseGauge
<1>3. \A i \in 1 .. n : i \in dots <=> s[i] = Dot
  OBVIOUS
<1> HIDE DEF n, dots
<1>4. step \in [(1 .. n) \X Nat -> Nat]
  <2>1. ASSUME NEW p \in (1 .. n) \X Nat
        PROVE  (IF p[1] \in dots THEN p[2] ELSE 10 * p[2] + s[p[1]]) \in Nat
    <3>1. p[1] \in 1 .. n /\ p[2] \in Nat
      OBVIOUS
    <3>2. s[p[1]] \in Nat
      BY <1>1, <3>1
    <3> QED
      BY <3>1, <3>2
  <2> QED
    BY <2>1
<1>5. \A i \in 1 .. n, x \in Nat :
        step[<<i, x>>] = IF i \in dots THEN x ELSE 10 * x + s[i]
  OBVIOUS
<1> HIDE DEF step
<1>6. PICK f \in [0 .. n -> Nat] :
        f[0] = 0 /\ \A i \in 1 .. n : f[i] = step[<<i, f[i - 1]>>]
  <2>1. PICK zero \in Nat : zero = 0
    OBVIOUS
  <2>2. \E f \in [0 .. n -> Nat] :
          f[0] = zero /\ \A i \in 1 .. n : f[i] = step[<<i, f[i - 1]>>]
    BY <1>1, <1>4, Recurrence
  <2> QED
    BY <2>1, <2>2
<1>7. ASSUME NEW i \in 1 .. n
      PROVE  f[i] = IF i \in dots THEN f[i - 1] ELSE 10 * f[i - 1] + s[i]
  <2>1. i - 1 \in 0 .. n
    BY <1>1
  <2>2. f[i - 1] \in Nat
    BY <1>6, <2>1
  <2>3. f[i] = step[<<i, f[i - 1]>>]
    BY <1>6
  <2> QED
    BY <1>5, <2>2, <2>3
<1>8. Is(f)
  <2>1. \A i \in 0 .. n : i # 0 => i \in 1 .. n
    BY <1>1
  <2> QED
    BY <1>6, <1>7, <2>1
<1>9. Is(mantissa)
  <2> HIDE DEF Is
  <2> QED
    BY <1>8
<1> HIDE DEF mantissa
<1>10. /\ mantissa[0] = 0
       /\ \A i \in 1 .. n :
            mantissa[i] = IF i \in dots THEN mantissa[i - 1]
                                        ELSE 10 * mantissa[i - 1] + s[i]
  <2>1. 0 \in 0 .. n /\ \A i \in 1 .. n : i \in 0 .. n /\ i # 0
    BY <1>1
  <2> QED
    BY <1>9, <2>1
<1> DEFINE T == {k \in 0 .. n : mantissa[k] \in Nat}
<1>11. ASSUME NEW i \in 0 .. n
       PROVE  mantissa[i] \in Nat
  <2>1. 0 \in T
    BY <1>1, <1>10
  <2>2. ASSUME NEW k \in 0 .. i - 1, k \in T
        PROVE  k + 1 \in T
    <3>1. k + 1 \in 1 .. n /\ k + 1 \in 0 .. n /\ k + 1 - 1 = k
      BY <1>1
    <3>2. s[k + 1] \in Nat /\ mantissa[k] \in Nat
      BY <1>1, <2>2, <3>1
    <3>3. \/ mantissa[k + 1] = mantissa[k]
          \/ mantissa[k + 1] = 10 * mantissa[k] + s[k + 1]
      BY <1>10, <3>1
    <3> QED
      BY <3>1, <3>2, <3>3
  <2>3. i \in Nat
    BY <1>1
  <2>4. i \in T
    <3> HIDE DEF T
    <3> QED
      BY <2>1, <2>2, <2>3, Climb
  <2> QED
    BY <2>4
<1>12. mantissa \in [0 .. n -> Nat]
  BY <1>9, <1>11
<1>13. ASSUME n # 0, \A i \in 1 .. n : s[i] # Dot
       PROVE  ParseGauge(s) = TimesTen(mantissa[n], Places)
  <2>1. dots = {} /\ 1 \in 1 .. n
    BY <1>1, <1>13 DEF dots
  <2>2. after = 0 /\ Places - 0 = Places
    BY <2>1, ShiftRange
  <2> HIDE DEF after
  <2> QED
    BY <1>2, <2>1, <2>2
<1>14. ASSUME NEW d \in 1 .. n, n # 1, s[d] = Dot,
              \A i \in 1 .. n : s[i] = Dot => i = d
       PROVE  ParseGauge(s) = TimesTen(mantissa[n], Places - (n - d))
  <2>1. dots = {d}
    BY <1>14 DEF dots
  <2>2. dots # 1 .. n /\ ~\E i, j \in dots : i # j
    <3>1. 1 \in 1 .. n /\ n \in 1 .. n
      BY <1>1
    <3> QED
      BY <1>14, <2>1, <3>1
  <2>3. Max(dots) = d
    <3>1. dots \subseteq 0 .. n /\ dots # {}
      BY <1>1, <2>1
    <3>2. Max(dots) \in dots
      BY <1>1, <3>1, Greatest
    <3> QED
      BY <2>1, <3>2
  <2>4. after = n - d
    BY <2>1, <2>3
  <2> HIDE DEF after
  <2> QED
    BY <1>2, <2>2, <2>4
<1> QED
  BY <1>3, <1>10, <1>12, <1>13, <1>14 DEF n

\* Positions a + 1 to a + w of s hold w digits of k, of which e are left before
\* them, and read goes on there as the mantissa does.
HoldsDigits(s, read, k, a, e, w) ==
  \A i \in a + 1 .. a + w :
     /\ read[i] = IF s[i] = Dot THEN read[i - 1]
                                ELSE 10 * read[i - 1] + s[i]
     /\ s[i] # Dot /\ s[i] = OverTen(k, e - (i - a)) % 10

\* Whoever has read k without its last e digits, and then reads w of these, has
\* read k without its last e - w digits.
LEMMA ReadOn ==
  ASSUME SomePlaces, NEW s, NEW read, NEW k \in Nat, NEW a \in Nat,
         NEW e \in Shifts, NEW w \in Shifts, w <= e,
         read[a] = OverTen(k, e), HoldsDigits(s, read, k, a, e, w)
  PROVE  read[a + w] = OverTen(k, e - w)
<1> DEFINE T == {j \in Shifts : j <= w => read[a + j] = OverTen(k, e - j)}
<1>1. 0 \in T
  <2>1. a + 0 = a /\ e - 0 = e /\ 0 \in Shifts
    BY ShiftRange
  <2> QED
    BY <2>1
<1>2. ASSUME NEW j \in 0 .. w - 1, j \in T
      PROVE  j + 1 \in T
  <2> DEFINE i == a + (j + 1)
             l == e - (j + 1)
  <2>1. /\ i \in a + 1 .. a + w /\ i - 1 = a + j /\ i - a = j + 1
        /\ l \in Shifts /\ e - j \in 1 .. Places + Limit /\ e - j - 1 = l
        /\ j <= w /\ j + 1 \in Shifts
    BY ShiftRange
  <2>2. read[i] = 10 * read[i - 1] + s[i] /\ s[i] = OverTen(k, e - (i - a)) % 10
    <3> HIDE DEF i, l
    <3> QED
      BY <2>1 DEF HoldsDigits
  <2>3. read[i - 1] = OverTen(k, e - j)
    BY <1>2, <2>1
  <2>4. s[i] = OverTen(k, l) % 10
    BY <2>1, <2>2
  <2>5. OverTen(k, e - j) = OverTen(k, l) \div 10 /\ OverTen(k, l) \in Nat
    BY <2>1, RightShift
  <2> HIDE DEF i, l
  <2>6. read[i] = OverTen(k, l)
    BY <2>2, <2>3, <2>4, <2>5
  <2> QED
    BY <2>1, <2>6 DEF i, l
<1>3. w \in T
  <2>1. w \in Nat
    BY ShiftRange
  <2> HIDE DEF T
  <2> QED
    BY <1>1, <1>2, <2>1, Climb
<1> QED
  BY <1>3, ShiftRange

\* The digits of a gauge: those of its whole part end where those of the
\* fraction begin, and there are no more than Limit.
LEMMA DigitsOfGauge ==
  ASSUME SomePlaces, NEW k \in Gauges
  PROVE  LET n == OverTen(k, Places)
             w == Width(n)
         IN /\ k \in Nat /\ n \in Nat /\ w \in 1 .. Limit
            /\ OverTen(k, Places + w) = 0
            /\ \A i \in 0 .. w : OverTen(n, i) = OverTen(k, Places + i)
<1> DEFINE n == OverTen(k, Places)
           w == Width(n)
<1>1. /\ Places \in Shifts /\ Limit \in Shifts /\ Places + Limit \in Shifts
      /\ 1 \in Nat
  BY ShiftRange
<1>2. k \in Nat /\ k < TimesTen(1, Places + Limit)
  <2>1. TimesTen(1, Places + Limit) \in Nat
    BY <1>1, LeftShift
  <2> QED
    BY <2>1 DEF Gauges
<1>3. OverTen(k, Places + Limit) = 0
  BY <1>1, <1>2, FewDigits
<1>4. n \in Nat
  BY <1>1, <1>2, RightShift
<1>5. ASSUME NEW i \in Shifts, Places + i \in Shifts
      PROVE  OverTen(n, i) = OverTen(k, Places + i)
  BY <1>1, <1>2, <1>5, RightTwice
<1>6. OverTen(n, Limit) = 0
  BY <1>1, <1>3, <1>5
<1> HIDE DEF n
<1>7. w \in 1 .. Limit /\ OverTen(n, w) = 0
  BY <1>4, <1>6, WideEnough
<1> HIDE DEF w
<1>8. \A i \in 0 .. w : i \in Shifts /\ Places + i \in Shifts
  BY <1>7, ShiftRange
<1>9. \A i \in 0 .. w : OverTen(n, i) = OverTen(k, Places + i)
  BY <1>5, <1>8
<1>10. OverTen(k, Places + w) = 0
  <2>1. w \in 0 .. w
    BY <1>7
  <2> QED
    BY <1>7, <1>9, <2>1
<1> QED
  BY <1>2, <1>4, <1>7, <1>9, <1>10 DEF n, w

\* What the property asks of the text of gauge k.
ShownAs(k, shown) ==
  \E z \in 0 .. Limit, read \in Nat :
    /\ read = IF shown = << >> THEN 0 ELSE ParseGauge(shown)
    /\ k = TimesTen(read, z)
    /\ z # 0 => k % (10 * One) = 0

\* A gauge with a fraction.
LEMMA ShownWithFraction ==
  ASSUME SomePlaces, NEW k \in Gauges,
         TrimRight(Digits(k, Places), {0}) # << >>
  PROVE  ShownAs(k, FormatGauge(k))
<1> DEFINE n == OverTen(k, Places)
           w == Width(n)
           whole == Digits(n, w)
           digits == Digits(k, Places)
           fraction == TrimRight(digits, {0})
           t == Len(fraction)
           all == whole \o <<Dot>> \o fraction
           shown == TrimRight(all, {0, Dot})
           l == w + 1 + t
<1>1. /\ k \in Nat /\ n \in Nat /\ w \in 1 .. Limit
      /\ OverTen(k, Places + w) = 0
      /\ \A i \in 0 .. w : OverTen(n, i) = OverTen(k, Places + i)
  BY DigitsOfGauge
<1>2. FormatGauge(k) = shown
  BY DEF FormatGauge, FormatFloat
<1> HIDE DEF n, w
<1>3. /\ w \in Shifts /\ Places \in Shifts /\ w \in Nat /\ Places \in Nat
      /\ Places + w \in Shifts
  BY <1>1, ShiftRange
<1>4. /\ whole \in Seq(Characters) /\ Len(whole) = w
      /\ \A i \in 1 .. w : /\ whole[i] = OverTen(n, w - i) % 10
                          /\ whole[i] # Dot
  BY <1>1, <1>3, DigitsOf
<1>5. /\ digits \in Seq(Characters) /\ Len(digits) = Places
      /\ \A i \in 1 .. Places : /\ digits[i] = OverTen(k, Places - i) % 10
                               /\ digits[i] # Dot
  BY <1>1, <1>3, DigitsOf
<1> HIDE DEF whole, digits
<1>6. /\ t \in 1 .. Places /\ fraction \in Seq(Characters)
      /\ \A i \in 1 .. t : fraction[i] = digits[i]
      /\ \A i \in t + 1 .. Places : digits[i] = 0
      /\ fraction[t] # 0
  <2>1. fraction # << >>
    BY DEF digits
  <2>2. PICK m \in 0 .. Len(digits) :
           /\ fraction \in Seq(Characters)
           /\ Len(fraction) = m
           /\ \A i \in 1 .. m : fraction[i] = digits[i]
           /\ \A i \in m + 1 .. Len(digits) : digits[i] \in {0}
           /\ m # 0 => digits[m] \notin {0}
    BY <1>5, Trimmed
  <2> HIDE DEF fraction
  <2>3. m # 0
    BY <2>1, <2>2, EmptySeq
  <2>4. m \in 1 .. Places /\ m \in 1 .. m
    BY <1>3, <1>5, <2>3
  <2> QED
    BY <1>5, <2>2, <2>3, <2>4
<1> HIDE DEF fraction, t
<1>7. /\ all \in Seq(Characters) /\ Len(all) = l /\ l \in Nat
      /\ \A i \in 1 .. w : all[i] = whole[i]
      /\ all[w + 1] = Dot
      /\ \A i \in w + 2 .. l : all[i] = fraction[i - (w + 1)]
  <2>1. <<Dot>> \in Seq(Characters) /\ Len(<<Dot>>) = 1 /\ <<Dot>>[1] = Dot
    BY DEF Characters, Dot
  <2> DEFINE front == whole \o <<Dot>>
  <2>2. /\ front \in Seq(Characters) /\ Len(front) = w + 1
        /\ \A i \in 1 .. w + 1 :
             front[i] = IF i <= w THEN whole[i] ELSE <<Dot>>[i - w]
    BY <1>4, <2>1, ConcatProperties
  <2>3. all = front \o fraction /\ Len(fraction) = t
    BY DEF t
  <2> HIDE DEF front, all
  <2>4. /\ all \in Seq(Characters) /\ Len(all) = w + 1 + t
        /\ \A i \in 1 .. w + 1 + t :
             all[i] = IF i <= w + 1 THEN front[i] ELSE fraction[i - (w + 1)]
    <3>1. /\ front \o fraction \in Seq(Characters)
          /\ Len(front \o fraction) = Len(front) + Len(fraction)
          /\ \A i \in 1 .. Len(front) + Len(fraction) :
               (front \o fraction)[i] =
                 IF i <= Len(front) THEN front[i] ELSE fraction[i - Len(front)]
      BY <1>6, <2>2, ConcatProperties
    <3> QED
      BY <2>2, <2>3, <3>1, Zenon
  <2>5. \A i \in 1 .. w : i \in 1 .. w + 1 + t /\ i \in 1 .. w + 1 /\ i <= w + 1
    BY <1>3, <1>6
  <2>6. \A i \in w + 2 .. l : i \in 1 .. w + 1 + t /\ ~(i <= w + 1)
    BY <1>3, <1>6
  <2>7. /\ w + 1 \in 1 .. w + 1 + t /\ w + 1 \in 1 .. w + 1 /\ ~(w + 1 <= w)
        /\ w + 1 - w = 1 /\ l \in Nat /\ \A i \in 1 .. w : i <= w
    BY <1>3, <1>6
  <2>8. ASSUME NEW i \in 1 .. w
        PROVE  all[i] = whole[i]
    <3>1. all[i] = front[i]
      BY <2>4, <2>5
    <3>2. front[i] = whole[i]
      BY <2>2, <2>5, <2>7
    <3> QED
      BY <3>1, <3>2
  <2>9. all[w + 1] = Dot
    <3> DEFINE d == w + 1
    <3>1. d \in 1 .. w + 1 + t /\ d \in 1 .. w + 1 /\ ~(d <= w) /\ d <= w + 1
          /\ d - w = 1
      BY <1>3, <1>6
    <3> HIDE DEF d
    <3>2. all[d] = front[d]
      BY <2>4, <3>1
    <3>3. front[d] = <<Dot>>[d - w]
      BY <2>2, <3>1
    <3> QED
      BY <2>1, <3>1, <3>2, <3>3 DEF d
  <2>10. \A i \in w + 2 .. l : all[i] = fraction[i - (w + 1)]
    BY <2>4, <2>6
  <2> QED
    BY <2>4, <2>7, <2>8, <2>9, <2>10
<1> HIDE DEF all
<1>8. /\ shown \in Seq(Characters) /\ Len(shown) = l
      /\ \A i \in 1 .. l : shown[i] = all[i]
  <2>1. PICK m \in 0 .. Len(all) :
           /\ shown \in Seq(Characters)
           /\ Len(shown) = m
           /\ \A i \in 1 .. m : shown[i] = all[i]
           /\ \A i \in m + 1 .. Len(all) : all[i] \in {0, Dot}
           /\ m # 0 => all[m] \notin {0, Dot}
    BY <1>7, Trimmed
  <2> HIDE DEF shown
  <2>2. all[l] \notin {0, Dot}
    <3>1. /\ l \in w + 2 .. l /\ l - (w + 1) = t
          /\ t \in 1 .. t /\ t \in 1 .. Places
      BY <1>3, <1>6
    <3>2. all[l] = fraction[t]
      BY <1>7, <3>1
    <3> QED
      BY <1>5, <1>6, <3>1, <3>2
  <2>3. m = l
    <3>1. CASE m # l
      <4>1. l \in m + 1 .. Len(all)
        BY <1>7, <3>1
      <4> QED
        BY <2>1, <2>2, <4>1
    <3> QED
      BY <3>1
  <2> QED
    BY <2>1, <2>3
<1> HIDE DEF shown
<1>9. PICK read \in [0 .. Len(shown) -> Nat] :
         /\ read[0] = 0
         /\ \A i \in 1 .. Len(shown) :
              read[i] = IF shown[i] = Dot THEN read[i - 1]
                                          ELSE 10 * read[i - 1] + shown[i]
         /\ \A d \in 1 .. Len(shown) :
               /\ Len(shown) # 1 /\ shown[d] = Dot
               /\ \A i \in 1 .. Len(shown) : shown[i] = Dot => i = d
               => ParseGauge(shown)
                    = TimesTen(read[Len(shown)], Places - (Len(shown) - d))
  BY <1>8, Reading
<1>10. read[w] = OverTen(k, Places)
  <2> DEFINE e == Places + w
             a == 0
  <2>1. /\ a \in Nat /\ e \in Shifts /\ w <= e /\ e - w = Places /\ a + w = w
        /\ \A i \in a + 1 .. a + w :
             /\ i \in 1 .. l /\ i \in 1 .. w /\ w - i \in 0 .. w
             /\ Places + (w - i) = e - (i - a)
    BY <1>3, <1>6
  <2>2. read[a] = OverTen(k, e)
    BY <1>1, <1>9
  <2>3. ASSUME NEW i \in a + 1 .. a + w
        PROVE  /\ read[i] = IF shown[i] = Dot THEN read[i - 1]
                                              ELSE 10 * read[i - 1] + shown[i]
               /\ shown[i] # Dot /\ shown[i] = OverTen(k, e - (i - a)) % 10
    <3>1. i \in 1 .. Len(shown) /\ shown[i] = whole[i]
      BY <1>7, <1>8, <2>1
    <3>2. whole[i] = OverTen(n, w - i) % 10 /\ whole[i] # Dot
      BY <1>4, <2>1
    <3>3. OverTen(n, w - i) = OverTen(k, Places + (w - i))
      BY <1>1, <2>1
    <3> QED
      BY <1>9, <2>1, <3>1, <3>2, <3>3
  <2> HIDE DEF a, e
  <2>4. k \in Nat /\ w \in Shifts
    BY <1>1, <1>3
  <2>5. a \in Nat /\ e \in Shifts /\ w <= e
    BY <2>1
  <2>6. read[a + w] = OverTen(k, e - w)
    <3>1. HoldsDigits(shown, read, k, a, e, w)
      BY <2>3 DEF HoldsDigits
    <3> QED
      BY <2>2, <2>4, <2>5, <3>1, ReadOn
  <2> QED
    BY <2>1, <2>6
<1>11. /\ w + 1 \in 1 .. Len(shown) /\ shown[w + 1] = Dot
       /\ \A i \in 1 .. Len(shown) : shown[i] = Dot => i = w + 1
  <2>1. w + 1 \in 1 .. l
    BY <1>3, <1>6
  <2>2. ASSUME NEW i \in 1 .. l, i # w + 1
        PROVE  shown[i] # Dot
    <3>1. CASE i \in 1 .. w
      BY <1>4, <1>7, <1>8, <3>1
    <3>2. CASE i \notin 1 .. w
      <4>1. i \in w + 2 .. l
        BY <1>3, <2>2, <3>2
      <4>2. i - (w + 1) \in 1 .. t /\ i - (w + 1) \in 1 .. Places
        BY <1>3, <1>6, <4>1
      <4>3. all[i] = digits[i - (w + 1)]
        BY <1>6, <1>7, <4>1, <4>2
      <4> QED
        BY <1>5, <1>8, <4>2, <4>3
    <3> QED
      BY <3>1, <3>2
  <2> QED
    BY <1>7, <1>8, <2>1, <2>2
<1>12. read[w + 1] = OverTen(k, Places)
  <2>1. w + 1 - 1 = w
    BY <1>3
  <2> DEFINE d == w + 1
  <2>2. d \in 1 .. Len(shown) /\ shown[d] = Dot /\ d - 1 = w
    BY <1>11, <2>1
  <2> HIDE DEF d
  <2>3. read[d] = read[d - 1]
    BY <1>9, <2>2
  <2> QED
    BY <1>10, <2>2, <2>3 DEF d
<1>13. read[l] = OverTen(k, Places - t)
  <2> DEFINE a == w + 1
  <2>1. /\ a \in Nat /\ t \in Shifts /\ t <= Places /\ a + t = l
        /\ \A i \in a + 1 .. a + t :
             /\ i \in 1 .. l /\ i \in w + 2 .. l
             /\ i - (w + 1) = i - a /\ i - a \in 1 .. t
             /\ i - a \in 1 .. Places
    BY <1>3, <1>6, ShiftRange
  <2>2. read[a] = OverTen(k, Places)
    BY <1>12
  <2>3. ASSUME NEW i \in a + 1 .. a + t
        PROVE  /\ read[i] = IF shown[i] = Dot THEN read[i - 1]
                                              ELSE 10 * read[i - 1] + shown[i]
               /\ shown[i] # Dot /\ shown[i] = OverTen(k, Places - (i - a)) % 10
    <3>1. i \in 1 .. Len(shown) /\ shown[i] = fraction[i - a]
      BY <1>7, <1>8, <2>1
    <3>2. fraction[i - a] = digits[i - a]
      BY <1>6, <2>1
    <3>3. /\ digits[i - a] = OverTen(k, Places - (i - a)) % 10
          /\ digits[i - a] # Dot
      BY <1>5, <2>1
    <3> QED
      BY <1>9, <3>1, <3>2, <3>3
  <2> HIDE DEF a
  <2>4. read[a + t] = OverTen(k, Places - t)
    <3>1. /\ k \in Nat /\ Places \in Shifts /\ a \in Nat
          /\ t \in Shifts /\ t <= Places
      BY <1>1, <1>3, <2>1
    <3>2. HoldsDigits(shown, read, k, a, Places, t)
      BY <2>3 DEF HoldsDigits
    <3> QED
      BY <2>2, <3>1, <3>2, ReadOn
  <2> QED
    BY <2>1, <2>4
<1>14. ParseGauge(shown) = TimesTen(OverTen(k, Places - t), Places - t)
  <2>1. Len(shown) # 1 /\ l - (w + 1) = t
    BY <1>3, <1>6, <1>8
  <2>2. ParseGauge(shown)
          = TimesTen(read[Len(shown)], Places - (Len(shown) - (w + 1)))
    BY <1>9, <1>11, <2>1
  <2> QED
    BY <1>8, <1>13, <2>1, <2>2
<1>15. ParseGauge(shown) = k
  <2> DEFINE z == Places - t
  <2>1. z \in Shifts
    BY <1>3, <1>6, ShiftRange
  <2>2. ASSUME NEW i \in 0 .. z - 1
        PROVE  OverTen(k, i) % 10 = 0
    <3>1. Places - i \in t + 1 .. Places /\ Places - i \in 1 .. Places
      BY <1>3, <1>6
    <3>2. Places - (Places - i) = i
      BY <1>3
    <3> QED
      BY <1>5, <1>6, <3>1, <3>2
  <2> HIDE DEF z
  <2>3. TimesTen(OverTen(k, z), z) = k
    BY <1>1, <2>1, <2>2, ZerosPutBack
  <2> QED
    BY <1>14, <2>3 DEF z
<1>16. shown # << >>
  <2>1. l # 0
    BY <1>3, <1>6
  <2> QED
    BY <1>8, <2>1, EmptySeq
<1>17. 0 \in 0 .. Limit /\ k \in Nat /\ k = TimesTen(k, 0)
  BY <1>1, ShiftRange, LeftShift
<1> QED
  BY <1>2, <1>15, <1>16, <1>17 DEF ShownAs

\* Powers of ten are greater than zero.
LEMMA Powers ==
  ASSUME SomePlaces
  PROVE  /\ One \in Nat \ {0}
         /\ \A i \in Shifts : TimesTen(1, i) \in Nat \ {0}
<1>1. ASSUME NEW i \in Shifts
      PROVE  TimesTen(1, i) \in Nat \ {0}
  <2> DEFINE T == {j \in Shifts : TimesTen(1, j) \in Nat \ {0}}
  <2>1. 0 \in T
    <3>1. \A n \in Nat : TimesTen(n, 0) = n
      BY LeftShift
    <3> QED
      BY <3>1, ShiftRange
  <2>2. ASSUME NEW j \in 0 .. i - 1, j \in T
        PROVE  j + 1 \in T
    <3>1. j + 1 \in 1 .. Places + Limit /\ j + 1 \in Shifts /\ j + 1 - 1 = j
      BY ShiftRange
    <3>2. TimesTen(1, j + 1) = 10 * TimesTen(1, j)
      BY <3>1, LeftShift
    <3> QED
      BY <2>2, <3>1, <3>2
  <2>3. i \in Nat
    BY ShiftRange
  <2>4. i \in T
    <3> HIDE DEF T
    <3> QED
      BY <2>1, <2>2, <2>3, Climb
  <2> QED
    BY <2>4
<1>2. Places \in Shifts
  BY ShiftRange
<1> QED
  BY <1>1, <1>2 DEF One

LEMMA Multiple ==
  ASSUME NEW m \in Nat, NEW q \in Nat \ {0}
  PROVE  (m * q) % q = 0
<1>1. m * q = q * m + 0 /\ 0 \in 0 .. q - 1
  OBVIOUS
<1> QED
  BY <1>1

\* A gauge without a fraction.
LEMMA ShownWhole ==
  ASSUME SomePlaces, NEW k \in Gauges,
         TrimRight(Digits(k, Places), {0}) = << >>
  PROVE  ShownAs(k, FormatGauge(k))
<1> DEFINE n == OverTen(k, Places)
           w == Width(n)
           whole == Digits(n, w)
           digits == Digits(k, Places)
           shown == TrimRight(whole, {0, Dot})
           u == Len(shown)
           z == w - u
           e == Places + w
<1>1. /\ k \in Nat /\ n \in Nat /\ w \in 1 .. Limit
      /\ OverTen(k, e) = 0
      /\ \A i \in 0 .. w : OverTen(n, i) = OverTen(k, Places + i)
  BY DigitsOfGauge
<1>2. FormatGauge(k) = shown
  BY DEF FormatGauge, FormatFloat
<1>3. /\ w \in Shifts /\ Places \in Shifts /\ w \in Nat
      /\ Places \in Nat \ {0} /\ e \in Shifts
  BY <1>1, ShiftRange
<1>4. ASSUME NEW i \in 0 .. Places - 1
      PROVE  OverTen(k, i) % 10 = 0
  <2>1. /\ digits \in Seq(Characters) /\ Len(digits) = Places
        /\ \A j \in 1 .. Places : digits[j] = OverTen(k, Places - j) % 10
    BY <1>1, <1>3, DigitsOf
  <2>2. TrimRight(digits, {0}) = << >>
    OBVIOUS
  <2> HIDE DEF digits
  <2>3. PICK m \in 0 .. Len(digits) :
           /\ Len(TrimRight(digits, {0})) = m
           /\ \A j \in m + 1 .. Len(digits) : digits[j] \in {0}
    BY <2>1, Trimmed
  <2>4. m = 0
    BY <2>2, <2>3, EmptySeq
  <2>5. Places - i \in 1 .. Places /\ Places - (Places - i) = i /\ 0 + 1 = 1
    BY <1>3
  <2> QED
    BY <2>1, <2>3, <2>4, <2>5
<1> HIDE DEF n, w, digits
<1>5. /\ whole \in Seq(Characters) /\ Len(whole) = w
      /\ \A i \in 1 .. w : /\ whole[i] = OverTen(n, w - i) % 10
                          /\ whole[i] # Dot
  BY <1>1, <1>3, DigitsOf
<1> HIDE DEF whole
<1>6. ASSUME NEW i \in 1 .. w
      PROVE  whole[i] = OverTen(k, e - i) % 10
  <2>1. w - i \in 0 .. w /\ Places + (w - i) = e - i
    BY <1>3
  <2>2. OverTen(n, w - i) = OverTen(k, Places + (w - i))
    BY <1>1, <2>1
  <2> QED
    BY <1>5, <2>1, <2>2
<1>7. /\ shown \in Seq(Characters) /\ u \in 0 .. w
      /\ \A i \in 1 .. u : shown[i] = whole[i]
      /\ \A i \in u + 1 .. w : whole[i] = 0
  <2>1. PICK m \in 0 .. Len(whole) :
           /\ shown \in Seq(Characters)
           /\ Len(shown) = m
           /\ \A i \in 1 .. m : shown[i] = whole[i]
           /\ \A i \in m + 1 .. Len(whole) : whole[i] \in {0, Dot}
    BY <1>5, Trimmed
  <2> HIDE DEF shown
  <2>2. \A i \in m + 1 .. w : i \in 1 .. w
    BY <1>5, <2>1
  <2> QED
    BY <1>5, <2>1, <2>2
<1> HIDE DEF shown
<1>8. /\ z \in 0 .. Limit /\ z \in Shifts /\ Places + z \in Shifts
      /\ e - u = Places + z /\ u \in Shifts /\ u <= e
  BY <1>1, <1>3, <1>7, ShiftRange
<1> HIDE DEF z
<1>9. ASSUME NEW i \in 0 .. Places + z - 1
      PROVE  OverTen(k, i) % 10 = 0
  <2>1. CASE i < Places
    BY <1>3, <1>4, <2>1
  <2>2. CASE ~(i < Places)
    <3>1. e - i \in u + 1 .. w /\ e - i \in 1 .. w /\ e - (e - i) = i
      BY <1>3, <1>7, <2>2 DEF z
    <3> QED
      BY <1>6, <1>7, <3>1
  <2> QED
    BY <2>1, <2>2
<1> DEFINE b == Places + z
           m == OverTen(k, b)
<1>10. b \in Shifts /\ m \in Nat /\ TimesTen(m, b) = k
  <2>1. b \in Shifts
    BY <1>8
  <2>2. \A i \in 0 .. b - 1 : OverTen(k, i) % 10 = 0
    BY <1>3, <1>8, <1>9
  <2> HIDE DEF b
  <2> QED
    BY <1>1, <2>1, <2>2, RightShift, ZerosPutBack
<1> HIDE DEF b, e
<1>11. CASE u = 0
  <2>1. shown = << >>
    BY <1>7, <1>11, EmptySeq
  <2>2. z = w /\ m = 0 /\ 0 \in Nat
    BY <1>1, <1>3, <1>11 DEF b, e, z
  <2>3. k = 0 /\ TimesTen(0, z) = 0
    <3>1. \A x \in Shifts : TimesTen(0, x) = 0
      <4> TAKE x \in Shifts
      <4>1. TimesTen(0, x) = 0 * TimesTen(1, x) /\ TimesTen(1, x) \in Nat
        BY <2>2, LeftIsTimes, LeftShift
      <4> QED
        BY <4>1
    <3> QED
      BY <1>8, <1>10, <2>2, <3>1
  <2>4. k % (10 * One) = 0
    <3>1. 10 * One \in Nat \ {0} /\ k = 0 * (10 * One) /\ 0 \in Nat
      BY <2>3, Powers
    <3> QED
      BY <3>1, Multiple
  <2> QED
    BY <1>2, <1>8, <2>1, <2>2, <2>3, <2>4 DEF ShownAs
<1>12. CASE u # 0
  <2>1. PICK read \in [0 .. Len(shown) -> Nat] :
           /\ read[0] = 0
           /\ \A i \in 1 .. Len(shown) :
                read[i] = IF shown[i] = Dot THEN read[i - 1]
                                            ELSE 10 * read[i - 1] + shown[i]
           /\ Len(shown) # 0 /\ (\A i \in 1 .. Len(shown) : shown[i] # Dot)
                => ParseGauge(shown) = TimesTen(read[Len(shown)], Places)
    BY <1>7, Reading
  <2>2. ASSUME NEW i \in 1 .. u
        PROVE  shown[i] # Dot /\ shown[i] = OverTen(k, e - i) % 10
    <3>1. i \in 1 .. w
      BY <1>3, <1>7
    <3> QED
      BY <1>5, <1>6, <1>7, <3>1
  <2>3. ParseGauge(shown) = TimesTen(read[u], Places)
    BY <1>12, <2>1, <2>2
  <2> DEFINE a == 0
  <2>4. HoldsDigits(shown, read, k, a, e, u)
    <3>1. ASSUME NEW i \in 1 .. u
          PROVE  /\ read[i] = IF shown[i] = Dot THEN read[i - 1]
                                                ELSE 10 * read[i - 1] + shown[i]
                 /\ shown[i] # Dot /\ shown[i] = OverTen(k, e - (i - 0)) % 10
      <4>1. i - 0 = i
        OBVIOUS
      <4> QED
        BY <2>1, <2>2, <4>1
    <3>2. a + 1 = 1 /\ a + u = u
      BY <1>7
    <3> QED
      BY <3>1, <3>2 DEF HoldsDigits
  <2>5. a \in Nat /\ read[a] = OverTen(k, e) /\ a + u = u
    BY <1>1, <1>7, <2>1
  <2> HIDE DEF a
  <2>6. read[a + u] = OverTen(k, e - u)
    <3> HIDE DEF u
    <3>1. k \in Nat /\ e \in Shifts /\ u \in Shifts /\ u <= e /\ a \in Nat
      BY <1>1, <1>3, <1>8, <2>5
    <3> QED
      BY <2>4, <2>5, <3>1, ReadOn
  <2>7. read[u] = m
    BY <1>8, <2>5, <2>6 DEF b
  <2>8. k = TimesTen(ParseGauge(shown), z)
    <3>1. TimesTen(TimesTen(m, Places), z) = TimesTen(m, Places + z)
      BY <1>3, <1>8, <1>10, LeftTwice
    <3> QED
      BY <1>10, <2>3, <2>7, <3>1 DEF b
  <2>9. shown # << >> /\ ParseGauge(shown) \in Nat
    <3>1. TimesTen(m, Places) \in Nat
      BY <1>3, <1>10, LeftShift
    <3> QED
      BY <1>7, <1>12, <2>3, <2>7, <3>1, EmptySeq
  <2>10. ASSUME z # 0
         PROVE  k % (10 * One) = 0
    <3> DEFINE p == Places + 1
    <3>1. /\ p \in Shifts /\ p \in 1 .. Places + Limit /\ p - 1 = Places
          /\ \A i \in 0 .. p - 1 : i \in 0 .. Places + z - 1
      BY <1>3, <1>8, <2>10, ShiftRange
    <3> HIDE DEF p
    <3>2. TimesTen(OverTen(k, p), p) = k /\ OverTen(k, p) \in Nat
      BY <1>1, <1>9, <3>1, RightShift, ZerosPutBack
    <3>3. k = OverTen(k, p) * TimesTen(1, p)
      BY <3>1, <3>2, LeftIsTimes
    <3>4. TimesTen(1, p) = 10 * One /\ One \in Nat
      BY <3>1, Powers, LeftShift DEF One
    <3>5. 10 * One \in Nat \ {0}
      BY Powers
    <3> QED
      BY <3>2, <3>3, <3>4, <3>5, Multiple
  <2> QED
    BY <1>2, <1>8, <2>8, <2>9, <2>10 DEF ShownAs
<1> QED
  BY <1>11, <1>12

-----------------------------------------------------------------------------
(* The text of the gauge in the repository. *)

GaugeInv ==
  /\ gauge \in Gauges /\ answered \in BOOLEAN
  /\ answered => text = FormatGauge(gauge)

\* The text that ValueHandler answers with parses to the gauge in the
\* repository, but for the zeros at the end that FormatGauge takes away; and it
\* takes away such zeros only where there is no fraction.
THEOREM TextsAreShownUpToZeros ==
  ASSUME SomePlaces
  PROVE  Spec => []ShownUpToZeros
<1>1. Init => GaugeInv
  <2>1. TimesTen(1, Places + Limit) \in Nat \ {0}
    BY ShiftRange, Powers
  <2>2. 0 \in Gauges
    BY <2>1 DEF Gauges
  <2> QED
    BY <2>2 DEF Init, GaugeInv
<1>2. GaugeInv /\ [Next]_vars => GaugeInv'
  <2> SUFFICES ASSUME GaugeInv, [Next]_vars
               PROVE  GaugeInv'
    OBVIOUS
  <2>1. CASE SetGauge
    BY <2>1 DEF GaugeInv, SetGauge
  <2>2. CASE ValueHandler
    BY <2>2 DEF GaugeInv, ValueHandler
  <2>3. CASE UNCHANGED vars
    BY <2>3 DEF GaugeInv, vars
  <2> QED
    BY <2>1, <2>2, <2>3 DEF Next
<1>3. GaugeInv => ShownUpToZeros
  <2> SUFFICES ASSUME GaugeInv, answered
               PROVE  IF gauge % (10 * One) # 0
                        THEN ParseGauge(text) = gauge
                        ELSE \E z \in 0 .. Limit :
                               gauge = TimesTen(IF text = << >> THEN 0
                                                ELSE ParseGauge(text), z)
    BY DEF ShownUpToZeros
  <2>1. gauge \in Gauges /\ text = FormatGauge(gauge)
    BY DEF GaugeInv
  <2>2. ShownAs(gauge, text)
    BY <2>1, ShownWithFraction, ShownWhole
  <2>3. PICK z \in 0 .. Limit, read \in Nat :
           /\ read = IF text = << >> THEN 0 ELSE ParseGauge(text)
           /\ gauge = TimesTen(read, z)
           /\ z # 0 => gauge % (10 * One) = 0
    BY <2>2 DEF ShownAs
  <2>4. CASE gauge % (10 * One) # 0
    <3>1. gauge = read
      BY <2>3, <2>4, LeftShift
    <3>2. text # << >>
      <4>1. ASSUME text = << >>
            PROVE  FALSE
        <5>1. gauge = 0 * (10 * One) /\ 10 * One \in Nat \ {0} /\ 0 \in Nat
          BY <2>3, <3>1, <4>1, Powers
        <5> QED
          BY <2>4, <5>1, Multiple
      <4> QED
        BY <4>1
    <3> QED
      BY <2>3, <2>4, <3>1, <3>2
  <2>5. CASE gauge % (10 * One) = 0
    <3>1. gauge = TimesTen(IF text = << >> THEN 0 ELSE ParseGauge(text), z)
      BY <2>3
    <3> QED
      BY <2>5, <3>1
  <2> QED
    BY <2>4, <2>5
<1> QED
  BY <1>1, <1>2, <1>3, PTL DEF Spec
=============================================================================
