------------------------------- MODULE Config -------------------------------
(***************************************************************************)
(* How the two programs come by their settings: init and setEnv of         *)
(* cmd/agent and cmd/server, with package options.                         *)
(*                                                                         *)
(* Defaults are built in; a configuration file overwrites them before the  *)
(* flags are registered with them; the command line is parsed; then the    *)
(* environment is looked at.  What a source says of a setting is a text;   *)
(* each source makes of it a set of at most one value.                     *)
(*                                                                         *)
(* An integer has W values.  Intervals become durations by a              *)
(* multiplication that wraps around.                                       *)
(***************************************************************************)
EXTENDS Integers, Sequences

CONSTANTS Strings,   \* texts, and hosts of addresses
          Numbers,   \* the integers that a source may say
          Empty,     \* the empty text
          Garbage,   \* a text that is nothing of the kind wanted
          Nothing,   \* a source does not mention the setting
          W,         \* width: 2^64
          Second,    \* nanoseconds in a second
          Inputs     \* bound: of each program what the sources may say

ASSUME ConfigAssumption ==
  /\ Numbers \subseteq Int
  /\ W \in Nat /\ W % 2 = 0 /\ Second \in 1 .. W \div 2 - 1
  /\ \A t \in {Empty, Garbage, Nothing} :
       t \notin Int /\ t \notin BOOLEAN /\ t \notin Strings

Agent ==
  [address |-> "address", key |-> "string", crypto_key |-> "string",
   rate_limit |-> "uint", report_interval |-> "uint", poll_interval |-> "uint"]

Server ==
  [address |-> "string", database_dsn |-> "string", mode |-> "string",
   store_file |-> "string", key |-> "string", crypto_key |-> "string",
   store_interval |-> "uint", restore |-> "bool"]

Programs == [agent |-> Agent, server |-> Server]

\* Settings that setEnv does not look for.
NoEnv == [agent |-> {"crypto_key", "rate_limit"}, server |-> {}]

\* Defaults: any will do that cannot be told from what a source says.
Scheme == "http://"
Builtin(kind) ==
  CASE kind = "address" -> <<Scheme, "localhost">>
    [] kind = "string" -> "default"
    [] kind = "uint" -> 2
    [] kind = "bool" -> FALSE

VARIABLES program,   \* which of the two
          file,      \* what os.Stat and os.ReadFile meet
          says,      \* of each setting what each source says
          opts,      \* agOpts or srvOpts
          defaults,  \* defOpts or defSrvOpts
          phase,     \* init, parse, env, start; running, exited or panicked
          period     \* of the tickers that were started
configVars ==
  <<program, file, says, opts, defaults, phase, period>>

Settings == DOMAIN Programs[program]
Kind(s) == Programs[program][s]
Sources == {"file", "flag", "env"}
Intervals == {"report_interval", "poll_interval"}

Values(kind) ==
  CASE kind = "address" -> {<<h>> : h \in Strings}
                             \cup {<<Scheme, h>> : h \in Strings}
    [] kind = "string" -> Strings
    [] kind = "uint" -> Numbers
    [] kind = "bool" -> BOOLEAN

\* A string can be wrong in a JSON file only.
Texts(kind, source) ==
  {Nothing, Empty} \cup Values(kind)
    \cup (IF kind = "string" /\ source # "file" THEN {} ELSE {Garbage})

ASSUME InputsAssumption ==
  \A p \in DOMAIN Programs :
    \A i \in Inputs[p], s \in DOMAIN Programs[p], source \in Sources :
      i[s][source] \in Texts(Programs[p][s], source)

-----------------------------------------------------------------------------
(* What a source makes of a text. *)

Else(meant, value) ==
  IF meant = {} THEN value ELSE CHOOSE v \in meant : TRUE

\* setAddr: a text without a scheme gets one, and must have a host and a port.
SetAddr(t) ==
  IF t \in {Nothing, Empty, Garbage} THEN {}
  ELSE {IF Len(t) = 1 THEN <<Scheme>> \o t ELSE t}

\* json.Unmarshal leaves a field of another type alone and goes on, and
\* StringVar, UintVar and BoolVar accept the same texts.
Typed(kind, t) ==
  CASE kind \in {"address", "string"} -> {t} \ {Nothing, Garbage}
    [] kind = "uint" -> {t} \cap 0 .. W - 1
    [] kind = "bool" -> {t} \cap BOOLEAN

\* Mutant of SetEnvUint: the number must be one of a uint.
SetEnvUintChecked(t) == {t} \cap 0 .. W \div 2 - 1

\* strconv.Atoi, then a conversion to uint.
SetEnvUint(t) == {n % W : n \in {t} \cap -(W \div 2) .. W \div 2 - 1}

SetEnv(kind, t) ==
  CASE kind = "address" -> SetAddr(t)
    [] kind = "string" -> {t} \ {Nothing, Empty}
    [] kind = "uint" -> SetEnvUint(t)
    [] kind = "bool" -> {t} \cap BOOLEAN

\* time.Duration(n) * time.Second.
Period(n) ==
  LET d == n * Second % W IN IF d < W \div 2 THEN d ELSE d - W

-----------------------------------------------------------------------------
ConfigInit ==
  /\ program \in DOMAIN Programs
  /\ says \in Inputs[program]
  /\ file \in {"missing", "forbidden", "directory", "unreadable",
               "malformed", "json"}
  /\ defaults = [s \in Settings |-> Builtin(Kind(s))]
  /\ opts = defaults
  /\ phase = "init"
  /\ period = [s \in Intervals |-> 0]

\* os.Stat fails in another way than with "not exist": its first result is nil
\* and IsDir of it a nil dereference.
StatPanics ==
  /\ phase = "init" /\ file = "forbidden"
  /\ phase' = "panicked"
  /\ UNCHANGED <<program, file, says, opts, defaults, period>>

\* Mutant of FromFile: a file with one field of a wrong type is ignored.
FromFileAllOrNothing(s) ==
  IF \E r \in Settings : says[r]["file"] # Nothing
                           /\ Typed(Kind(r), says[r]["file"]) = {}
    THEN defaults[s]
    ELSE Else(Typed(Kind(s), says[s]["file"]), defaults[s])

FromFile(s) == Else(Typed(Kind(s), says[s]["file"]), defaults[s])

\* init: the file is read into the defaults, if it can be read and is JSON,
\* and registering a flag assigns its default.  The agent's address has a
\* flag.Func, which assigns nothing: it remains what it was initialised with.
ReadConfig ==
  /\ phase = "init" /\ file # "forbidden"
  /\ defaults' = [s \in Settings |->
                    IF file = "json" THEN FromFile(s) ELSE defaults[s]]
  /\ opts' = [s \in Settings |->
                IF Kind(s) = "address" THEN opts[s] ELSE defaults'[s]]
  /\ phase' = "parse"
  /\ UNCHANGED <<program, file, says, period>>

\* A flag that is given and is not of its kind ends the program; one that
\* setAddr does not like stands for the default.
Refused ==
  \E s \in Settings : /\ Kind(s) # "address"
                      /\ says[s]["flag"] # Nothing
                      /\ Typed(Kind(s), says[s]["flag"]) = {}

ParseRefuses ==
  /\ phase = "parse" /\ Refused
  /\ phase' = "exited"
  /\ UNCHANGED <<program, file, says, opts, defaults, period>>

FromFlag(s) ==
  LET t == says[s]["flag"]
  IN IF t = Nothing THEN opts[s]
     ELSE IF Kind(s) = "address" THEN Else(SetAddr(t), defaults[s])
     ELSE Else(Typed(Kind(s), t), opts[s])

Parse ==
  /\ phase = "parse" /\ ~Refused
  /\ opts' = [s \in Settings |-> FromFlag(s)]
  /\ phase' = "env"
  /\ UNCHANGED <<program, file, says, defaults, period>>

FromEnv(s) ==
  IF s \in NoEnv[program] THEN opts[s]
  ELSE Else(SetEnv(Kind(s), says[s]["env"]), opts[s])

Environment ==
  /\ phase = "env"
  /\ opts' = [s \in Settings |-> FromEnv(s)]
  /\ phase' = "start"
  /\ UNCHANGED <<program, file, says, defaults, period>>

\* The agent's loops create their tickers; time.NewTicker panics unless the
\* period is positive.  The server sets its ticker to 300 seconds whatever
\* the interval is.
Start ==
  /\ phase = "start"
  /\ IF program = "agent"
       THEN /\ period' = [s \in Intervals |-> Period(opts[s])]
            /\ phase' = IF \A s \in Intervals : period'[s] > 0
                          THEN "running" ELSE "panicked"
       ELSE phase' = "running" /\ UNCHANGED period
  /\ UNCHANGED <<program, file, says, opts, defaults>>

ConfigNext ==
  \/ StatPanics \/ ReadConfig
  \/ ParseRefuses \/ Parse
  \/ Environment
  \/ Start

ConfigSpec == ConfigInit /\ [][ConfigNext]_configVars

-----------------------------------------------------------------------------
(* Properties. *)

\* What a source validly says of setting s, whoever reads it and when: a text
\* of the right kind, or nothing.
Valid(source, s) ==
  CASE source = "file" -> IF file = "json"
                            THEN Typed(Kind(s), says[s]["file"]) ELSE {}
    [] source = "flag" -> Typed(Kind(s), says[s]["flag"])
    [] source = "env" -> IF s \in NoEnv[program] THEN {}
                         ELSE SetEnv(Kind(s), says[s]["env"])

\* The value of the first source, in this order, that says something.
Ranked(s) ==
  Else(Valid("env", s), Else(Valid("flag", s),
    Else(Valid("file", s), Builtin(Kind(s)))))

\* Once the environment has been read, every setting has the value of the
\* highest source that says something valid: the environment, the command
\* line, the file, the defaults.  But for the agent's address: its file counts
\* only where the command line gives an address that is none, and setAddr,
\* which adds the scheme, is not applied to it.
Precedence ==
  phase \in {"start", "running"} =>
    \A s \in Settings :
      IF Kind(s) # "address" THEN opts[s] = Ranked(s)
      ELSE LET flag == SetAddr(says[s]["flag"])
               bad == says[s]["flag"] # Nothing /\ flag = {}
           IN opts[s] = Else(SetAddr(says[s]["env"]), Else(flag,
                          IF bad THEN Else(Valid("file", s),
                                           Builtin("address"))
                                 ELSE Builtin("address")))

\* The number that was meant by the setting: the environment's may be negative.
Asked(s) ==
  Else({says[s]["env"]} \cap -(W \div 2) .. W \div 2 - 1, Ranked(s))

MaxSeconds == (W \div 2 - 1) \div Second

\* An agent whose intervals are numbers of seconds that a duration can hold
\* comes up, and ticks at these intervals; one that has been asked for none, or
\* for a negative one as small, does not come up.  Only beyond the limit,
\* where the multiplication wraps around, is its period another.
PeriodAsAsked ==
  program = "agent" =>
    /\ phase = "running" =>
         \A s \in Intervals :
           /\ Asked(s) \in -MaxSeconds .. MaxSeconds =>
                Asked(s) > 0 /\ period[s] = Asked(s) * Second
           /\ period[s] \in 1 .. W \div 2 - 1
    /\ phase = "panicked" /\ file # "forbidden" =>
         \E s \in Intervals : Asked(s) \notin 1 .. MaxSeconds
=============================================================================
