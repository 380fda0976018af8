----------------------------- MODULE MCDelivery ------------------------------
(* Small instances for TLC of Delivery, and of Config, by which the agent     *)
(* (and the server) came by its settings.  They share no state: the initial   *)
(* state says which of the two is looked at.                                  *)
EXTENDS Delivery, Config

\* Rate limits from 1 up; workers are alike, so one pool of a size will do.
UpTo(S) ==
  {CHOOSE P \in SUBSET S : Cardinality(P) = n : n \in 1 .. Cardinality(S)}
AnyPool == UpTo(Workers)

\* The least and greatest of an int and of a uint and what lies beyond them,
\* the intervals whose duration just fits, just does not, and wraps around.
MCNumbers == {-65, -64, -11, -10, 0, 1, 10, 11, 22, 127, 128}

\* A setting is mentioned in every way, or by one source, or not at all.
Mentioned(kind) ==
  {[file |-> f, flag |-> g, env |-> e] : f \in Texts(kind, "file"),
     g \in Texts(kind, "flag"), e \in Texts(kind, "env")}
MentionedOnce(kind) ==
  {m \in Mentioned(kind) : \E source \in Sources :
                             \A o \in Sources \ {source} : m[o] = Nothing}
Unmentioned == [file |-> Nothing, flag |-> Nothing, env |-> Nothing]

\* Of program p, settings r and s are mentioned as R and S say.
Saying(p, r, R, s, S) ==
  {[x \in DOMAIN Programs[p] |->
      IF x = r THEN a ELSE IF x = s THEN b ELSE Unmentioned] :
     a \in R, b \in S}

\* One of them in every way, or two by one source each.
Either(p, r, s) ==
  LET Every(x) == Mentioned(Programs[p][x])
      Once(x) == MentionedOnce(Programs[p][x])
  IN Saying(p, r, Every(r), s, {Unmentioned})
       \cup Saying(p, r, {Unmentioned}, s, Every(s))
       \cup Saying(p, r, Once(r), s, Once(s))

MCInputs == [agent |-> Either("agent", "address", "report_interval")
                         \cup Either("agent", "report_interval", "key"),
             server |-> Either("server", "restore", "store_file")]

-----------------------------------------------------------------------------
ConfigOff ==
  /\ phase = "off" /\ program = "agent" /\ file = "missing"
  /\ says = << >> /\ opts = << >> /\ defaults = << >> /\ period = << >>

\* While settings are looked at, an agent of one worker does nothing.
MCInit ==
  DeliveryInit /\ (ConfigOff \/ (ConfigInit /\ Cardinality(pool) = 1))

MCNext ==
  \/ phase = "off" /\ DeliveryNext /\ UNCHANGED configVars
  \/ ConfigNext /\ UNCHANGED deliveryVars

MCSpec ==
  /\ MCInit /\ [][MCNext]_<<deliveryVars, configVars>>
  /\ DeliveryFairness
=============================================================================
