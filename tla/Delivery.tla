------------------------------ MODULE Delivery -------------------------------
(***************************************************************************)
(* The agent of AgentReports, a network that breaks connections, and a     *)
(* server that checks signatures and holds its metrics in memory: what     *)
(* becomes of a report.                                                    *)
(*                                                                         *)
(* Post gives its request a buffer to read the body from.  Whatever an     *)
(* attempt has read of it is not there for the next one, which sends what  *)
(* is left; the server cannot uncompress that and answers 500.  Post looks *)
(* at no status.                                                           *)
(*                                                                         *)
(* A post is a report with a body; posts are numbered as they are built.   *)
(* An attempt whose connection breaks may have reached the server all the  *)
(* same: its handler goes on beside those of later posts.                  *)
(***************************************************************************)
EXTENDS AgentReports

VARIABLES post,      \* the number of each worker's post, 0 before its first
          posts,     \* how many there have been
          whole,     \* nothing of its buffer has been read
          conn,      \* its attempt: "idle" (not there yet), "out" (with its
                     \* handler) or "refused" (a middleware has answered)
          handler,   \* of a post: "none", "gauges", "counters" or "respond"
          shown,     \* the post the server's gauges are of, 0 for none
          built,     \* history: the posts each worker has built
          counted,   \* history: how often the counters of a post were added
          fault      \* history: what befell a post: "broken", "signature"

agent == vars
client == <<post, posts, whole, conn, built>>
service == <<handler, shown, counted>>
deliveryVars == <<agent, client, service, fault>>

Posts == 1 .. MaxReports

DeliveryInit ==
  /\ Init
  /\ post = [w \in Workers |-> 0] /\ posts = 0
  /\ whole = [w \in Workers |-> FALSE]
  /\ conn = [w \in Workers |-> "idle"]
  /\ built = [w \in Workers |-> {}]
  /\ handler = [r \in Posts |-> "none"] /\ shown = 0
  /\ counted = [r \in Posts |-> 0]
  /\ fault = [r \in Posts |-> {}]

-----------------------------------------------------------------------------
(* The agent's steps, by what they mean for the network. *)

\* Those that have nothing to do with it.
Local ==
  /\ \/ Signal
     \/ Sample \/ Store \/ SamplePanics \/ MonitorStop \/ MonitorEnd
     \/ Tick \/ Enqueue \/ ReporterStop \/ CloseQueue \/ ReporterEnd
     \/ \E w \in Workers : \/ Take(w) \/ WorkerEnd(w) \/ BuildFails(w)
                          \/ HashWrite(w) \/ HashSum(w) \/ HashReset(w)
     \/ Exit
  /\ UNCHANGED <<client, service, fault>>

\* A body gets a buffer of its own.
BuildPost(w) ==
  /\ Build(w)
  /\ IF current = 0 THEN UNCHANGED client
     ELSE /\ posts' = posts + 1
          /\ post' = [post EXCEPT ![w] = posts + 1]
          /\ whole' = [whole EXCEPT ![w] = TRUE]
          /\ conn' = [conn EXCEPT ![w] = "idle"]
          /\ built' = [built EXCEPT ![w] = @ \cup {posts + 1}]
  /\ UNCHANGED <<service, fault>>

Befalls(r, f) == fault' = [fault EXCEPT ![r] = @ \cup {f}]

\* Mutant of Arrive: each attempt reads the body anew.
ArriveAnew(w) ==
  /\ pc[w] = "send" /\ conn[w] = "idle"
  /\ IF signed[w]
       THEN /\ conn' = [conn EXCEPT ![w] = "out"]
            /\ handler' = [handler EXCEPT ![post[w]] = "gauges"]
       ELSE conn' = [conn EXCEPT ![w] = "refused"] /\ UNCHANGED handler
  /\ IF signed[w] THEN UNCHANGED fault ELSE Befalls(post[w], "signature")
  /\ UNCHANGED <<agent, post, posts, whole, built, shown, counted>>

\* An attempt arrives.  It has a handler if it is the whole body, with the
\* signature of it.
Arrive(w) ==
  /\ pc[w] = "send" /\ conn[w] = "idle"
  /\ whole' = [whole EXCEPT ![w] = FALSE]
  /\ IF whole[w] /\ signed[w]
       THEN /\ conn' = [conn EXCEPT ![w] = "out"]
            /\ handler' = [handler EXCEPT ![post[w]] = "gauges"]
       ELSE conn' = [conn EXCEPT ![w] = "refused"] /\ UNCHANGED handler
  /\ IF signed[w] THEN UNCHANGED fault ELSE Befalls(post[w], "signature")
  /\ UNCHANGED <<agent, post, posts, built, shown, counted>>

\* Mutant of Break: the next attempt is a post of its own.
BreakAnew(w) ==
  /\ Retry(w) \/ Fatal(w)
  /\ conn' = [conn EXCEPT ![w] = "idle"]
  /\ whole' = [whole EXCEPT ![w] = TRUE]
  /\ posts' = posts + 1
  /\ Befalls(post[w], "broken")
  /\ UNCHANGED <<post, built, service>>

\* The connection breaks, before the attempt has arrived (when some of the
\* buffer may have been read) or after.  Post tries again or ends the agent.
Break(w) ==
  /\ Retry(w) \/ Fatal(w)
  /\ conn' = [conn EXCEPT ![w] = "idle"]
  /\ \E b \in {whole[w], FALSE} : whole' = [whole EXCEPT ![w] = b]
  /\ Befalls(post[w], "broken")
  /\ UNCHANGED <<post, posts, built, service>>

\* Mutant of Receive: the server answers before it has done what it was asked.
ReceiveEarly(w) ==
  /\ Answered(w)
  /\ conn[w] \in {"out", "refused"}
  /\ conn' = [conn EXCEPT ![w] = "idle"]
  /\ UNCHANGED <<post, posts, whole, built, service, fault>>

\* The answer arrives.
Receive(w) ==
  /\ Answered(w)
  /\ conn[w] = "refused" \/ (conn[w] = "out" /\ handler[post[w]] = "respond")
  /\ conn' = [conn EXCEPT ![w] = "idle"]
  /\ UNCHANGED <<post, posts, whole, built, service, fault>>

-----------------------------------------------------------------------------
(* UpdateBatchHandler. *)

SetGauges(r) ==
  /\ handler[r] = "gauges"
  /\ shown' = r
  /\ handler' = [handler EXCEPT ![r] = "counters"]
  /\ UNCHANGED <<agent, client, counted, fault>>

\* Mutant of SetCounters: it waits until the other handlers have responded.
SetCountersAlone(r) ==
  /\ handler[r] = "counters"
  /\ \A q \in Posts \ {r} : handler[q] \in {"none", "respond"}
  /\ counted' = [counted EXCEPT ![r] = @ + 1]
  /\ handler' = [handler EXCEPT ![r] = "respond"]
  /\ UNCHANGED <<agent, client, shown, fault>>

SetCounters(r) ==
  /\ handler[r] = "counters"
  /\ counted' = [counted EXCEPT ![r] = @ + 1]
  /\ handler' = [handler EXCEPT ![r] = "respond"]
  /\ UNCHANGED <<agent, client, shown, fault>>

Serve == \E r \in Posts : SetGauges(r) \/ SetCounters(r)

DeliveryNext ==
  \/ /\ exited = "no"
     /\ \/ Local
        \/ \E w \in Workers : BuildPost(w) \/ Arrive(w) \/ Break(w) \/ Receive(w)
  \/ Serve

DeliverySpec == DeliveryInit /\ [][DeliveryNext]_deliveryVars

\* Unless their connection breaks attempts and answers arrive, and the server's
\* handlers go on.
DeliveryFairness ==
  /\ AgentFairness
  /\ \A w \in Workers : /\ WF_deliveryVars(Running(Arrive(w)))
                        /\ WF_deliveryVars(Running(Receive(w)))
  /\ \A r \in Posts : WF_deliveryVars(SetGauges(r) \/ SetCounters(r))

DeliveryFairSpec == DeliverySpec /\ DeliveryFairness

-----------------------------------------------------------------------------
(* Properties. *)

\* What the network and the server are at has its type.
DeliveryTypeOK ==
  /\ posts \in 0 .. MaxReports
  /\ post \in [Workers -> 0 .. posts]
  /\ whole \in [Workers -> BOOLEAN]
  /\ conn \in [Workers -> {"idle", "out", "refused"}]
  /\ built \in [Workers -> SUBSET Posts]
  /\ handler \in [Posts -> {"none", "gauges", "counters", "respond"}]
  /\ shown \in 0 .. posts
  /\ counted \in [Posts -> Nat]
  /\ fault \in [Posts -> SUBSET {"broken", "signature"}]

\* However often Post tries again, and whatever was lost on the way there or
\* back, no report is counted twice: an attempt that reached a handler has left
\* nothing in the buffer that a second one could be counted for.
CountedOnce == \A r \in Posts : counted[r] <= 1

\* The posts no worker is busy with any more.
Done == {r \in 1 .. posts : \A w \in Workers : post[w] = r =>
                              pc[w] \in {"idle", "build", "end"}}

\* A report that Post has seen off has been counted, although Post looks at no
\* status: unless one of its connections broke, or another worker spoilt its
\* signature.
LostForAReason ==
  \A r \in Done : counted[r] = 1 \/ "broken" \in fault[r]
                    \/ ("signature" \in fault[r] /\ Cardinality(pool) > 1)

\* The gauges of a worker's post do not replace those of a later one of the same
\* worker, in whatever order the handlers run: unless the earlier post's connection
\* broke, when its handler, of which nobody knows, may come late.
NoneOvertaken ==
  \A w \in Workers : \A q, r \in built[w] :
    q < r /\ shown = q /\ handler[r] \in {"counters", "respond"} =>
      "broken" \in fault[q]
=============================================================================
