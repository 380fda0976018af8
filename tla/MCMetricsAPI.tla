---------------------------- MODULE MCMetricsAPI -----------------------------
(* Small instances of MetricsAPI for TLC.                                  *)
EXTENDS MetricsAPI, TLC

Symmetry == Permutations(Clients)

Config(s, c, b) == [sign |-> s, crypto |-> c, backend |-> b]
\* The middlewares do not depend on the repository: one configuration with
\* PostgreSQL is enough, and it is the one with both keys.
FewConfigs ==
  {Config(s, c, IF s /\ c THEN "pgsql" ELSE "memory") : s, c \in BOOLEAN}
Encrypted == {Config(TRUE, TRUE, "memory")}
Signing == {Config(TRUE, FALSE, "memory")}

Rec(n, t, v) == [id |-> n, type |-> t, val |-> v]
Message(route, rs) ==
  [route |-> route, gzip |-> "ok", sign |-> "good", cipher |-> "good",
   form |-> "json", accept |-> TRUE, records |-> rs]

AName == CHOOSE n \in Names : TRUE

\* Records of every kind the handlers tell apart.
PathRecords ==
  {Rec(n, t, v) : n \in {AName, NoName}, t \in {"gauge", "counter", "other"},
                  v \in {1, Garbled}}
JsonRecords ==
  {Rec(n, t, v) : n \in {AName, NoName}, t \in {"gauge", "counter", "other"},
                  v \in {1, Absent}}
\* Two such deltas are out of range together.
GoodRecords ==
  {Rec(n, "gauge", 1) : n \in Names} \cup {Rec(n, "counter", 2) : n \in Names}

\* A good message on each route, distorted in one of the ways a middleware
\* notices, and a batch in one or two.
Base == {Message("path", <<Rec(AName, "counter", 1)>>),
         Message("single", <<Rec(AName, "counter", 1)>>),
         Message("batch", <<Rec(AName, "gauge", 1), Rec(AName, "counter", 1)>>),
         Message("value", <<Rec(AName, "counter", Absent)>>),
         Message("show", <<Rec(AName, "counter", Absent)>>)}
Distorted ==
  {m \in {[b EXCEPT !.gzip = z, !.sign = s, !.cipher = d] :
            b \in {x \in Base : x.route \notin {"single", "show"}},
            z \in {"ok", "none", "badHeader", "badBody"},
            s \in {"none", "good", "wrong", "garbled"},
            d \in {"good", "wrong", "short"}} :
     LET intact == {f \in {"gzip", "sign", "cipher"} : m[f] \in {"ok", "good"}}
     IN Cardinality(intact) >= (IF m.route = "batch" THEN 1 ELSE 2)}
NotJson ==
  {[m EXCEPT !.form = f] : m \in {b \in Base : b.route \notin {"path", "show"}},
                           f \in {"noJson", "otherType"}}

\* Without Accept-Encoding only the type of the message counts.
Uncompressed ==
  {[m EXCEPT !.accept = FALSE, !.form = f, !.cipher = d] :
     m \in Base, f \in {"json", "otherType"}, d \in {"good", "wrong"}}

\* Every record on its own, every pair of good ones, pairs with a bad one.
Singles ==
  {Message("path", <<r>>) : r \in PathRecords} \cup
  {Message(o, <<r>>) : o \in {"single", "batch"}, r \in JsonRecords} \cup
  {Message(o, <<r>>) : o \in {"value", "show"},
                       r \in {x \in JsonRecords : x.val = Absent}}
Pairs ==
  {Message("batch", <<r, s>>) : r \in GoodRecords,
                                s \in GoodRecords \cup JsonRecords}

AllMessages ==
  Base \cup Distorted \cup NotJson \cup Uncompressed \cup Singles \cup Pairs

\* A path update carries a body, too, once there is a decrypter.
Ciphers ==
  {[m EXCEPT !.cipher = d] : m \in Base, d \in {"good", "wrong", "short"}}
=============================================================================
