--------------------------- MODULE Metrics_proofs ----------------------------
(***************************************************************************)
(* Lemmas about maps of metrics that several proofs need: numbers that     *)
(* wrap around, batches, and sums.                                         *)
(*                                                                         *)
(* A sum of naturals f[c], for c in S, is the number of pairs of a c and a *)
(* number up to f[c]: the library counts sets, and nothing is added up     *)
(* recursively.                                                            *)
(***************************************************************************)
EXTENDS Metrics, FiniteSetTheorems, TLAPS

-----------------------------------------------------------------------------
(* Numbers. *)

\* What holds of 0 and with every number of the next holds up to n: else a
\* least initial segment would end with a number it does not hold of.
LEMMA UpTo ==
  ASSUME NEW n \in Nat, NEW T, 0 \in T,
         \A k \in 0 .. n - 1 : k \in T => k + 1 \in T
  PROVE  n \in T
<1> SUFFICES ASSUME n \notin T
             PROVE  FALSE
  OBVIOUS
<1> DEFINE All == 0 .. n
           Segments == {0 .. k : k \in All \ T}
<1>1. IsWellFoundedOn(StrictSubsetOrdering(All), SUBSET All)
  <2>1. IsFiniteSet(All)
    BY FS_Interval
  <2> QED
    BY <2>1, FS_StrictSubsetOrderingWellFounded, FS_FiniteSubsetsOfFinite
<1>2. Segments \subseteq SUBSET All /\ Segments # {}
  OBVIOUS
<1>3. PICK x \in Segments :
        \A y \in Segments : <<y, x>> \notin StrictSubsetOrdering(All)
  <2> HIDE DEF Segments, All
  <2> QED
    BY <1>1, <1>2, WFMin
<1>4. PICK m \in All \ T : x = 0 .. m
  OBVIOUS
<1>5. m # 0 /\ m - 1 \in All \ T
  OBVIOUS
<1>6. 0 .. m - 1 \in Segments /\ 0 .. m - 1 \in SUBSET All /\ 0 .. m \in SUBSET All
  BY <1>5
<1>7. 0 .. m - 1 \subseteq 0 .. m /\ m \in 0 .. m /\ m \notin 0 .. m - 1
  BY <1>5
<1> HIDE DEF Segments
<1> QED
  BY <1>3, <1>4, <1>6, <1>7 DEF StrictSubsetOrdering

\* A number below the width is what is left of itself, and nobody else is left
\* with another.
LEMMA Residue ==
  /\ W \in Nat \ {0} /\ Val \subseteq Nat /\ Absent \notin Val /\ 0 \in Val
  /\ \A x \in Nat : /\ x % W \in Val /\ x % W <= x
                    /\ x < W => x % W = x
<1>1. W \in Nat \ {0} /\ Absent \notin Val
  BY MetricsAssumption
<1>2. ASSUME NEW x \in Nat
      PROVE  /\ x % W \in Val /\ x % W <= x
             /\ x < W => x % W = x
  <2>1. x % W \in 0 .. W - 1
    BY <1>1
  <2>2. x < W => x % W = x
    BY <1>1
  <2> QED
    BY <1>1, <2>1, <2>2 DEF Val
<1> QED
  BY <1>1, <1>2 DEF Val

LEMMA Below == \A x \in Val : x \in Nat /\ x < W /\ x % W = x /\ x # Absent
<1>1. W \in Nat \ {0} /\ Absent \notin Val
  BY MetricsAssumption
<1>2. \A x \in Val : x \in Nat /\ x < W /\ x # Absent
  BY <1>1 DEF Val
<1> QED
  BY <1>2, Residue

\* The sum of two values wraps around once at most.
LEMMA WrapsOnce ==
  ASSUME NEW r \in Val, NEW b \in Val, NEW q \in Nat
  PROVE  (q * W + (r + b)) % W = (r + b) % W
<1>1. W \in Nat \ {0} /\ r \in 0 .. W - 1 /\ b \in 0 .. W - 1
  BY Residue DEF Val
<1>2. ASSUME NEW p \in Nat, NEW s \in 0 .. W - 1
      PROVE  (p * W + s) % W = s
  BY <1>1, <1>2
<1>3. CASE r + b < W
  BY <1>1, <1>2, <1>3
<1>4. CASE ~(r + b < W)
  <2>1. r + b - W \in 0 .. W - 1
    BY <1>1, <1>4
  <2>2. q * W + (r + b) = (q + 1) * W + (r + b - W)
    BY <1>1
  <2>3. r + b = 1 * W + (r + b - W)
    BY <1>1
  <2> QED
    BY <1>2, <2>1, <2>2, <2>3
<1> QED
  BY <1>3, <1>4

\* Adding to what is left of a sum is adding to the sum.
LEMMA SumWraps ==
  ASSUME NEW t \in Nat, NEW b \in Val
  PROVE  ((t % W) + b) % W = (t + b) % W
<1>1. W \in Nat \ {0} /\ b \in Nat /\ t % W \in Val /\ t % W \in Nat
  BY Residue
<1>2. t = (t \div W) * W + (t % W) /\ t \div W \in Nat
  BY <1>1
<1>3. t + b = (t \div W) * W + ((t % W) + b)
  BY <1>1, <1>2
<1>4. ((t \div W) * W + ((t % W) + b)) % W = ((t % W) + b) % W
  BY <1>1, <1>2, WrapsOnce
<1> QED
  BY <1>3, <1>4

-----------------------------------------------------------------------------
(* Maps and batches. *)

LEMMA EmptyMapType == EmptyMap \in Map /\ \A n \in Names : Count(EmptyMap[n]) = 0
BY DEF EmptyMap, Map, Count

LEMMA CountType ==
  ASSUME NEW m \in Map
  PROVE  \A n \in Names : /\ Count(m[n]) \in Val /\ Count(m[n]) \in Nat
                          /\ m[n] # Absent => Count(m[n]) = m[n]
BY Residue DEF Map, Count

\* A batch leaves a map, with an entry wherever it or the map had one.  Of
\* deltas, it leaves what remains of the sums.
LEMMA BatchType ==
  ASSUME NEW m \in Map, NEW b \in Map, NEW op \in {"set", "accum"}
  PROVE  /\ ApplyBatch(op, m, b) \in Map
         /\ Keys(ApplyBatch(op, m, b)) = Keys(m) \cup Keys(b)
<1> DEFINE new == ApplyBatch(op, m, b)
<1>1. ASSUME NEW n \in Names
      PROVE  /\ new[n] \in Val \cup {Absent}
             /\ new[n] # Absent <=> (m[n] # Absent \/ b[n] # Absent)
  <2>1. m[n] \in Val \cup {Absent} /\ b[n] \in Val \cup {Absent}
    BY DEF Map
  <2>2. new[n] \in {m[n], b[n], (m[n] + b[n]) % W}
        /\ (new[n] = m[n] \/ b[n] # Absent)
    BY DEF ApplyBatch, Merge
  <2>3. CASE b[n] = Absent
    BY <2>1, <2>3 DEF ApplyBatch
  <2>4. CASE b[n] # Absent /\ (op = "set" \/ m[n] = Absent)
    BY <2>1, <2>4 DEF ApplyBatch, Merge
  <2>5. CASE b[n] # Absent /\ op = "accum" /\ m[n] # Absent
    <3>1. new[n] = (m[n] + b[n]) % W
      BY <2>5 DEF ApplyBatch, Merge
    <3>2. m[n] \in Nat /\ b[n] \in Nat
      BY <2>1, <2>5, Residue
    <3>3. (m[n] + b[n]) % W \in Val
      BY <3>2, Residue
    <3> QED
      BY <2>5, <3>1, <3>3, Residue
  <2> QED
    BY <2>3, <2>4, <2>5
<1>2. new = [n \in Names |-> new[n]]
  BY DEF ApplyBatch
<1>3. new \in Map
  BY <1>1, <1>2 DEF Map
<1>4. Keys(new) = Keys(m) \cup Keys(b)
  BY <1>1 DEF Keys
<1> HIDE DEF new
<1> QED
  BY <1>3, <1>4 DEF new

LEMMA BatchSum ==
  ASSUME NEW m \in Map, NEW b \in Map, NEW n \in Names
  PROVE  Count(ApplyBatch("accum", m, b)[n]) = (Count(m[n]) + Count(b[n])) % W
<1>1. m[n] \in Val \cup {Absent} /\ b[n] \in Val \cup {Absent}
  BY DEF Map
<1>2. ApplyBatch("accum", m, b)[n]
        = IF b[n] = Absent THEN m[n]
          ELSE IF m[n] = Absent THEN b[n] ELSE (m[n] + b[n]) % W
  BY DEF ApplyBatch, Merge
<1>3. \A x \in Val : x \in Nat /\ x # Absent /\ x % W = x
  BY Residue DEF Val
<1>6. 0 % W = 0
  BY <1>3, Residue
<1>4. CASE b[n] = Absent \/ m[n] = Absent
  <2>1. CASE b[n] = Absent /\ m[n] = Absent
    BY <1>2, <1>6, <2>1 DEF Count
  <2>2. CASE b[n] = Absent /\ m[n] # Absent
    BY <1>1, <1>2, <1>3, <2>2 DEF Count
  <2>3. CASE b[n] # Absent /\ m[n] = Absent
    BY <1>1, <1>2, <1>3, <2>3 DEF Count
  <2> QED
    BY <1>4, <2>1, <2>2, <2>3
<1>5. CASE b[n] # Absent /\ m[n] # Absent
  <2>1. m[n] + b[n] \in Nat
    BY <1>1, <1>3, <1>5
  <2>2. (m[n] + b[n]) % W # Absent
    BY <2>1, Residue
  <2> QED
    BY <1>2, <1>5, <2>2 DEF Count
<1> QED
  BY <1>4, <1>5

\* Nothing that is added to a history makes it less.
LEMMA PlusType ==
  ASSUME NEW h \in [Names -> Nat], NEW b \in Map
  PROVE  /\ Plus(h, b) \in [Names -> Nat]
         /\ \A n \in Names : /\ Plus(h, b)[n] = h[n] + Count(b[n])
                             /\ Count(b[n]) \in Nat
<1>1. ASSUME NEW n \in Names
      PROVE  Count(b[n]) \in Nat
  BY CountType
<1> QED
  BY <1>1 DEF Plus

-----------------------------------------------------------------------------
(* Sums. *)

Units(S, f) == {u \in S \X Nat : u[2] \in 1 .. f[u[1]]}

LEMMA NoUnits ==
  ASSUME NEW S, NEW f, \A c \in S : f[c] = 0
  PROVE  Units(S, f) = {} /\ IsFiniteSet({}) /\ Cardinality({}) = 0
<1>1. Units(S, f) = {}
  BY DEF Units
<1> QED
  BY <1>1, FS_EmptySet

\* If one of the numbers changes, so does the sum, by as much.
LEMMA UnitsChange ==
  ASSUME NEW S, NEW f \in [S -> Nat], NEW g \in [S -> Nat], NEW c \in S,
         \A d \in S \ {c} : g[d] = f[d], IsFiniteSet(Units(S, f))
  PROVE  /\ IsFiniteSet(Units(S, g))
         /\ Cardinality(Units(S, f)) \in Nat /\ Cardinality(Units(S, g)) \in Nat
         /\ f[c] <= Cardinality(Units(S, f))
         /\ Cardinality(Units(S, g)) + f[c] = Cardinality(Units(S, f)) + g[c]
<1> DEFINE Rest == {u \in Units(S, f) : u[1] # c}
           Own(k) == {c} \X (1 .. k)
<1>1. IsFiniteSet(Rest) /\ Cardinality(Rest) \in Nat
  <2>1. Rest \subseteq Units(S, f)
    OBVIOUS
  <2> QED
    BY <2>1, FS_Subset, FS_CardinalityType
<1>2. ASSUME NEW k \in Nat
      PROVE  /\ IsFiniteSet(Rest \cup Own(k))
             /\ Cardinality(Rest \cup Own(k)) = Cardinality(Rest) + k
  <2>1. IsFiniteSet(1 .. k) /\ Cardinality(1 .. k) = k
    <3>1. 1 \in Int /\ k \in Int
      OBVIOUS
    <3>2. IsFiniteSet(1 .. k)
          /\ Cardinality(1 .. k) = IF 1 > k THEN 0 ELSE k - 1 + 1
      BY <3>1, FS_Interval, Zenon
    <3> QED
      BY <3>2
  <2>2. IsFiniteSet({c}) /\ Cardinality({c}) = 1
    BY FS_Singleton
  <2>3. IsFiniteSet(Own(k)) /\ Cardinality(Own(k)) = k
    BY <2>1, <2>2, FS_Product
  <2>4. Rest \cap Own(k) = {}
    OBVIOUS
  <2>5. Cardinality(Rest \cap Own(k)) = 0
    BY <2>4, FS_EmptySet
  <2> HIDE DEF Rest, Own
  <2> QED
    BY <1>1, <2>3, <2>5, FS_Union
<1>3. Units(S, f) = Rest \cup Own(f[c])
  BY DEF Units
<1>4. Units(S, g) = Rest \cup Own(g[c])
  BY DEF Units
<1>5. f[c] \in Nat /\ g[c] \in Nat
  OBVIOUS
<1> HIDE DEF Rest, Own
<1>6. /\ IsFiniteSet(Units(S, f))
      /\ Cardinality(Units(S, f)) = Cardinality(Rest) + f[c]
  BY <1>2, <1>3, <1>5
<1>7. /\ IsFiniteSet(Units(S, g))
      /\ Cardinality(Units(S, g)) = Cardinality(Rest) + g[c]
  BY <1>2, <1>4, <1>5
<1> QED
  BY <1>1, <1>5, <1>6, <1>7
=============================================================================
