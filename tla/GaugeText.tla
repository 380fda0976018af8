------------------------------ MODULE GaugeText ------------------------------
(***************************************************************************)
(* The text in which ValueHandler shows a gauge, FormatGauge of package    *)
(* mondata, and ParseGauge, which reads such a text back (a path update,   *)
(* or whoever polls /value).                                               *)
(*                                                                         *)
(* A gauge is a decimal fraction: k stands for k / 10^Places, which        *)
(* strconv.FormatFloat(f, 'f', -1, 64) writes without superfluous digits.  *)
(* A text is a sequence of digits and Dot.  Both ways strconv goes digit   *)
(* by digit, dividing and multiplying by ten.                              *)
(***************************************************************************)
EXTENDS Integers, SequencesExt

CONSTANTS Places,   \* decimal places of the gauges looked at
          Limit     \* bound: the integer part of a gauge is below 10^Limit

\* What the theorem asks of the two.
SomePlaces == Places \in Nat \ {0} /\ Limit \in Nat \ {0}

\* How far a number is shifted at most.
Shifts == 0 .. Places + Limit

\* n shifted to the left: i times multiplied by ten.
TimesTen(n, i) ==
  LET shifted[j \in Shifts] == IF j = 0 THEN n ELSE 10 * shifted[j - 1]
  IN shifted[i]

\* n shifted to the right: without its last i digits.
OverTen(n, i) ==
  LET shifted[j \in Shifts] == IF j = 0 THEN n ELSE shifted[j - 1] \div 10
  IN shifted[i]

Dot == 10
One == TimesTen(1, Places)
Gauges == 0 .. TimesTen(1, Places + Limit) - 1
NotANumber == -1

VARIABLES gauge,      \* the gauge in the repository
          answered,   \* a reader has just been answered ...
          text        \* ... with this text
vars == <<gauge, answered, text>>

\* The last w digits of n.
Digits(n, w) == [i \in 1 .. w |-> OverTen(n, w - i) % 10]

\* How many digits n has without leading zeros.
Width(n) == Max({1} \cup {i \in 2 .. Limit : OverTen(n, i - 1) # 0})

\* s without its longest suffix of characters in cut: strings.TrimRight.
TrimRight(s, cut) ==
  SubSeq(s, 1, Max({0} \cup {i \in 1 .. Len(s) : s[i] \notin cut}))

\* strconv.FormatFloat with precision -1: the whole part, and the digits of the
\* fraction if there are any.
FormatFloat(k) ==
  LET n == OverTen(k, Places)
      whole == Digits(n, Width(n))
      fraction == TrimRight(Digits(k, Places), {0})
  IN IF fraction = << >> THEN whole ELSE whole \o <<Dot>> \o fraction

FormatGauge(k) == TrimRight(FormatFloat(k), {0, Dot})

\* strconv.ParseFloat for the texts above: the digits make up the mantissa, the
\* dot says how far it is to be shifted.  No digit at all is an error, and so
\* is a second dot.
ParseGauge(s) ==
  LET dots == {i \in 1 .. Len(s) : s[i] = Dot}
      after == IF dots = {} THEN 0 ELSE Len(s) - Max(dots)
      mantissa[i \in 0 .. Len(s)] ==
        IF i = 0 THEN 0
        ELSE IF i \in dots THEN mantissa[i - 1] ELSE 10 * mantissa[i - 1] + s[i]
  IN IF dots = 1 .. Len(s) \/ \E i, j \in dots : i # j THEN NotANumber
     ELSE TimesTen(mantissa[Len(s)], Places - after)

-----------------------------------------------------------------------------
Init ==
  /\ gauge = 0
  /\ answered = FALSE /\ text = << >>

\* An update sets the gauge.
SetGauge ==
  /\ gauge' \in Gauges
  /\ answered' = FALSE /\ text' = << >>

\* getVhData puts the text into SValue, ValueHandler writes that.
ValueHandler ==
  /\ answered' = TRUE /\ text' = FormatGauge(gauge)
  /\ UNCHANGED gauge

Next == SetGauge \/ ValueHandler

Spec == Init /\ [][Next]_vars

-----------------------------------------------------------------------------
(* Properties. *)

\* Whoever reads the text gets the gauge.
ShownAsIs == answered => ParseGauge(text) = gauge

\* What is true of it: a gauge that has a fraction, or whose last digit is not
\* zero, is shown as a text that parses to its value; of any other the zeros at
\* the end are missing, so that the text still has the digits before them.
ShownUpToZeros ==
  answered =>
    IF gauge % (10 * One) # 0
      THEN ParseGauge(text) = gauge
      ELSE \E z \in 0 .. Limit :
             gauge = TimesTen(IF text = << >> THEN 0 ELSE ParseGauge(text), z)
=============================================================================
