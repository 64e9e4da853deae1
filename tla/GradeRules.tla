----------------------------- MODULE GradeRules -----------------------------
(***************************************************************************)
(* The five grades of one instrument, session by session: saved indicator  *)
(* values are turned into states (indicator_state.py), the states into a   *)
(* grade (signal_grade_service.py), and the structure score may move the   *)
(* grade by a notch (structure_decision.py).  Yesterday's values are used  *)
(* only when they were saved under the same formulas.                      *)
(*                                                                         *)
(* Values are small integers: DIF and DEA are compared with each other and *)
(* with zero, K and D give J = 3K - 2D.  The RSI and TD cells do not enter *)
(* the grade and are left out.                                             *)
(***************************************************************************)
EXTENDS Integers

CONSTANTS Levels,   \* values of DIF, DEA, K, D
          Approach, \* a histogram this close to zero is about to cross
          JHigh, JOver, JLow, JCap,  \* thresholds of J
          Ratios, Expand, Contract,  \* volume ratios and their thresholds
          Scores, Weight, MaxShift   \* structure scores in thousandths, weight in ten-thousandths

GradeAssumption == /\ Weight \in 0..10000 /\ MaxShift \in Nat
                          /\ JLow < JHigh /\ JHigh <= JOver /\ Contract < Expand
                          /\ Scores \subseteq -1000..1000

VARIABLES today, previous

vars == <<today, previous>>

NoValue == -9999
Values == [dif : Levels, dea : Levels, k : Levels, d : Levels]
Absent == [dif |-> NoValue]
Hist(v) == 2 * (v.dif - v.dea)
J(v) == 3 * v.k - 2 * v.d

\* Yesterday's snapshot under the same version, schema and configuration, else none.
Comparable(v, same) == IF same THEN v ELSE Absent

Init == today = Absent /\ previous = Absent

\* The next session's values are saved.  They may be incomplete, and the formulas may
\* have changed since the session before.
Session(v, same) == today' = v /\ previous' = Comparable(today, same)

Next == \E v \in Values \cup {Absent}, same \in BOOLEAN : Session(v, same)

Spec == Init /\ [][Next]_vars

(***************************************************************************)
(* States.                                                                 *)
(***************************************************************************)

\* The ratio is an integer or missing.
ClassifyVolume(r) == CASE r = NoValue -> "unknown"
                       [] r # NoValue /\ r >= Expand -> "expand"
                       [] r # NoValue /\ r < Expand /\ r <= Contract -> "contract"
                       [] OTHER -> "flat"

\* Four averages, shortest first.
ClassifyMA(m) == CASE \E i \in 1..4 : m[i] = NoValue -> "unknown"
                   [] \A i \in 1..3 : m[i] > m[i + 1] -> "bull"
                   [] \A i \in 1..3 : m[i] < m[i + 1] -> "bear"
                   [] OTHER -> "mixed"

ClassifyMACD(v, p) ==
    IF v = Absent THEN "unknown"
    ELSE LET h == Hist(v)
             was(test) == p # Absent /\ test
         IN CASE was(p.dif >= p.dea /\ v.dif < v.dea) \/ (h < 0 /\ v.dif < v.dea /\ was(Hist(p) >= 0)) -> "death"
              [] was(p.dif <= p.dea /\ v.dif > v.dea) \/ (h > 0 /\ v.dif > v.dea /\ was(Hist(p) <= 0)) -> "gold"
              [] h > 0 /\ (was(h < Hist(p)) \/ (h <= Approach /\ v.dif > v.dea)) -> "approach_death"
              [] h < 0 /\ (was(h > Hist(p)) \/ (-h <= Approach /\ v.dif < v.dea)) -> "approach_gold"
              [] h > 0 -> "bull_cont"
              [] OTHER -> "bear_cont"

\* Without yesterday's values a K below D counts as crossed.
ClassifyKDJ(v, p) ==
    IF v = Absent THEN "unknown"
    ELSE CASE v.k < v.d /\ (p = Absent \/ p.k >= p.d) -> "death"
           [] J(v) >= JOver -> "overbought"
           [] J(v) >= JHigh -> "high"
           [] J(v) <= JLow -> "low"
           [] OTHER -> "healthy"

(***************************************************************************)
(* Grades: 0 reduce, 1 watch, 2 probe, 3 enter, 4 add; -1 data anomaly.    *)
(***************************************************************************)

\* rise: the return is above the stall level ("up"), positive below it ("slow"), not positive or unknown ("no").
AssignGrade(v, macd, kdj, ma, vol, rise) ==
    IF v = Absent \/ ma = "unknown" \/ macd = "unknown" \/ vol = "unknown" THEN -1
    ELSE LET stall == vol = "expand" /\ rise # "up"
             low   == J(v) < JCap
         IN CASE kdj = "death" \/ macd \in {"death", "approach_death"} -> 0
              [] kdj \in {"overbought", "high"} \/ stall -> 1
              [] low /\ rise # "no" /\ vol = "expand" /\ ma = "bull" -> 4
              [] low /\ (ma = "bull" \/ macd \in {"gold", "approach_gold", "bull_cont"}) -> 3
              [] low -> 2
              [] OTHER -> 1

Lower(a, b) == IF a < b THEN a ELSE b
Higher(a, b) == IF a < b THEN b ELSE a

\* The table of grades has no entry above the top one: the lookup raises.
Raises == -2

\* The score moves an ordinary grade to the nearest weighted rank, MaxShift notches at
\* most, and never onto the top or the bottom grade.
ApplyStructureDecision(g, score) ==
    IF g <= 0 \/ score = NoValue \/ Weight = 0 THEN g
    ELSE LET target == (g * 10000000 + 2 * Weight * score + 5000000) \div 10000000
             moved  == g + Higher(-MaxShift, Lower(MaxShift, target - g))
         IN CASE moved >= 4 /\ g < 4 -> 3
              [] moved <= 0 -> 1
              [] moved > 4 -> Raises
              [] OTHER -> moved

(***************************************************************************)
(* Properties.                                                             *)
(***************************************************************************)

MACD == ClassifyMACD(today, previous)
KDJ == ClassifyKDJ(today, previous)
MAs == {<<4, 3, 2, 1>>, <<1, 2, 3, 4>>, <<2, 1, 3, 4>>, <<2, 2, 1, 0>>, <<NoValue, 1, 2, 3>>}
Base(m, r, rise) == AssignGrade(today, MACD, KDJ, ClassifyMA(m), ClassifyVolume(r), rise)
Rises == {"up", "slow", "no"}

\* Saved values are of their kind and each is read as one state and one grade.
GradeTypeOK ==
    /\ today \in Values \cup {Absent} /\ previous \in Values \cup {Absent}
    /\ \A m \in MAs, r \in Ratios \cup {NoValue}, rise \in Rises : Base(m, r, rise) \in -1..4

\* A cross is announced on the session it happens: a day is called a MACD death cross
\* only if the line was not below the signal line the session before, and the same of
\* a golden cross, however the sessions follow each other.
CrossIsNew ==
    /\ MACD = "death" => previous # Absent /\ today.dif < today.dea /\ previous.dif >= previous.dea
    /\ MACD = "gold" => previous # Absent /\ today.dif > today.dea /\ previous.dif <= previous.dea

\* A grade is withheld when any input of it is missing, and structure never supplies one.
MissingFailsClosed ==
    \A m \in MAs, r \in Ratios \cup {NoValue}, rise \in Rises, s \in Scores \cup {NoValue} :
        (today = Absent \/ r = NoValue \/ \E i \in 1..4 : m[i] = NoValue) =>
            ApplyStructureDecision(Base(m, r, rise), s) = -1

\* Structure moves a grade one notch at most, makes neither the top nor the bottom
\* grade, leaves reduce and anomaly alone, and only acts on a score of 0.60 or more.
StructureBounded ==
    \A m \in MAs, r \in Ratios \cup {NoValue}, rise \in Rises, s \in Scores :
        LET g == Base(m, r, rise)  f == ApplyStructureDecision(g, s)
        IN f # Raises =>
           /\ f - g \in -1..1
           /\ f # g => f \in 1..3 /\ g > 0 /\ (s >= 600 \/ s <= -600)

\* The grade rules in one.
GradesSound == CrossIsNew /\ MissingFailsClosed /\ StructureBounded

\* The adjustment of a row always returns a grade ("always carries base/final grades").
DecisionReturns ==
    \A m \in MAs, r \in Ratios \cup {NoValue}, rise \in Rises, s \in Scores :
        ApplyStructureDecision(Base(m, r, rise), s) # Raises

=============================================================================
