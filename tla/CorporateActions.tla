-------------------------- MODULE CorporateActions --------------------------
(***************************************************************************)
(* The research series of one instrument around unit splits                *)
(* (corporate_action_contract.py): stored closes are raw, official notices *)
(* are a table of the program, and a research reader scales the older rows *)
(* by the notices it takes into account and refuses a series with a gap it *)
(* cannot explain (data_contract.py, price_history_issue).                 *)
(*                                                                         *)
(* Every split is 1:2.  Values are integers: a unit is worth "truth", its  *)
(* price halves with every split, and all series are scaled by a power of  *)
(* two large enough to keep them whole.                                    *)
(***************************************************************************)
EXTENDS Naturals, Integers, Sequences, FiniteSets

CONSTANTS MaxTradeDay,  \* bound: sessions
          Worth    \* the values a unit may have; they differ by less than the gap trigger

ActionsAssumption == MaxTradeDay \in Nat \ {0} /\ \A a, b \in Worth : 100 * (a - b) <= 35 * b

ASSUME ActionsAssumed == ActionsAssumption

VARIABLES truth,   \* the value of one original unit, session by session, as the source last stated it
          splits,  \* ex dates of the splits that have happened
          notices, \* ex dates in the program's table
          adjust   \* per stored row, the source's own adjustment: "none" or "qfq"

actionVars == <<truth, splits, notices, adjust>>

Now == Len(truth)
TradeDays == 1..MaxTradeDay

ActionsInit == truth = <<>> /\ splits = {} /\ adjust = <<>> /\ notices = {}

\* A session trades and its bar is stored.  A split announced for it happens; one
\* that was not announced may happen too.
Session(w, split, adj) ==
    /\ Now < MaxTradeDay
    /\ (Now + 1) \in notices => split
    /\ truth' = Append(truth, w)
    /\ splits' = IF split THEN splits \cup {Now + 1} ELSE splits
    /\ adjust' = Append(adjust, adj)
    /\ UNCHANGED notices

\* A release of the program adds an official notice, before or after the ex date.
Notice(e) ==
    /\ e \in splits \/ e > Now
    /\ e \notin notices
    /\ notices' = notices \cup {e}
    /\ UNCHANGED <<truth, splits, adjust>>

\* A refresh fetches the sessions of the overlap again and stores what the source states now:
\* the row of a session is rewritten in place, its adjustment is part of its key.
Restate(d, w) ==
    /\ d \in 1..Now
    /\ truth' = [truth EXCEPT ![d] = w]
    /\ UNCHANGED <<splits, notices, adjust>>

ActionsNext == \/ \E w \in Worth, split \in BOOLEAN, adj \in {"none", "qfq"} : Session(w, split, adj)
        \/ \E e \in TradeDays : Notice(e)
        \/ \E d \in TradeDays, w \in Worth : Restate(d, w)

ActionsSpec == ActionsInit /\ [][ActionsNext]_actionVars

(***************************************************************************)
(* The readers.  T is the market date of an as-of reader, or Ever.         *)
(***************************************************************************)

Ever == MaxTradeDay + 1
Pow2[n \in 0..(2 * MaxTradeDay)] == IF n = 0 THEN 1 ELSE 2 * Pow2[n - 1]

\* The stored close: raw rows fall with every split, the source's adjusted rows do not.
Stored(d) == IF adjust[d] = "qfq" THEN truth[d] * Pow2[MaxTradeDay]
             ELSE truth[d] * Pow2[MaxTradeDay - Cardinality({s \in splits : s <= d})]

\* Mutant: a reader as of T takes the notices that become effective later too.
EffectiveAll(T) == notices
Effective(T) == {e \in notices : e <= T}

Rows(T) == 1..(IF T < Now THEN T ELSE Now)
Adjusts(T) == {adjust[d] : d \in Rows(T)}

\* research_history_rows: rows before an ex date are scaled down, unless the source
\* has adjusted any of them itself.
Research(T, d) == IF Effective(T) = {} \/ Adjusts(T) # {"none"} THEN Stored(d) * Pow2[MaxTradeDay]
                  ELSE Stored(d) * Pow2[MaxTradeDay - Cardinality({e \in Effective(T) : d < e})]

Gap(c, prior) == 100 * (c - prior) > 35 * prior \/ 100 * (prior - c) > 35 * prior

\* canonical_research_history
Allowed(T) == /\ Rows(T) # {} /\ Cardinality(Adjusts(T)) = 1
              /\ \A d \in Rows(T) : d > 1 => ~Gap(Research(T, d), Research(T, d - 1))

\* research_price_basis: the notices effective at the horizon name the basis.
PriceBasis(T) == IF Adjusts(T) = {"none"} THEN {e \in notices : e <= (IF T = Ever THEN Now ELSE T)} ELSE {}

(***************************************************************************)
(* Properties.                                                             *)
(***************************************************************************)

ActionsTypeOK == Len(adjust) = Now /\ splits \subseteq 1..Now /\ notices \subseteq TradeDays

\* Whatever a reader is allowed to use has the returns of the instrument itself:
\* no split is left in it, applied twice or applied where the source had done so.
ReturnsAreTrue == \A T \in TradeDays \cup {Ever} : Allowed(T) =>
                     \A c, d \in Rows(T) : Research(T, c) * truth[d] = Research(T, d) * truth[c]

\* A raw series is blocked exactly when a split inside it has no notice.
BlockedIffUnexplained ==
    \A T \in TradeDays \cup {Ever} : Adjusts(T) = {"none"} =>
        (Allowed(T) <=> \A s \in splits : s \in Rows(T) /\ s > 1 => s \in notices)

\* Splits in one: allowed series have true returns, and only unexplained gaps block.
SplitsExplained == ReturnsAreTrue /\ BlockedIffUnexplained

\* An as-of series is settled: a row of it changes only when that row is stored anew, or when a
\* notice effective by its date is added, and its basis identity changes with it.  Later
\* sessions and splits, and other rows that are stored anew, never reach it.
Settles(T) == PriceBasis(T) = PriceBasis(T)' =>
                \A d \in Rows(T) : truth'[d] = truth[d] => Research(T, d)' = Research(T, d)

AsOfSettled == [][\A T \in 1..Now : Settles(T)]_actionVars

\* The series without an as-of date also changes only so ("Return stable economic basis
\* identity, independent of a read window").
BasisIdentifies == [][Settles(Ever)]_actionVars
=============================================================================
