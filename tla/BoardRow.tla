------------------------------ MODULE BoardRow ------------------------------
(***************************************************************************)
(* How one instrument's row of the decision board is put together          *)
(* (decision_board_service.py, _row): from the stored bars and whether     *)
(* their units are verified, the saved indicator and forecast, the latest  *)
(* quote, and the intraday observation copied from it.                     *)
(*                                                                         *)
(* Times are absolute minutes.  The five grades of a row that is graded    *)
(* are one value here (GradeRules has them); what matters is which inputs  *)
(* the grade rests on.  The research_input variant, which uses no quote    *)
(* and no intraday observation, belongs to LocalCompute.                   *)
(***************************************************************************)
EXTENDS Integers, FiniteSets, FiniteSetsExt

CONSTANTS Instants,   \* the minutes at which something happens
          OpenDays,   \* the days the exchange is open
          MaxDay,     \* bound: days are 0..MaxDay
          Cfgs,       \* strategy versions
          MinHistory  \* bars an intraday derivation needs (30 in the code)

RowBounds ==
  /\ Instants # {} /\ Instants \subseteq 0..(1440 * MaxDay + 1439)
  /\ MaxDay \in Nat /\ MinHistory \in Nat /\ 0 \in OpenDays

ASSUME RowAssumption == RowBounds

VARIABLES minute, saved, indicator, forecast, quote, provisional, strategy

rowVars == <<minute, saved, indicator, forecast, quote, provisional, strategy>>

Days == 0..MaxDay
DayOf(t) == t \div 1440
Clock(t) == t % 1440
NoValue == [none |-> TRUE]

EffectiveTradeDate(d) == Max({x \in OpenDays : x <= d} \cup {0})

\* The last session whose 15:15 cutoff has passed.
SettledSession(t) == EffectiveTradeDate(IF Clock(t) < 915 /\ DayOf(t) > 0 THEN DayOf(t) - 1 ELSE DayOf(t))

\* The 11:40 to 12:15 board may use the morning close, observed at 11:29 or later.
LunchCloseQuoteFresh(obs, t) ==
    /\ DayOf(obs) = DayOf(t) /\ obs <= t
    /\ Clock(t) \in 700..735
    /\ Clock(obs) >= 689

InWindow(obs, t) ==
    /\ obs <= t
    /\ DayOf(obs) = DayOf(t)
    /\ t - obs <= 8 \/ LunchCloseQuoteFresh(obs, t)

(***************************************************************************)
(* What the stored bars allow.                                             *)
(***************************************************************************)

StoredDays == {d \in Days : saved[d] # "none"}
Unverified == {d \in Days : saved[d] = "unverified"}

\* The history contract refuses the instrument.
Blocked == StoredDays = {} \/ Unverified # {}

\* Only the newest rows are unverified: the rows before them still support a history.
Trailing == /\ Unverified # {}
            /\ \E d \in StoredDays : d < Min(Unverified)
            /\ \A d \in StoredDays : d > Min(Unverified) => d \in Unverified

QualifiedThrough == Max({d \in StoredDays : d < Min(Unverified)} \cup {0})

(***************************************************************************)
(* The inputs.                                                             *)
(***************************************************************************)

RowInit ==
        /\ minute = Min(Instants)
        /\ saved = [d \in Days |-> IF d = 0 THEN "verified" ELSE "none"]
        /\ indicator = NoValue /\ forecast = NoValue /\ quote = NoValue /\ provisional = NoValue
        /\ strategy \in Cfgs

RowTick ==
        /\ \E t \in Instants : t > minute
        /\ minute' = Min({t \in Instants : t > minute})
        /\ UNCHANGED <<saved, indicator, forecast, quote, provisional, strategy>>

\* A session's bar is stored, or stored again by a source whose units are or are not verified.
StoreBar(d, s) == /\ d <= SettledSession(minute) /\ d \in OpenDays /\ saved[d] # s
                  /\ saved' = [saved EXCEPT ![d] = s]
                  /\ UNCHANGED <<minute, indicator, forecast, quote, provisional, strategy>>

\* The last bar an indicator or a forecast may be computed from.
Usable == IF Unverified = {} THEN Max(StoredDays) ELSE QualifiedThrough
Snapshot == [asOf |-> Usable, cfg |-> strategy]

ComputeIndicator == /\ StoredDays # {} /\ (Blocked => Trailing)
                    /\ indicator' = Snapshot
                    /\ UNCHANGED <<minute, saved, forecast, quote, provisional, strategy>>

ComputeForecast == /\ StoredDays # {} /\ (Blocked => Trailing)
                   /\ forecast' = Snapshot
                   /\ UNCHANGED <<minute, saved, indicator, quote, provisional, strategy>>

\* A newer quote is stored.  Its source time may be missing or run ahead of the board's clock.
StoreQuote(t, trusted, complete) ==
    /\ quote # NoValue => t > quote.t
    /\ quote' = [t |-> t, trusted |-> trusted, complete |-> complete]
    /\ UNCHANGED <<minute, saved, indicator, forecast, provisional, strategy>>

\* The latest quote is copied once per observation time.  Quote times grow, so the
\* newest copy, which is the one a board reads, is the only one kept here.
CaptureLatestQuotes ==
    /\ quote # NoValue
    /\ provisional # NoValue => provisional.t # quote.t
    /\ provisional' = quote
    /\ UNCHANGED <<minute, saved, indicator, forecast, quote, strategy>>

ReconfigureRow == /\ strategy' \in Cfgs \ {strategy}
                  /\ UNCHANGED <<minute, saved, indicator, forecast, quote, provisional>>

(***************************************************************************)
(* The row.                                                                *)
(***************************************************************************)

\* A saved snapshot is used when it was made under this strategy for the settled
\* session; with an unverified tail, for any day of the qualified history instead.
SnapshotUsable(s) ==
    /\ s # NoValue /\ s.cfg = strategy
    /\ IF Blocked /\ Trailing THEN s.asOf <= QualifiedThrough ELSE s.asOf = SettledSession(minute)

Status(ind) ==
    CASE ~ind -> "missing"
      [] ind /\ quote # NoValue /\ InWindow(quote.t, minute) /\ quote.trusted = "yes" -> "fresh"
      [] OTHER -> "stale"

\* The observation is appended to the confirmed bars before its own day.
EnoughHistory(p) == Cardinality({d \in StoredDays : d < DayOf(p.t)}) >= MinHistory

\* Mutant: the intraday observation is used whatever the history contract says.
ProvisionalUnblocked(p) == InWindow(p.t, minute) /\ p.complete
\* A complete observation of this session, on top of a long enough history.
ProvisionalUsed(p) ==
    /\ ~Blocked
    /\ InWindow(p.t, minute)
    /\ p.complete
    /\ EnoughHistory(p)

ForecastShown(display) == SnapshotUsable(forecast) /\ ~(display /\ Blocked)

\* The row a refresh would write now.
Row ==
    LET ind     == SnapshotUsable(indicator)
        stale   == Blocked /\ Trailing
        display == (Blocked /\ ~Trailing) \/ ~ind
        intra   == provisional # NoValue /\ ProvisionalUsed(provisional)
    IN [basis    |-> IF intra THEN "provisional" ELSE IF display THEN "anomaly" ELSE "persisted",
        asOf     |-> IF intra THEN DayOf(provisional.t) ELSE IF display THEN 0 ELSE indicator.asOf,
        fresh    |-> IF intra \/ display \/ stale THEN "stale" ELSE Status(ind),
        forecast |-> IF ForecastShown(display) THEN forecast.asOf ELSE -1]

RowNext ==
        \/ RowTick \/ ComputeIndicator \/ ComputeForecast \/ CaptureLatestQuotes \/ ReconfigureRow
        \/ \E d \in Days, s \in {"verified", "unverified"} : StoreBar(d, s)
        \/ \E t \in Instants, trusted \in {"yes", "no"}, complete \in BOOLEAN : StoreQuote(t, trusted, complete)

RowSpec == RowInit /\ [][RowNext]_rowVars

(***************************************************************************)
(* Properties.                                                             *)
(***************************************************************************)

\* The variables hold values of their kind.
RowTypeOK == /\ minute \in Instants /\ strategy \in Cfgs
             /\ saved \in [Days -> {"none", "verified", "unverified"}]
             /\ \A s \in {indicator, forecast} : s # NoValue => s \in [asOf : Days, cfg : Cfgs]
             /\ Row.basis \in {"anomaly", "persisted", "provisional"}
             /\ Row.fresh \in {"fresh", "stale", "missing"}

\* A grade rests on verified bars only: a row graded from the saved indicator has no
\* unverified bar on or before the indicator's day, even when bars were stored again
\* after the indicator was computed, and a row graded intraday has none at all.
GradeEarned ==
    /\ Row.basis = "persisted" => \A d \in 0..Row.asOf : saved[d] # "unverified"
    /\ Row.basis = "provisional" => \A d \in Days : saved[d] # "unverified"

\* A forecast is shown only if it was made under the strategy of the board and from
\* bars that are still verified when the board is built.
ForecastEarned ==
    Row.forecast >= 0 => /\ forecast.cfg = strategy
                         /\ \A d \in 0..Row.forecast : saved[d] # "unverified"

\* A row called fresh has the settled session's indicator under the current strategy, a
\* fully verified history and a trusted quote of the same day, at most 8 minutes old or,
\* over lunch, not older than the morning close.
FreshIsCurrent ==
    Row.fresh = "fresh" =>
      /\ Row.basis = "persisted" /\ indicator.cfg = strategy
      /\ Row.asOf = SettledSession(minute)
      /\ \A d \in Days : saved[d] # "unverified"
      /\ quote.trusted = "yes" /\ DayOf(quote.t) = DayOf(minute)
      /\ minute - quote.t \in 0..8 \/ (Clock(quote.t) >= 689 /\ Clock(minute) \in 700..735)

\* What a row shows is earned.
RowEarned == GradeEarned /\ ForecastEarned /\ FreshIsCurrent
============================================================================
