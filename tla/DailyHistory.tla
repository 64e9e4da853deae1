---------------------------- MODULE DailyHistory ----------------------------
(***************************************************************************)
(* The stored daily bars of one instrument: how a refresh asks for a       *)
(* window, validates the answer and merges it in one savepoint             *)
(* (market_service.py, refresh_daily_bars), and what shared research may   *)
(* use of the result (data_contract.py).  A bar is its source and whether  *)
(* it carries a volume; prices are the subject of CorporateActions.        *)
(*                                                                         *)
(* Sources: "doc" is a documented-unit endpoint, "sina" the price-only     *)
(* fallback without volume, "legacy" the rows written before units were    *)
(* documented.  Providers no longer produce legacy rows; a database may    *)
(* still hold them.                                                        *)
(***************************************************************************)
EXTENDS Naturals, FiniteSets, FiniteSetsExt

CONSTANTS MaxSession,  \* bound: the last session
          Overlap      \* sessions fetched again as a correction overlap

HistoryAssumption == MaxSession \in Nat \ {0} /\ Overlap \in Nat

ASSUME HistoryAssumed == HistoryAssumption

VARIABLES dailyBars,   \* the stored row of each session, or NoBar
          settledDay,  \* the settled session a refresh ends with
          lookback,    \* sessions the task asks for
          last         \* outcome of the last refresh

historyVars == <<dailyBars, settledDay, lookback, last>>

Settled == 1..MaxSession
NoBar == [src |-> "none", volume |-> FALSE]
Unverified == {"legacy", "sina"}      \* LEGACY_SOURCES + UNVERIFIED_UNIT_SOURCES

HeldDays == {d \in Settled : dailyBars[d] # NoBar}
OldKeys == {d \in HeldDays : dailyBars[d].src \in Unverified}

HistoryInit == settledDay = 1 /\ dailyBars = [d \in Settled |-> NoBar] /\ lookback = 0 /\ last = "none"

\* Before the first refresh of this program: the row an earlier version stored.
StoreLegacy == /\ last = "none" /\ dailyBars[settledDay] = NoBar
               /\ dailyBars' = [dailyBars EXCEPT ![settledDay] = [src |-> "legacy", volume |-> TRUE]]
               /\ UNCHANGED <<settledDay, lookback, last>>

(***************************************************************************)
(* Refresh.                                                                *)
(***************************************************************************)

\* The first session asked for: everything back to the oldest row while old units
\* remain, the overlap when the window is held already, else the whole window.
WindowStart ==
    LET begin == IF settledDay > lookback THEN settledDay - lookback ELSE 1
    IN CASE OldKeys # {} -> Min({begin, Min(HeldDays)})
         [] OldKeys = {} /\ HeldDays # {} /\ Min(HeldDays) <= begin -> Max({begin, IF Max(HeldDays) > Overlap THEN Max(HeldDays) - Overlap ELSE 1})
         [] OTHER -> begin

\* Rows of old units are replaced all together or not at all.
UpgradeComplete(batch) == OldKeys # {} => (OldKeys \cap (WindowStart..settledDay)) \subseteq batch

\* Mutant: the fallback replaces what it overlaps.
KeepsNone(d, src) == FALSE
\* A price-only row never takes the place of a row with a volume.
Keeps(d, src) == src = "sina" /\ dailyBars[d] # NoBar /\ dailyBars[d].src # "legacy" /\ dailyBars[d].volume

\* A batch is a set of sessions from one source.  A documented source may lack the
\* quantities; the fallback always does.
Refresh(src, batch, quantities) ==
    /\ batch # {} /\ batch \subseteq WindowStart..settledDay
    /\ src = "sina" => ~quantities
    /\ IF UpgradeComplete(batch)
       THEN /\ dailyBars' = [d \in Settled |-> IF d \in batch /\ ~Keeps(d, src)
                                            THEN [src |-> src, volume |-> src = "doc" /\ quantities] ELSE dailyBars[d]]
            /\ last' = IF Max(batch) = settledDay THEN "complete" ELSE "partial"
       ELSE dailyBars' = dailyBars /\ last' = "refused"
    /\ UNCHANGED <<settledDay, lookback>>

\* No provider answers, or the batch is not valid: the instrument's failure is
\* recorded and the others go on.
RefreshFails == last # "failed" /\ last' = "failed" /\ UNCHANGED <<dailyBars, settledDay, lookback>>

NextSession == settledDay < MaxSession /\ settledDay' = settledDay + 1 /\ UNCHANGED <<dailyBars, lookback, last>>

ChangeLookback(n) == n # lookback /\ lookback' = n /\ UNCHANGED <<dailyBars, settledDay, last>>

HistoryNext == \/ StoreLegacy \/ NextSession \/ RefreshFails
               \/ \E n \in 0..MaxSession : ChangeLookback(n)
               \/ \E src \in {"doc", "sina"}, quantities \in BOOLEAN :
                    \E batch \in SUBSET (WindowStart..settledDay) : Refresh(src, batch, quantities)

HistorySpec == HistoryInit /\ [][HistoryNext]_historyVars

(***************************************************************************)
(* What research may use.                                                  *)
(***************************************************************************)

Verified(b, d) == b[d].src = "doc"
HeldOf(b) == {d \in Settled : b[d] # NoBar}

\* history_issues: empty when every row has documented units and a volume.
Clean(b) == HeldOf(b) # {} /\ \A d \in HeldOf(b) : Verified(b, d) /\ b[d].volume

\* Mutant: the first unverified row is not looked for.
QualifiedThroughLast(b) ==
    LET good == {d \in HeldOf(b) : Verified(b, d)}
    IN IF good = {} \/ good = HeldOf(b) THEN 0 ELSE Max(good)
\* trailing_unverified_history: the last session of a verified prefix that only
\* unverified rows follow; 0 when there is no such prefix.
QualifiedThrough(b) ==
    LET bad == {d \in HeldOf(b) : ~Verified(b, d)}
        prefix == {d \in HeldOf(b) : d < Min(bad)}
        tail == HeldOf(b) \ prefix
    IN IF bad = {} \/ prefix = {} \/ (\E d \in tail : Verified(b, d)) \/ (\E d \in prefix : ~b[d].volume) THEN 0 ELSE Max(prefix)

Usable(b) == Clean(b) \/ QualifiedThrough(b) > 0
Through(b) == IF Clean(b) THEN Max(HeldOf(b)) ELSE QualifiedThrough(b)

(***************************************************************************)
(* Properties.                                                             *)
(***************************************************************************)

HistoryTypeOK == /\ \A d \in Settled : dailyBars[d].src \in {"none", "doc", "sina", "legacy"}
                 /\ settledDay \in Settled /\ HeldDays \subseteq 1..settledDay
                 /\ last \in {"none", "complete", "partial", "refused", "failed"}

\* Everything research takes is documented and has a volume: no unverified row
\* lies at or before the session a stale scope names.
UsableIsVerified == Usable(dailyBars) => \A d \in HeldDays : d <= Through(dailyBars) => Verified(dailyBars, d) /\ dailyBars[d].volume

\* A bar of documented units and volume is never given up for the price-only
\* fallback, whatever order the sources answer in.
VerifiedStay == \A d \in Settled : Verified(dailyBars, d) /\ dailyBars[d].volume => Verified(dailyBars', d)

\* Old units are upgraded completely in one refresh or not at all: a step that
\* turns one into a documented row leaves none behind
\* ("legacy_refetch_incomplete_no_partial_unit_upgrade").
UpgradeAllOrNothing ==
    (\E d \in OldKeys : Verified(dailyBars', d)) => \A d \in Settled : dailyBars'[d].src \notin Unverified

\* A refresh makes a usable history unusable only by filling a session older
\* than the newest one held, or with a documented batch that lacks quantities; the
\* fallback's newer sessions leave the verified prefix usable.
BlockedOnlyByBackfill ==
    Usable(dailyBars) /\ ~Usable(dailyBars') =>
      \/ \E d \in Settled \ HeldDays : dailyBars'[d] # NoBar /\ d < Max(HeldDays)
      \/ \E d \in Settled : dailyBars'[d] # dailyBars[d] /\ dailyBars'[d].src = "doc" /\ ~dailyBars'[d].volume

\* What a refresh may never do to the stored history.
HistoryKept == [][VerifiedStay /\ UpgradeAllOrNothing /\ BlockedOnlyByBackfill]_historyVars
=============================================================================
