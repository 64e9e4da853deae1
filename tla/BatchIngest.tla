---------------------------- MODULE BatchIngest ----------------------------
(***************************************************************************)
(* How answers of a market data provider become stored rows                *)
(* (market_service.py, market_bar_service.py): spot quotes, minute bars    *)
(* and sector snapshots.  A batch is a sequence of records that may repeat *)
(* an identity, contradict itself, hold what was not asked for or be       *)
(* invalid.  Quotes are all or nothing, minute bars fail per instrument,   *)
(* sector boards fail per board and drop only the contradicted keys.       *)
(*                                                                         *)
(* Every refresh happens at a time of its own.  The field checks of a      *)
(* record (prices, ranges, sources, lengths) are one value, "bad"; daily   *)
(* bars are DailyHistory.                                                  *)
(***************************************************************************)
EXTENDS Integers, Sequences, SequencesExt, FiniteSets

CONSTANTS Codes,          \* the instruments that are enabled
          QuoteRecords,   \* [code, val, at, live, capable, degraded]
          MinuteRecords,  \* [at, val]: the bars of one instrument
          SectorRecords,  \* [name, val]: the rows of one board
          Names,          \* sector names
          MaxBatch,       \* bound: records of a batch
          Steps, Horizon, \* bound: time between two refreshes, and the last one
          Keep            \* how long quotes are kept

IngestAssumption == MaxBatch > 0 /\ Steps \subseteq 1..Horizon /\ Keep > 0

Boards == {"industry", "concept", "market"}
DayLength == 8   \* of five minute units: a short trading day
None == [missing |-> TRUE]
MinuteTimes == {r.at : r \in MinuteRecords}

VARIABLES now,
          quotes,   \* QuoteSnapshot rows
          minutes,  \* MarketBar row of an instrument at a time, or None
          sectors,  \* SectorSnapshot row of a board and name, or None
          report    \* what the last refresh returned

vars == <<now, quotes, minutes, sectors, report>>

Batches(records) == UNION {[1..n -> records] : n \in 0..MaxBatch}

Init == /\ now = 0 /\ quotes = {}
        /\ minutes = [c \in Codes |-> [t \in MinuteTimes |-> None]]
        /\ sectors = [b \in Boards |-> [n \in Names |-> None]]
        /\ report = [kind |-> "none", status |-> "none", failed |-> {}]

\* No two different records have one identity.
Consistent(batch, Key(_)) == \A i, j \in DOMAIN batch : Key(batch[i]) = Key(batch[j]) => batch[i] = batch[j]
Sound(batch) == \A i \in DOMAIN batch : batch[i].val # "bad"

(***************************************************************************)
(* Spot quotes.                                                            *)
(***************************************************************************)

\* Mutant: a contradiction is stored.
ContradictionKept(batch) ==
    LET asked == SelectSeq(batch, LAMBDA r : r.code \in Codes)
    IN IF Sound(asked) THEN [ok |-> TRUE, rows |-> Range(asked)] ELSE [ok |-> FALSE, rows |-> {}]
\* What was not asked for is skipped; anything wrong in the rest refuses the whole batch.
ValidatedQuoteBatch(batch) ==
    LET asked == SelectSeq(batch, LAMBDA r : r.code \in Codes)
    IN IF Sound(asked) /\ Consistent(asked, LAMBDA r : r.code)
       THEN [ok |-> TRUE, rows |-> Range(asked)] ELSE [ok |-> FALSE, rows |-> {}]

\* A source time is believed only of a qualified source, today, from five minutes ahead to
\* twenty minutes old.
QualifyQuoteTimestamp(r, t) ==
    /\ r.live /\ r.capable
    /\ r.at \div DayLength = t \div DayLength
    /\ t - r.at \in -1..4

RefreshQuotes(batch, t) ==
    LET checked == ValidatedQuoteBatch(batch)
        row(r)  == [code |-> r.code, val |-> r.val, at |-> r.at, fetched |-> t,
                    realtime |-> r.live /\ QualifyQuoteTimestamp(r, t) /\ ~r.degraded]
        missing == {c \in Codes : \A r \in checked.rows : r.code # c}
    IN /\ now' = t
       /\ quotes' = quotes \cup {row(r) : r \in checked.rows}
       /\ report' = [kind |-> "quotes", status |-> IF checked.ok THEN "ok" ELSE "raised",
                     failed |-> IF checked.ok THEN missing ELSE Codes]
       /\ UNCHANGED <<minutes, sectors>>

PurgeOldQuotes == /\ quotes' = {q \in quotes : q.at >= now - Keep} /\ quotes' # quotes
                  /\ report' = [kind |-> "purge", status |-> "ok", failed |-> {}]
                  /\ UNCHANGED <<now, minutes, sectors>>

(***************************************************************************)
(* Minute bars: a savepoint per instrument.                                *)
(***************************************************************************)

\* A bar that closes after the request; those of the mock provider count as closed.
Unfinished(r, t, mock) == ~mock /\ r.at > t

\* The bars of a batch that are stored; none if the instrument fails.  An unfinished bar is
\* skipped before its fields are looked at.
ValidMinutes(batch, t, mock) ==
    LET closed == SelectSeq(batch, LAMBDA r : ~Unfinished(r, t, mock))
    IN IF Sound(closed) /\ Consistent(closed, LAMBDA r : r.at) THEN Range(closed) ELSE {}

SyncMinuteBars(answer, t, mock) ==
    LET bars(c) == ValidMinutes(answer[c], t, mock)
        failed  == {c \in Codes : bars(c) = {}}
        late    == \E c \in Codes : \E i \in DOMAIN answer[c] : Unfinished(answer[c][i], t, mock)
        row(c, m) == IF \E r \in bars(c) : r.at = m
                     THEN [val |-> (CHOOSE r \in bars(c) : r.at = m).val, fetched |-> t, mock |-> mock]
                     ELSE minutes[c][m]
    IN /\ now' = t
       /\ minutes' = [c \in Codes |-> [m \in MinuteTimes |-> row(c, m)]]
       /\ report' = [kind |-> "minutes", status |-> IF failed # {} \/ late THEN "partial" ELSE "ok", failed |-> failed]
       /\ UNCHANGED <<quotes, sectors>>

(***************************************************************************)
(* Sector snapshots.                                                       *)
(***************************************************************************)

\* The records of the keys that are not contradicted.
NormalizedSectors(batch) ==
    {batch[i] : i \in {j \in DOMAIN batch : \A k \in DOMAIN batch : batch[k].name = batch[j].name => batch[k] = batch[j]}}

\* The provider failed or sent nothing, or a key is contradicted.
SectorError(batch) == batch = <<>> \/ NormalizedSectors(batch) # Range(batch)

RefreshSectorSnapshots(answer, t) ==
    LET rows(b) == NormalizedSectors(answer[b])
        failed  == {b \in Boards : SectorError(answer[b])}
        row(b, n) == IF \E r \in rows(b) : r.name = n
                     THEN [val |-> (CHOOSE r \in rows(b) : r.name = n).val, fetched |-> t] ELSE sectors[b][n]
    IN /\ now' = t
       /\ sectors' = [b \in Boards |-> [n \in Names |-> row(b, n)]]
       /\ report' = [kind |-> "sectors", status |-> IF failed # {} THEN "partial" ELSE "ok", failed |-> failed]
       /\ UNCHANGED <<quotes, minutes>>

Quotes == \E d \in Steps, b \in Batches(QuoteRecords) : now + d <= Horizon /\ RefreshQuotes(b, now + d)
\* The provider is a setting of the process, so a later refresh may have another one.
Minutes == \E d \in Steps, a \in [Codes -> Batches(MinuteRecords)], mock \in BOOLEAN :
             now + d <= Horizon /\ SyncMinuteBars(a, now + d, mock)
\* The market's breadth is a single record.
Sectors == \E d \in Steps, i \in Batches(SectorRecords), c \in Batches(SectorRecords), m \in {<<>>} \cup [{1} -> SectorRecords] :
             now + d <= Horizon /\ RefreshSectorSnapshots([industry |-> i, concept |-> c, market |-> m], now + d)

Next == Quotes \/ PurgeOldQuotes \/ Minutes \/ Sectors

Spec == Init /\ [][Next]_vars

(***************************************************************************)
(* Properties.                                                             *)
(***************************************************************************)

\* One refresh stores at most one quote of an instrument: a provider that contradicts itself
\* never gets two prices of one moment into the store.
OneQuotePerFetch == \A q, r \in quotes : q.code = r.code /\ q.fetched = r.fetched => q = r

\* A quote that counts as live never goes back in source time by more than the tolerance of
\* the check (twenty minutes old, five ahead) against a live quote fetched before it.
LiveQuotesMoveOn ==
    \A q, r \in quotes : q.code = r.code /\ q.realtime /\ r.realtime /\ q.fetched < r.fetched
                            => r.at - q.at >= (r.fetched - q.fetched) - 5

\* What a batch stores does not depend on the order of its records.
OrderInsensitive ==
    now = 0 => /\ \A b \in Batches(QuoteRecords) : ValidatedQuoteBatch(b) = ValidatedQuoteBatch(Reverse(b))
               /\ \A b \in Batches(SectorRecords) : NormalizedSectors(b) = NormalizedSectors(Reverse(b))

\* No minute bar of a real provider closes after the request that brought it: a bar still in
\* progress is never mistaken for a finished one.
NoUnfinishedBar == \A c \in Codes, m \in MinuteTimes :
    LET row == minutes[c][m] IN row # None /\ ~row.mock => m <= row.fetched

\* A minute refresh tells the truth per instrument: one that failed has no row of this
\* refresh, one that did not has at least one, whatever the other instruments did.
SyncReportTruthful ==
    report.kind = "minutes" =>
        \A c \in Codes : c \in report.failed <=> \A m \in MinuteTimes : minutes[c][m] # None => minutes[c][m].fetched < now

\* A sector refresh that calls itself complete has brought a row of every board.
SucceededIsComplete ==
    (report.kind = "sectors" /\ report.status = "ok") =>
        \A b \in Boards : \E n \in Names : sectors[b][n] # None /\ sectors[b][n].fetched = now

\* The ingest rules in one.
IngestSound ==
    /\ OneQuotePerFetch /\ LiveQuotesMoveOn /\ OrderInsensitive
    /\ NoUnfinishedBar /\ SyncReportTruthful /\ SucceededIsComplete
=============================================================================
