-------------------------- MODULE SchedulerCadence --------------------------
(***************************************************************************)
(* What the scheduler fetches during one trading day (scheduler.py,        *)
(* refresh_policy.py, core/clock.py): board slots with a grace period,     *)
(* quotes between the slots, sector snapshots and signals, each gated by   *)
(* the clock and by its last attempt or last success.  A tick may come     *)
(* late because a provider was slow, and a task may fail or find the       *)
(* pipeline busy.  The clock is the minute of the day.                     *)
(*                                                                         *)
(* The settled pipeline of the evening is SettledPipeline, the claim of a  *)
(* slot and the task table are TaskRuns.  Quote times are what counts      *)
(* here: a board slot fetches quotes itself.                               *)
(***************************************************************************)
EXTENDS Integers, FiniteSetsExt

CONSTANTS First, Final, \* bound: the minutes modelled
          Delays,       \* bound: the minutes there may be between two ticks
          SectorMinutes \* market_context_refresh_minutes

CadenceAssumption == First < Final /\ Delays \subseteq Nat \ {0} /\ SectorMinutes > 0

VARIABLES now,
          claimed,  \* slots of the day that are claimed
          quoted,   \* the last time quotes were asked of the provider, by any task
          lastQuote, lastSector, lastSignal, \* the times the gates look at
          queued,   \* a manual refresh waits
          ran       \* the tasks of the last tick

vars == <<now, claimed, quoted, lastQuote, lastSector, lastSignal, queued, ran>>

Slots == {570, 630, 690, 780, 810, 840, 870, 880, 890, 892, 894, 896, 898, 900}
Grace == 3   \* 180 seconds
Never == -1000

\* The quote cadence of a minute, 0 outside the session windows.
IntradayRefreshMinutes(m) == CASE m \in 570..690 -> 60
                               [] m \in 780..869 -> 30
                               [] m \in 870..889 -> 10
                               [] m \in 890..900 -> 2
                               [] OTHER -> 0

SessionQuoteWindowOpen(m) == IntradayRefreshMinutes(m) > 0

SignalsAllowed(m) == m \in (570..690) \cup (780..1079)

\* Mutant: of several missed slots the oldest is taken.
DueSlotOldest(m) == LET late == {s \in Slots : m - s \in 0..Grace}
                    IN IF late = {} THEN Never ELSE Min(late)
\* The latest slot that is exactly due or at most the grace period late.
DueSlot(m) == LET late == {s \in Slots : m - s \in 0..Grace}
              IN IF m \in Slots THEN m ELSE IF late = {} THEN Never ELSE Max(late)

\* Mutant: the slot of this very minute is still announced.
NextRefreshStill(m) == IF \E s \in Slots : m <= s THEN Min({s \in Slots : m <= s}) ELSE 1440 + Min(Slots)
NextDecisionBoardRefresh(m) == IF \E s \in Slots : m < s THEN Min({s \in Slots : m < s}) ELSE 1440 + Min(Slots)

Due(last, m, minutes) == m - last >= minutes

Init == /\ now = First /\ claimed = {} /\ quoted = Never
        /\ lastQuote = Never /\ lastSector = Never /\ lastSignal = Never
        /\ queued = FALSE /\ ran = {}

\* A user asks for a board.
EnqueueManual == /\ ~queued /\ queued' = TRUE
                 /\ UNCHANGED <<now, claimed, quoted, lastQuote, lastSector, lastSignal, ran>>

QuotesDue(m, hold) == SessionQuoteWindowOpen(m) /\ ~hold /\ Due(lastQuote, m, IntradayRefreshMinutes(m))

SectorDue(m) == SessionQuoteWindowOpen(m) /\ Due(lastSector, m, SectorMinutes)
SignalsDue(m) == SignalsAllowed(m) /\ Due(lastSignal, m, IF SessionQuoteWindowOpen(m) THEN IntradayRefreshMinutes(m) ELSE 30)

\* One tick at minute m.  A board attempt asks for quotes whether it succeeds or not, unless
\* the pipeline is busy; a failed or busy board gives its slot back.  Attempts are recorded
\* unless the pipeline was busy, successes only when the task succeeded.
TickAt(m, outcome) ==
    LET slot  == DueSlot(m)
        claim == slot # Never /\ slot \notin claimed
        hold  == slot # Never \/ queued
        board == claim \/ queued
        quote == QuotesDue(m, hold)
        went  == outcome # "busy"
    IN /\ now' = m
       /\ claimed' = IF claim /\ outcome = "ok" THEN claimed \cup {slot} ELSE claimed
       /\ queued' = (queued /\ ~(board /\ went))
       /\ quoted' = IF (board \/ quote) /\ went THEN m ELSE quoted
       /\ lastQuote' = IF quote /\ went THEN m ELSE lastQuote
       /\ lastSector' = IF SectorDue(m) /\ went THEN m ELSE lastSector
       /\ lastSignal' = IF SignalsDue(m) /\ outcome = "ok" THEN m ELSE lastSignal
       /\ ran' = (IF board THEN {"board"} ELSE {}) \cup (IF quote THEN {"quotes"} ELSE {})
                 \cup (IF SectorDue(m) THEN {"sector", "board"} ELSE {}) \cup (IF SignalsDue(m) THEN {"signals"} ELSE {})

Tick == \E delay \in Delays, outcome \in {"ok", "failed", "busy"} :
            now + delay <= Final /\ TickAt(now + delay, outcome)

Next == Tick \/ EnqueueManual

Spec == Init /\ [][Next]_vars

(***************************************************************************)
(* Properties.                                                             *)
(***************************************************************************)

\* The announced board slots are exactly the minutes the refresh policy's windows and
\* cadences give, and the next one announced is the next that comes due.
SlotsMatchPolicy == now = First =>
  \A m \in 0..1439 :
    LET starts == {570, 780, 870, 890}
        next   == NextDecisionBoardRefresh(m)
    IN /\ m \in Slots <=> /\ SessionQuoteWindowOpen(m)
                          /\ (m - Max({s \in starts : s <= m})) % IntradayRefreshMinutes(m) = 0
       /\ next > m /\ (next < 1440 => DueSlot(next) = next)
       /\ \A k \in (m + 1)..(next - 1) : k \notin Slots

\* Over lunch, once the grace of the 11:30 slot has passed, nothing but a manual refresh
\* asks the provider for quotes.
LunchQuiet == (now' \in (690 + Grace + 1)..779 /\ quoted' # quoted) => queued

\* A slot is never spent on a later one: what is claimed is a slot at most the grace
\* period before the tick, and no slot between it and the tick was passed over.
LatestSlotClaimed ==
    \A s \in claimed' \ claimed : now' - s \in 0..Grace /\ \A o \in Slots : o > s => o > now'

\* Every tick keeps both.
TicksKeepPolicy == [][LunchQuiet /\ LatestSlotClaimed]_vars

\* Quotes are asked for at the cadence of the minute: the quote task does not ask again
\* sooner than that after any task asked.
CadenceKept ==
    [][("quotes" \in ran' /\ quoted' # quoted /\ quoted # Never) => now' - quoted >= IntradayRefreshMinutes(now')]_vars

=============================================================================
