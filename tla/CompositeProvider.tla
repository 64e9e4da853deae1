-------------------------- MODULE CompositeProvider --------------------------
(***************************************************************************)
(* The chain of market data providers (composite.py).  What each provider  *)
(* would answer is chosen once; one call then walks the chain.  Three      *)
(* kinds of call: quotes, filled code by code; daily bars, one whole batch *)
(* ranked by quality; and single-owner capabilities, answered by the first *)
(* provider that has a result.                                             *)
(***************************************************************************)
EXTENDS Integers, FiniteSets, FiniteSetsExt

CONSTANTS N,         \* providers, in priority order 1..N
          Requested, \* requested codes
          MaxRows    \* bound: rows of a daily batch

CompositeAssumption == N \in Nat \ {0} /\ MaxRows \in Nat

ASSUME CompositeAssumed == CompositeAssumption

Providers == 1..N
Refusals == {"unsupported", "failed"}
\* What a row of a quote batch is: absent, qualified, degraded or a daily close.
QuoteRows == {"absent", "qualified", "degraded", "daily"}
\* What a daily batch is: its source and content decide its quality.
Batches == {"documented", "gap", "noquantity", "sina", "unknown"}

\* What a provider may answer to a call of a kind.
Answers(k) ==
    CASE k = "quotes" -> [kind : {"rows"}, rows : [Requested -> QuoteRows]] \cup [kind : Refusals]
      [] k = "daily"  -> [kind : {"rows"}, batch : Batches, covers : BOOLEAN, count : 1..MaxRows]
                           \cup [kind : {"empty"}] \cup [kind : Refusals]
      [] k = "single" -> [kind : {"rows", "empty"} \cup Refusals]

VARIABLES capability, \* the kind of call: "quotes", "daily" or "single"
          answer,     \* what each provider answers when it is called
          degradedOnly, \* providers that declare they only have degraded quotes
          allowEmpty, \* an empty result is an answer (single-owner capabilities)
          called,     \* providers called so far
          selected, degraded, daily,  \* the three dictionaries of a quote call
          best,       \* the daily candidates collected so far
          trace,      \* per provider, the status its trace row ends with
          result

chainVars == <<capability, answer, degradedOnly, allowEmpty, called, selected, degraded, daily, best, trace, result>>
inputs == <<capability, answer, degradedOnly, allowEmpty>>

Nothing == [c \in Requested |-> 0]
Pending == [kind |-> "pending"]

\* Degraded-only providers are called last, all in their own order.
Uncalled == Providers \ called
NextProvider == Min(IF Uncalled \ degradedOnly # {} THEN Uncalled \ degradedOnly ELSE Uncalled)

WalkInit ==
  /\ capability \in {"quotes", "daily", "single"}
  /\ answer = [p \in Providers |-> [kind |-> "failed"]]
  /\ degradedOnly = {} /\ allowEmpty = FALSE
  /\ called = {}
  /\ selected = Nothing /\ degraded = Nothing /\ daily = Nothing
  /\ best = {}
  /\ trace = [p \in Providers |-> "none"]
  /\ result = [kind |-> "idle"]

\* A call, and what the providers will answer to it.
Begin == /\ result.kind = "idle" /\ result' = Pending
         /\ answer' \in [Providers -> Answers(capability)]
         /\ degradedOnly' \in IF capability = "quotes" THEN SUBSET Providers ELSE {{}}
         /\ allowEmpty' \in IF capability = "single" THEN BOOLEAN ELSE {FALSE}
         /\ UNCHANGED <<capability, called, selected, degraded, daily, best, trace>>

Failed(p) == answer[p].kind \in Refusals
Missing == {c \in Requested : selected[c] = 0}

\* The call ends with what the chain has, or says why it has nothing.
NoResult == IF \A p \in Providers : p \in called /\ answer[p].kind = "unsupported"
            THEN [kind |-> "unsupported"] ELSE [kind |-> "failed"]

(***************************************************************************)
(* Quotes and instruments: _invoke_by_requested_code.                      *)
(***************************************************************************)

\* A degraded-only provider that returns a qualified quote breaks its contract.
BreaksContract(p) == p \in degradedOnly /\ \E c \in Requested : answer[p].rows[c] = "qualified"

\* The lower index wins among degraded rows and among daily closes.
EarlierRow(d, p, row) == [c \in Requested |->
    IF answer[p].rows[c] = row /\ c \in Missing /\ (d[c] = 0 \/ p < d[c]) THEN p ELSE d[c]]

\* Mutant: a degraded quote is selected at once.
TakeDegradedNow(p) == [c \in Requested |->
    IF c \in Missing /\ answer[p].rows[c] \in {"qualified", "degraded"} THEN p ELSE selected[c]]
Take(p) == [c \in Requested |-> IF c \in Missing /\ answer[p].rows[c] = "qualified" THEN p ELSE selected[c]]

QuoteStatus(p) ==
    LET left == \E c \in Requested : Take(p)[c] = 0
    IN CASE \A c \in Requested : answer[p].rows[c] = "absent" -> "empty"
         [] left /\ p = 1 -> "partial"
         [] left /\ p # 1 -> "fallback_partial"
         [] ~left /\ p = 1 -> "ok"
         [] OTHER -> "fallback_used"

CallForQuotes ==
    /\ capability = "quotes" /\ result = Pending /\ Uncalled # {} /\ Missing # {}
    /\ LET p == NextProvider
       IN /\ called' = called \cup {p}
          /\ IF Failed(p) \/ BreaksContract(p)
             THEN /\ trace' = [trace EXCEPT ![p] = IF Failed(p) THEN answer[p].kind ELSE "failed"]
                  /\ result' = IF ~Failed(p) /\ BreaksContract(p) THEN [kind |-> "contract"] ELSE result
                  /\ UNCHANGED <<selected, degraded, daily>>
             ELSE /\ selected' = Take(p)
                  /\ degraded' = EarlierRow(degraded, p, "degraded")
                  /\ daily' = EarlierRow(daily, p, "daily")
                  /\ trace' = [trace EXCEPT ![p] = QuoteStatus(p)]
                  /\ UNCHANGED result
    /\ UNCHANGED <<best, inputs>>

\* Codes without a qualified quote take a degraded one, then a daily close.
Filled == [c \in Requested |-> CASE selected[c] # 0 -> selected[c]
                             [] selected[c] = 0 /\ degraded[c] # 0 -> degraded[c]
                             [] OTHER -> daily[c]]

EndQuotes ==
    /\ capability = "quotes" /\ result = Pending /\ (Uncalled = {} \/ Missing = {})
    /\ trace' = [p \in Providers |-> IF p \in degradedOnly \ called THEN "skipped" ELSE trace[p]]
    /\ selected' = Filled
    /\ result' = IF Filled # Nothing THEN [kind |-> "quotes"] ELSE NoResult
    /\ UNCHANGED <<called, degraded, daily, best, inputs>>

(***************************************************************************)
(* Daily bars: _fetch_daily_bars_quality_aware.                            *)
(***************************************************************************)

Quality(a) == CASE a.kind = "empty" -> 0
                [] a.batch = "documented" -> 3
                [] a.batch = "sina" -> 1
                [] OTHER -> 0
Covers(a) == a.kind = "rows" /\ a.covers
RowCount(a) == IF a.kind = "rows" THEN a.count ELSE 0

\* The sort key of a candidate: quality, coverage of the target date, rows, priority.
Beats(p, q) ==
    LET a == answer[p]
        b == answer[q]
    IN \/ Quality(a) > Quality(b)
       \/ Quality(a) = Quality(b) /\ (Covers(a) /\ ~Covers(b))
       \/ Quality(a) = Quality(b) /\ (Covers(a) <=> Covers(b)) /\ RowCount(a) > RowCount(b)
       \/ Quality(a) = Quality(b) /\ (Covers(a) <=> Covers(b)) /\ RowCount(a) = RowCount(b) /\ p < q

\* A batch of documented units that covers the target date cannot be improved.
Perfect(p) == ~Failed(p) /\ Quality(answer[p]) = 3 /\ Covers(answer[p])

CallForDaily ==
    /\ capability = "daily" /\ result = Pending /\ Uncalled # {}
    /\ ~\E p \in best : Perfect(p)
    /\ LET p == NextProvider
       IN /\ called' = called \cup {p}
          /\ best' = IF Failed(p) THEN best ELSE best \cup {p}
          /\ trace' = [trace EXCEPT ![p] = IF Failed(p) THEN answer[p].kind ELSE "candidate"]
    /\ UNCHANGED <<selected, degraded, daily, result, inputs>>

DailyStatus(p, top) ==
    CASE p = top /\ Perfect(p) -> IF p = 1 THEN "ok" ELSE "fallback_used"
      [] p = top /\ ~Perfect(p) -> IF p = 1 THEN "partial" ELSE "fallback_partial"
      [] p # top /\ Quality(answer[p]) < Quality(answer[top]) -> "quality_fallback"
      [] OTHER -> "superseded"

EndDaily ==
    /\ capability = "daily" /\ result = Pending
    /\ Uncalled = {} \/ \E p \in best : Perfect(p)
    /\ IF best = {} THEN result' = NoResult /\ UNCHANGED trace
       ELSE LET top == CHOOSE p \in best : \A q \in best \ {p} : Beats(p, q)
            IN /\ trace' = [p \in Providers |-> IF p \in best THEN DailyStatus(p, top) ELSE trace[p]]
               /\ result' = [kind |-> "batch", from |-> top]
    /\ UNCHANGED <<called, selected, degraded, daily, best, inputs>>

(***************************************************************************)
(* Every other capability: _invoke.                                        *)
(***************************************************************************)

CallSingle ==
    /\ capability = "single" /\ result = Pending /\ Uncalled # {}
    /\ LET p == NextProvider
           good == answer[p].kind = "rows" \/ (answer[p].kind = "empty" /\ allowEmpty)
       IN /\ called' = called \cup {p}
          /\ trace' = [trace EXCEPT ![p] = CASE good /\ p = 1 -> "ok" [] good /\ p # 1 -> "fallback_used"
                                              [] answer[p].kind = "unsupported" -> "unsupported" [] OTHER -> "failed"]
          /\ result' = IF good THEN [kind |-> "single", from |-> p] ELSE Pending
    /\ UNCHANGED <<selected, degraded, daily, best, inputs>>

EndSingle ==
    /\ capability = "single" /\ result = Pending /\ Uncalled = {}
    /\ result' = NoResult
    /\ UNCHANGED <<called, selected, degraded, daily, best, trace, inputs>>

WalkNext == Begin \/ CallForQuotes \/ EndQuotes \/ CallForDaily \/ EndDaily \/ CallSingle \/ EndSingle

WalkSpec == WalkInit /\ [][WalkNext]_chainVars

(***************************************************************************)
(* Properties.                                                             *)
(***************************************************************************)

Done == result.kind \notin {"idle", "pending"}

\* The best row of a code among all the providers in the chain, by definition
\* instead of by walking it: a qualified quote of the first provider in call
\* order, else the degraded quote of the first provider, else its daily close.
Offers(c, row) == {p \in Providers : ~Failed(p) /\ answer[p].rows[c] = row}
Ranked(c) == LET good == Offers(c, "qualified") \ degradedOnly
             IN CASE good # {} -> Min(good)
                  [] good = {} /\ Offers(c, "degraded") # {} -> Min(Offers(c, "degraded"))
                  [] good = {} /\ Offers(c, "degraded") = {} /\ Offers(c, "daily") # {} -> Min(Offers(c, "daily"))
                  [] OTHER -> 0

\* Asking later providers only for what is still missing loses nothing: every
\* code gets the row the whole chain would rank first, and a public snapshot
\* never hides a later realtime quote.
QuotesRanked == (capability = "quotes" /\ Done /\ result.kind # "contract") => \A c \in Requested : selected[c] = Ranked(c)

\* No later provider holds a batch of better units or coverage than the one
\* returned, although the walk stops early ("cannot be improved by a
\* lower-priority source").
DailyBest == (capability = "daily" /\ result.kind = "batch") =>
                \A p \in Providers : ~Failed(p) =>
                    /\ Quality(answer[p]) <= Quality(answer[result.from])
                    /\ Quality(answer[p]) = Quality(answer[result.from]) => (Covers(answer[p]) => Covers(answer[result.from]))

\* The trace a run stores accounts for every provider whose answer mattered:
\* one provider is the source, and a missing one was not needed.
TraceTellsSource ==
    Done => /\ \A p \in Providers : trace[p] = "none" <=> (p \notin called /\ p \notin degradedOnly) \/ (result.kind = "contract" /\ p \notin called)
            /\ result.kind \in {"batch", "single"} =>
                 /\ Cardinality({p \in Providers : trace[p] \in {"ok", "fallback_used", "partial", "fallback_partial"}}) = 1
                 /\ trace[result.from] \in {"ok", "fallback_used", "partial", "fallback_partial"}

\* "Unsupported" is reported only when no provider of the chain has the capability.
UnsupportedMeansAll == result.kind = "unsupported" => \A p \in Providers : answer[p].kind = "unsupported"

\* What a walk of the chain returns is what the whole chain would rank first.
ChainRanked == QuotesRanked /\ DailyBest /\ TraceTellsSource /\ UnsupportedMeansAll
=============================================================================
