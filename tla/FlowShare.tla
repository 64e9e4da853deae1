----------------------------- MODULE FlowShare -----------------------------
(***************************************************************************)
(* The fund-flow and share-change block of a row (flow_share_research.py): *)
(* built from the latest quote and the latest share record known at the    *)
(* board's cutoff, saved inside the board, and checked again whenever the  *)
(* board is read by building it a second time from its own recorded        *)
(* fields.  In between the saved block may have been written by another    *)
(* program version or altered.                                             *)
(*                                                                         *)
(* Times are half days.  The eight spot numbers are one value that is      *)
(* there or not; amounts of shares are small integers and the stored delta *)
(* and ratio agree in sign, so one value stands for both.                  *)
(***************************************************************************)
EXTENDS Integers, FiniteSets, FiniteSetsExt

CONSTANTS MaxTime,           \* bound: half days are 0..MaxTime
          Quotes, Scales,    \* the quote and share records that may be stored
          Earlier            \* share records that may be stored beside another one

FlowAssumption == MaxTime \in Nat

None == -9
Invalid == -8          \* a stored timestamp that cannot be converted
Times == 0..MaxTime
Day(t) == t \div 2
NoRow == [missing |-> TRUE]

VARIABLES cutoff, quote, scales, saved, touched

vars == <<cutoff, quote, scales, saved, touched>>

(***************************************************************************)
(* Admission.                                                              *)
(***************************************************************************)

Refuse(checks) == LET bad == {i \in DOMAIN checks : checks[i][1]}
                  IN IF bad = {} THEN "ok" ELSE checks[Min(bad)][2]

\* Not known when the board was built.
AcquisitionReason(t, c) == <<t = None \/ t > c, "acquired">>

\* The spot part.  A quote whose source time is known to be missing is degraded, not refused.
Spot(q, c) ==
    IF q = NoRow THEN [src |-> "-", contract |-> FALSE, at |-> None, fetched |-> None,
                       verified |-> FALSE, value |-> FALSE, status |-> "missing", reason |-> "none_stored"]
    ELSE LET t == IF q.at = Invalid \/ q.untimed THEN None ELSE q.at
             why == Refuse(<< <<q.src # "em", "source">>, <<~q.contract, "contract">>,
                              AcquisitionReason(q.fetched, c),
                              <<q.at = Invalid /\ ~q.untimed, "time_invalid">>,
                              <<t # None /\ t > c, "after_cutoff">>,
                              <<t # None /\ t > q.fetched, "after_acquisition">> >>)
             ver == t # None /\ q.verified
         IN [src |-> q.src, contract |-> q.contract, at |-> t, fetched |-> q.fetched,
             verified |-> why = "ok" /\ q.value /\ ver,
             value    |-> why = "ok" /\ q.value,
             status   |-> IF why # "ok" THEN "blocked" ELSE IF ~q.value THEN "missing"
                          ELSE IF ver THEN "observed" ELSE "degraded",
             reason   |-> IF why # "ok" THEN why ELSE IF ~q.value THEN "no_values"
                          ELSE IF ver THEN "ok" ELSE "unverified"]

\* The stored change is a day-over-day change of the right sign.
ValidProxy(s) ==
    /\ s.dayOverDay /\ s.prevDay # None /\ s.prevDay < s.day
    /\ s.prev # None /\ s.prev > 0
    /\ \/ s.shares > s.prev /\ s.delta = 1 /\ s.proxy = "up"
       \/ s.shares < s.prev /\ s.delta = -1 /\ s.proxy = "down"
       \/ s.shares = s.prev /\ s.delta = 0 /\ s.proxy = "same"

EmptyShare == [src |-> "-", exchange |-> TRUE, day |-> None, fetched |-> None, shares |-> None, prev |-> None,
               prevDay |-> None, delta |-> None, dayOverDay |-> FALSE, proxy |-> "na",
               status |-> "missing", reason |-> "none_stored"]

Share(s, c) ==
    IF s = NoRow THEN EmptyShare
    ELSE LET why == Refuse(<< <<s.src # "exchange", "source">>, <<~s.exchange, "exchange">>,
                              AcquisitionReason(s.fetched, c),
                              <<s.day = None, "day_unknown">>, <<s.day # None /\ s.day > Day(c), "after_cutoff">>,
                              <<s.day # None /\ s.day > Day(s.fetched), "after_acquisition">>,
                              <<s.shares = None \/ s.shares < 0, "shares">> >>)
         IN IF why # "ok"
            THEN [EmptyShare EXCEPT !.src = s.src, !.exchange = s.exchange, !.day = s.day, !.fetched = s.fetched,
                                    !.status = "blocked", !.reason = why]
            ELSE [src |-> s.src, exchange |-> s.exchange, day |-> s.day, fetched |-> s.fetched, shares |-> s.shares,
                  prev |-> s.prev, prevDay |-> s.prevDay, delta |-> s.delta,
                  dayOverDay |-> ValidProxy(s), proxy |-> IF ValidProxy(s) THEN s.proxy ELSE "na",
                  status |-> "observed", reason |-> IF ValidProxy(s) THEN "ok" ELSE "no_delta"]

ViewStatus(sp, sh) ==
    CASE sp.status = "observed" /\ sh.status = "observed" -> "observed"
      [] {sp.status, sh.status} \cap {"observed", "degraded"} # {} -> "partial"
      [] OTHER -> IF "blocked" \in {sp.status, sh.status} THEN "blocked" ELSE "missing"

BuildFlowShareView(q, s, c) ==
    LET sp == Spot(q, c)  sh == Share(s, c)
    IN [spot |-> sp, share |-> sh, asOf |-> c, status |-> ViewStatus(sp, sh)]

\* The newest share record known at the cutoff.
LatestShareScale(c) ==
    LET known == {s \in scales : s.day # None /\ s.day <= Day(c) /\ s.fetched # None /\ s.fetched <= c}
    IN IF known = {} THEN NoRow ELSE CHOOSE s \in known : \A o \in known : o.day <= s.day

(***************************************************************************)
(* The saved block is built again from what it recorded.                   *)
(***************************************************************************)

ExpectedSpot(v) ==
    LET again == Spot(IF v.spot.reason = "none_stored" THEN NoRow
                      ELSE [src |-> v.spot.src, contract |-> v.spot.contract, at |-> v.spot.at, untimed |-> FALSE,
                            fetched |-> v.spot.fetched, verified |-> v.spot.verified, value |-> v.spot.value], v.asOf)
    IN IF v.spot.reason = "time_invalid" /\ v.spot.at = None /\ ~v.spot.value /\ again.reason = "no_values"
       THEN [again EXCEPT !.status = "blocked", !.reason = "time_invalid"]
       ELSE again

SavedFlowShareValid(v, gen) ==
    LET sp == ExpectedSpot(v)
        sh == Share(IF v.share.reason = "none_stored" THEN NoRow ELSE v.share, v.asOf)
    IN v.asOf = gen /\ v = [spot |-> sp, share |-> sh, asOf |-> v.asOf, status |-> ViewStatus(sp, sh)]

(***************************************************************************)
(* Behaviour.                                                              *)
(***************************************************************************)

Init == cutoff = None /\ quote = NoRow /\ scales = {} /\ saved = NoRow /\ touched = FALSE

\* What the database holds when a board is built.
Collect == /\ cutoff = None /\ cutoff' \in Times
           /\ quote' \in Quotes \cup {NoRow}
           /\ scales' \in {{}} \cup {{s} : s \in Scales} \cup {{s, o} : s \in Scales, o \in Earlier}
           /\ UNCHANGED <<saved, touched>>

\* A refresh saves the block under the board's own time.
Save == /\ saved = NoRow /\ cutoff # None
        /\ saved' = BuildFlowShareView(quote, LatestShareScale(cutoff), cutoff)
        /\ UNCHANGED <<cutoff, quote, scales, touched>>

\* What another writer may leave in the saved block.
Altered(v) ==
    {[v EXCEPT !.asOf = t] : t \in Times} \cup {[v EXCEPT !.spot.status = s] : s \in {"observed", "degraded"}}
    \cup {[v EXCEPT !.spot.fetched = t] : t \in Times} \cup {[v EXCEPT !.spot.at = t] : t \in Times}
    \cup {[v EXCEPT !.share.day = d] : d \in 0..Day(MaxTime)} \cup {[v EXCEPT !.share.proxy = p] : p \in {"up", "down"}}
    \cup {[v EXCEPT !.share.status = "observed"], [v EXCEPT !.spot.src = "em"], [v EXCEPT !.status = "observed"]}

Alter == /\ saved # NoRow /\ ~touched
         /\ saved' \in Altered(saved) /\ saved' # saved
         /\ touched' = TRUE
         /\ UNCHANGED <<cutoff, quote, scales>>

Next == Collect \/ Save \/ Alter

Spec == Init /\ [][Next]_vars

(***************************************************************************)
(* Properties.                                                             *)
(***************************************************************************)

Untouched == saved # NoRow /\ ~touched

\* A block read back unchanged is accepted, whatever the stored quote and share record
\* looked like: no refused part of it costs the reader the other part.
SavedBlockAccepted == Untouched => SavedFlowShareValid(saved, cutoff)

\* Any block that is accepted, altered or not, shows only what was known at the
\* board's own time: acquired by then, from the admitted source, and observed before
\* it was acquired.
AcceptedWasKnown ==
    (saved # NoRow /\ SavedFlowShareValid(saved, cutoff)) =>
        /\ saved.spot.status \in {"observed", "degraded"} =>
               /\ saved.spot.src = "em" /\ saved.spot.contract /\ saved.spot.fetched \in 0..cutoff
               /\ saved.spot.at # None => saved.spot.at <= saved.spot.fetched
        /\ saved.share.status = "observed" =>
               /\ saved.share.src = "exchange" /\ saved.share.fetched \in 0..cutoff
               /\ saved.share.day <= Day(saved.share.fetched)

\* A direction of subscriptions is named only for two different days with positive
\* earlier shares, and agrees with the shares shown beside it.
ProxyAgrees ==
    (saved # NoRow /\ SavedFlowShareValid(saved, cutoff) /\ saved.share.proxy # "na") =>
        /\ saved.share.prevDay < saved.share.day /\ saved.share.prev > 0
        /\ (saved.share.proxy = "up") <=> (saved.share.shares > saved.share.prev)

\* The share part of a saved block is the newest record the board could have known.
NewestKnownShown ==
    (Untouched /\ saved.share.status = "observed") =>
        \A s \in scales : (s.day # None /\ s.fetched # None /\ s.fetched <= cutoff /\ s.day <= Day(cutoff))
                             => s.day <= saved.share.day

\* The block in one: what was saved is accepted again, and what is accepted is admissible.
BlockSound == SavedBlockAccepted /\ AcceptedWasKnown /\ ProxyAgrees /\ NewestKnownShown
============================================================================
