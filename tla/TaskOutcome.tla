----------------------------- MODULE TaskOutcome -----------------------------
(***************************************************************************)
(* backend/app/services/task_outcome.py: the status a task's result gets.  *)
(*                                                                         *)
(* A result is the record of what the rule looks at: the explicit status,  *)
(* the largest error counter, the output counters, requested / completed / *)
(* stale_count where present, the coverage flag, the statuses of its steps *)
(* and of its nested input (each already normalised; only whether they     *)
(* succeeded matters, so one other status stands for the rest).  Bad is a  *)
(* value count() refuses, None for an absent key.                          *)
(***************************************************************************)
EXTENDS Integers, FiniteSets

CONSTANTS None, Bad, MaxCount

OutcomeAssumption == MaxCount \in Nat \ {0} /\ None # Bad /\ {None, Bad} \cap Nat = {}

TERMINAL == {"succeeded", "partial", "failed", "skipped", "cancelled"}
Counter == 0..MaxCount \cup {None, Bad}
Explicit == TERMINAL \cup {None, "unknown"}
Result == [status : Explicit, errors : Counter, outputs : Counter, requested : Counter,
           completed : Counter, stale : Counter, coverage : BOOLEAN \cup {None},
           steps : SUBSET {"succeeded", "failed"}, input : {None, "succeeded", "partial"}]

\* count: an absent value is zero, anything but a finite non-negative integer raises.
Valid(v) == v # Bad
Count(v) == IF v = None THEN 0 ELSE v

\* coverage_outcome; a None where a number is needed is a TypeError, hence invalid.
Coverage(requested, completed, stale) ==
  IF ~Valid(requested) \/ ~Valid(completed) \/ None \in {requested, completed} THEN "invalid"
  ELSE IF completed > requested THEN "invalid"
  ELSE IF Count(stale) > 0 \/ requested = 0 THEN "partial"
  ELSE IF completed = 0 THEN "failed" ELSE IF completed = requested THEN "succeeded" ELSE "partial"

Errors(r) == Count(r.errors) + Cardinality(r.steps \ {"succeeded"})
Successes(r) ==
  Count(r.outputs) + (IF Valid(r.completed) THEN Count(r.completed) ELSE 0) + Cardinality(r.steps \cap {"succeeded"})

\* What the evidence says, before the downgrades.
Derived(r) ==
  CASE r.requested # None /\ r.completed # None -> Coverage(r.requested, r.completed, r.stale)
    [] OTHER -> IF Errors(r) > 0 THEN IF Successes(r) > 0 THEN "partial" ELSE "failed"
                ELSE IF Successes(r) > 0 THEN "succeeded"
                ELSE IF r.status \in TERMINAL THEN r.status ELSE "failed"

Downgrade(r, d) ==
  IF d = "succeeded" /\ (r.coverage = FALSE \/ Errors(r) > 0 \/ r.status = "partial"
                         \/ r.input \notin {None, "succeeded"})
  THEN "partial" ELSE d

Settle(r, s) == [r EXCEPT !.status = s, !.coverage = IF s = "succeeded" THEN @ ELSE FALSE]

\* normalize_outcome.  A stale_count that count() refuses escapes as an exception.
Normalize(r) ==
  IF r.status \in {"failed", "cancelled", "skipped"} THEN Settle(r, r.status)
  ELSE IF ~Valid(r.errors) \/ ~Valid(r.outputs) \/ ~Valid(r.completed) THEN Settle(r, "failed")
  ELSE IF r.requested # None /\ r.completed # None /\ ~Valid(r.stale) THEN Settle(r, "raises")
  ELSE IF Derived(r) = "invalid"
  THEN Settle([r EXCEPT !.requested = 0, !.completed = 0], "failed")
  ELSE Settle(r, Downgrade(r, Derived(r)))

-----------------------------------------------------------------------------
VARIABLES raw, out
vars == <<raw, out>>

Init == raw = None /\ out = None

\* TaskService.run normalises what a task returned.
Finish == raw = None /\ raw' \in Result /\ out' = Normalize(raw')
Spec == Init /\ [][Finish]_vars

-----------------------------------------------------------------------------
\* "No success-by-default": a success has evidence of output or the producer's word, no error,
\* no failed step, full coverage where it is counted and a complete input.
SuccessHasEvidence ==
  out # None /\ out.status = "succeeded" =>
    /\ raw.status \notin {"failed", "skipped", "cancelled", "partial"}
    /\ Count(raw.errors) = 0 /\ raw.steps \subseteq {"succeeded"} /\ raw.coverage # FALSE
    /\ raw.input \in {None, "succeeded"}
    /\ raw.status = "succeeded" \/ Successes(raw) > 0
    /\ raw.requested # None /\ raw.completed # None =>
         raw.completed = raw.requested /\ raw.requested > 0 /\ Count(raw.stale) = 0

\* The coverage flag session_refresh_due reads is only left standing on a success.
CoverageMeansSuccess == out # None /\ out.coverage = TRUE => out.status = "succeeded"

\* A result that was normalised keeps its status when it is normalised again, as
\* session_refresh_due does with the stored one.
Idempotent ==
  out # None /\ out.status # "raises" =>
    Normalize(out).status = out.status /\ Normalize(out).coverage = out.coverage

\* The outcome rule in one: success needs evidence, coverage implies success, and normalising
\* a stored outcome again changes nothing.
OutcomeEarned == SuccessHasEvidence /\ CoverageMeansSuccess /\ Idempotent
=============================================================================
