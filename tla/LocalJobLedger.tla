--------------------------- MODULE LocalJobLedger ---------------------------
(***************************************************************************)
(* The local scheduling ledger, backend/app/workspace/local_job_ledger.py: *)
(* one SQLite file whose tables (slots, attempts, jobs, clock_watermark,   *)
(* export_manifests) are the fields of the record db.                      *)
(*                                                                         *)
(* Every public method of LocalJobLedger is one BEGIN IMMEDIATE            *)
(* transaction: it commits as a whole, or it raises and rolls back.  A     *)
(* method m is therefore a pair of operators: CanM(d, ...), which holds    *)
(* when m does not raise, and M(d, ...), the ledger it commits.            *)
(*                                                                         *)
(* A slot is named by its planned time, so Slots is a set of times; the    *)
(* session (trading date) of a time is the day it falls on.  An attempt is *)
(* named <<slot, attempt_no>>.  Job 0 of an attempt stands for its compute *)
(* tasks, job k >= 1 is upload_k; at is the stamp of its last status,      *)
(* finished_at once it has ended.  A manifest stands for its own digest,   *)
(* that is, for bundle_id, bundle_file and manifest_json together.         *)
(***************************************************************************)
EXTENDS Naturals, FiniteSets

CONSTANTS
  Times,        \* the clock readings a caller may pass as now
  Slots,        \* planned times of every slot of every session
  DayLength,    \* length of a day: times t and u share a session iff same day
  Identities,   \* (code_sha, config_hash, scope_hash) triples
  Sequences,    \* bundle sequence numbers
  Expiries,     \* expires_at values a manifest may carry
  Contents,     \* what a bundle displays; every computation has its own (generated_at, parts)
  JobNos,       \* job numbers a caller may use
  MaxLateness,  \* max_lateness: catch-up window of a slot
  MaxAttempts,  \* max_attempts: compute attempts per slot
  Cooldown,     \* cooldown_seconds, of both compute and upload retries
  MaxRetries,   \* max_retries: uploads after the initial one
  None          \* SQL NULL

Manifests == [seq : Sequences, ident : Identities, expires : Expiries, content : Contents]

ASSUME LedgerAssumption ==
  /\ Times \subseteq Nat
  /\ Slots \subseteq Nat
  /\ Sequences \subseteq Nat
  /\ Expiries \subseteq Nat
  /\ JobNos \subseteq Nat
  /\ DayLength \in Nat \ {0}
  /\ MaxLateness \in Nat /\ MaxAttempts \in Nat \ {0}
  /\ Cooldown \in Nat /\ MaxRetries \in Nat
  /\ None \notin Manifests

VARIABLE db

-----------------------------------------------------------------------------
(* Statuses. *)

TERMINAL_SLOTS == {"DELIVERED", "SUPERSEDED", "MISSED", "FAILED_DELIVERY", "QUARANTINED"}
Claimable == {"PENDING", "FAILED", "INTERRUPTED"}
Unresolved == {"EXPORTING", "EXPORTED"}
Live == {"RUNNING"} \cup Unresolved
SlotStatus == {"ABSENT"} \cup Claimable \cup Live \cup TERMINAL_SLOTS
ClosedAttempts == {"DELIVERED", "FAILED", "INTERRUPTED", "EXPIRED", "INVALIDATED",
                   "SUPERSEDED", "FAILED_DELIVERY", "QUARANTINED"}
AttemptStatus == Live \cup ClosedAttempts
JobStatus == {"running", "succeeded", "partial", "failed", "unavailable", "interrupted"}

Session(t) == t \div DayLength
SessionSlots(t) == {s \in Slots : Session(s) = Session(t)}
SlotOf(a) == a[1]
AttemptNo(a) == a[2]

AttemptsOf(d, s) == {a \in DOMAIN d.attempts : SlotOf(a) = s}
AttemptsIn(d, S) == {a \in DOMAIN d.attempts : d.attempts[a].status \in S}
UploadsOf(d, a) == {j \in DOMAIN d.jobs : j[1] = a /\ j[2] >= 1}

LostUploads(d, a) == {j \in UploadsOf(d, a) : d.jobs[j].status \in {"failed", "interrupted"}}

EmptyLedger == [slots |-> [s \in Slots |-> [status |-> "ABSENT", updated |-> 0]],
                attempts |-> [a \in {} |-> None],
                jobs |-> [j \in {} |-> None],
                watermark |-> 0]

-----------------------------------------------------------------------------
(* Row updates, the UPDATE statements every method is built from. *)

Ledger(sl, at, jo, w) == [slots |-> sl, attempts |-> at, jobs |-> jo, watermark |-> w]

SetSlots(slots, S, st, t) ==
  [s \in Slots |-> IF s \in S THEN [status |-> st, updated |-> t] ELSE slots[s]]

SetAttempts(attempts, A, st, t) ==
  [a \in DOMAIN attempts |->
     IF a \in A THEN [status |-> st, updated |-> t, ident |-> attempts[a].ident,
                      manifest |-> attempts[a].manifest]
                ELSE attempts[a]]

CloseJobs(jobs, J, st, t) ==
  [j \in DOMAIN jobs |->
     IF j \in J /\ jobs[j].status = "running" THEN [status |-> st, at |-> t] ELSE jobs[j]]

JobsOf(d, A) == {j \in DOMAIN d.jobs : j[1] \in A}
SlotsIn(d, A, S) == {s \in Slots : d.slots[s].status \in S /\ \E a \in A : SlotOf(a) = s}

\* _observe_clock raises on a reading below the durable watermark, else records it.
Observes(d, t) == d.watermark <= t
ObserveClock(d, t) == Ledger(d.slots, d.attempts, d.jobs, t)

\* _forward raises on a reading below the row's own updated_at.
Forward(row, t) == row.updated <= t

\* _finish_export for every attempt of A: the attempt, its slot and its running jobs end together.
FinishExports(d, A, attemptStatus, slotStatus, t) ==
  Ledger(SetSlots(d.slots, SlotsIn(d, A, Unresolved), slotStatus, t),
         SetAttempts(d.attempts, A \cap AttemptsIn(d, Unresolved), attemptStatus, t),
         CloseJobs(d.jobs, JobsOf(d, A), "interrupted", t),
         d.watermark)

\* UPDATE slots ... WHERE the slot is in S and its status is not in keep.
UpdateSlots(d, S, keep, st, t) ==
  Ledger(SetSlots(d.slots, {s \in S : d.slots[s].status \notin keep}, st, t),
         d.attempts, d.jobs, d.watermark)

-----------------------------------------------------------------------------
(* plan_due: close what can no longer be delivered, then name the newest due *)
(* slot if it may be (re)computed.                                           *)

\* Initial POST and MaxRetries retries all lost: terminal before anything can supersede it.
\* pending_replay computes the limit from max_retries, plan_due spells it out (3).
RetriesSpent(d, a) == Cardinality(LostUploads(d, a)) >= MaxRetries + 1
ExhaustedExports(d) == {a \in AttemptsIn(d, {"EXPORTED"}) : RetriesSpent(d, a)}

PlanExhausted(d, t) ==
  FinishExports(d, ExhaustedExports(d), "FAILED_DELIVERY", "FAILED_DELIVERY", t)

\* Rows exist only for slots already planned: an ABSENT slot has no row to update.
EarlierSlots(d, t) == {s \in Slots : Session(s) < Session(t) /\ d.slots[s].status # "ABSENT"}

\* Mutant: exports of an earlier session expire, its other open slots are forgotten.
PlanPreviousExportsOnly(d, t) ==
  FinishExports(d, {a \in AttemptsIn(d, Unresolved) : Session(SlotOf(a)) < Session(t)},
                "EXPIRED", "MISSED", t)

\* Mutant: every open or undelivered slot of an earlier session is missed.
PlanPreviousUndelivered(d, t) ==
  LET missed == UpdateSlots(d, EarlierSlots(d, t), {"DELIVERED"}, "MISSED", t)
  IN  FinishExports(missed, {a \in AttemptsIn(missed, Unresolved) : Session(SlotOf(a)) < Session(t)},
                    "EXPIRED", "MISSED", t)

PlanPrevious(d, t) ==
  LET missed == UpdateSlots(d, EarlierSlots(d, t), TERMINAL_SLOTS, "MISSED", t)
  IN  FinishExports(missed, {a \in AttemptsIn(missed, Unresolved) : Session(SlotOf(a)) < Session(t)},
                    "EXPIRED", "MISSED", t)

\* INSERT OR IGNORE ... 'PENDING'
InsertSlots(d, t) == UpdateSlots(d, SessionSlots(t), SlotStatus \ {"ABSENT"}, "PENDING", t)

DueSlots(t) == {s \in SessionSlots(t) : s <= t}
LatestDue(t) == CHOOSE s \in DueSlots(t) : \A r \in DueSlots(t) : r <= s

ExportsOf(d, S) == {a \in AttemptsIn(d, Unresolved) : SlotOf(a) \in S}

PlanSupersede(d, t) ==
  LET older == DueSlots(t) \ {LatestDue(t)}
  IN  UpdateSlots(FinishExports(d, ExportsOf(d, older), "SUPERSEDED", "SUPERSEDED", t),
               older, TERMINAL_SLOTS \cup {"RUNNING"}, "SUPERSEDED", t)

PlanLate(d, s, t) ==
  UpdateSlots(FinishExports(d, ExportsOf(d, {s}), "EXPIRED", "MISSED", t),
           {s}, TERMINAL_SLOTS \cup {"RUNNING"}, "MISSED", t)

Mismatched(d, ident) == {a \in DOMAIN d.attempts : d.attempts[a].ident # ident}
ExpiredAt(d, A, t) == {a \in A : d.attempts[a].manifest.expires <= t}

PlanInvalid(d, s, t, ident) ==
  LET stale == ExportsOf(d, {s}) \cap Mismatched(d, ident)
      old   == ExpiredAt(d, ExportsOf(d, {s}) \ stale, t)
  IN  FinishExports(FinishExports(d, stale, "INVALIDATED", "FAILED", t),
                    old, "EXPIRED", "FAILED", t)

PlanSession(d, t, ident) ==
  IF DueSlots(t) = {} THEN InsertSlots(d, t)
  ELSE LET superseded == PlanSupersede(InsertSlots(d, t), t)
       IN  IF t - LatestDue(t) > MaxLateness THEN PlanLate(superseded, LatestDue(t), t)
           ELSE PlanInvalid(superseded, LatestDue(t), t, ident)

CanPlanDue(d, t) == Observes(d, t)

PlanDue(d, t, trading, ident) ==
  LET closed == PlanPrevious(PlanExhausted(ObserveClock(d, t), t), t)
  IN  IF trading THEN PlanSession(closed, t, ident) ELSE closed

\* The retry gate shared by plan_due and claim: budget, then cooldown unless the
\* previous attempt's package was invalidated or expired.
\* ORDER BY attempt_no DESC LIMIT 1: the number of the newest attempt, 0 when there is none.
LastAttempt(d, s) ==
  IF AttemptsOf(d, s) = {} THEN 0
  ELSE CHOOSE n \in {AttemptNo(a) : a \in AttemptsOf(d, s)} :
         \A a \in AttemptsOf(d, s) : AttemptNo(a) <= n
\* Mutant: one attempt too many.
RetryAllowedOnceMore(d, s, t) ==
  LET n == LastAttempt(d, s)
  IN  n > 0 => /\ n <= MaxAttempts
               /\ \/ d.attempts[<<s, n>>].status \in {"INVALIDATED", "EXPIRED"}
                  \/ t >= d.attempts[<<s, n>>].updated + Cooldown

RetryAllowed(d, s, t) ==
  LET n == LastAttempt(d, s)
  IN  n > 0 => /\ n < MaxAttempts
               /\ \/ d.attempts[<<s, n>>].status \in {"INVALIDATED", "EXPIRED"}
                  \/ t >= d.attempts[<<s, n>>].updated + Cooldown

\* What plan_due returns from the ledger d it has just committed: a slot or None.
PlannedSlot(d, t, trading) ==
  IF /\ trading /\ DueSlots(t) # {}
     /\ t - LatestDue(t) <= MaxLateness
     /\ d.slots[LatestDue(t)].status \in Claimable
     /\ RetryAllowed(d, LatestDue(t), t)
  THEN LatestDue(t) ELSE None

-----------------------------------------------------------------------------
(* claim and recover_interrupted *)

CanClaim(d, s, t) ==
  /\ Observes(d, t)
  /\ d.slots[s].status \in Claimable
  /\ Forward(d.slots[s], t)
  /\ Session(t) = Session(s) /\ s <= t /\ t - s <= MaxLateness
  /\ AttemptsIn(d, {"RUNNING"}) = {}
  /\ RetryAllowed(d, s, t)

Claim(d, s, t, ident) ==
  LET id == <<s, LastAttempt(d, s) + 1>>
      new == [status |-> "RUNNING", updated |-> t, ident |-> ident, manifest |-> None]
  IN  Ledger(SetSlots(d.slots, {s}, "RUNNING", t),
             [a \in DOMAIN d.attempts \cup {id} |-> IF a = id THEN new ELSE d.attempts[a]],
             d.jobs, t)

CanRecover(d, t) ==
  /\ Observes(d, t)
  /\ \A a \in AttemptsIn(d, {"RUNNING"}) : Forward(d.attempts[a], t)

RecoverInterrupted(d, t) ==
  LET dead == AttemptsIn(d, {"RUNNING"})
  IN  Ledger(SetSlots(d.slots, SlotsIn(d, dead, {"RUNNING"}), "INTERRUPTED", t),
             SetAttempts(d.attempts, dead, "INTERRUPTED", t),
             CloseJobs(d.jobs, JobsOf(d, AttemptsIn(d, {"RUNNING", "EXPORTED"})), "interrupted", t),
             t)

-----------------------------------------------------------------------------
(* record_job: a finished job never changes again.  Details are not modelled: *)
(* a repeat of a final status may carry other details and be refused.        *)

CanRecordJob(d, a, k, st, t) ==
  /\ Observes(d, t)
  /\ a \in DOMAIN d.attempts
  /\ Forward(d.attempts[a], t)
  /\ LET known == <<a, k>> \in DOMAIN d.jobs
     IN  /\ \/ d.attempts[a].status = "RUNNING"
            \/ k >= 1 /\ d.attempts[a].status = "EXPORTED"
            \/ /\ k >= 1 /\ d.attempts[a].status = "DELIVERED" /\ known
               /\ d.jobs[<<a, k>>].status \in {"running", "succeeded"} /\ st = "succeeded"
         /\ known => d.jobs[<<a, k>>].status \in {"running", st}

\* Mutant: the row is written again even when the job has finished.
RecordJobAgain(d, a, k, st, t) ==
  Ledger(d.slots, d.attempts,
         [j \in DOMAIN d.jobs \cup {<<a, k>>} |->
            IF j = <<a, k>> THEN [status |-> st, at |-> t] ELSE d.jobs[j]],
         t)

RecordJob(d, a, k, st, t) ==
  LET id == <<a, k>>
      same == id \in DOMAIN d.jobs /\ d.jobs[id].status # "running"
  IN  Ledger(d.slots, d.attempts,
             IF same THEN d.jobs
             ELSE [j \in DOMAIN d.jobs \cup {id} |->
                     IF j = id THEN [status |-> st, at |-> t] ELSE d.jobs[j]],
             t)

-----------------------------------------------------------------------------
(* mark_export_intent (st = EXPORTING) and mark_export (st = EXPORTED). *)

CanRecordExport(d, a, m, t) ==
  /\ m.expires > t
  /\ Observes(d, t)
  /\ a \in DOMAIN d.attempts
  /\ d.attempts[a].status \in Live
  /\ Forward(d.attempts[a], t)
  /\ d.attempts[a].ident = m.ident
  /\ d.attempts[a].manifest \in {None, m}

RecordExport(d, a, m, st, t) ==
  IF d.attempts[a].status \in {st, "EXPORTED"} THEN ObserveClock(d, t)
  ELSE Ledger(SetSlots(d.slots, {SlotOf(a)}, st, t),
              [b \in DOMAIN d.attempts |->
                 IF b = a THEN [status |-> st, updated |-> t, ident |-> d.attempts[a].ident, manifest |-> m]
                          ELSE d.attempts[b]],
              d.jobs, t)

ExportIntents(d) ==
  {a \in AttemptsIn(d, {"EXPORTING"}) : d.slots[SlotOf(a)].status = "EXPORTING"}

CanQuarantine(d, a, t) ==
  /\ Observes(d, t)
  /\ a \in AttemptsIn(d, Unresolved)

QuarantineExport(d, a, t) ==
  FinishExports(ObserveClock(d, t), {a}, "QUARANTINED", "QUARANTINED", t)

-----------------------------------------------------------------------------
(* mark_delivered, fail and pending_replay *)

CanMarkDelivered(d, a, m, t) ==
  /\ Observes(d, t)
  /\ a \in AttemptsIn(d, {"EXPORTED", "DELIVERED"})
  /\ d.attempts[a].manifest = m
  /\ Forward(d.attempts[a], t)

\* Mutant: the slot is reported delivered, the attempt is not closed.
MarkSlotDelivered(d, a, t) ==
  Ledger(SetSlots(d.slots, {s \in {SlotOf(a)} : d.slots[s].status = "EXPORTED"}, "DELIVERED", t),
         d.attempts, CloseJobs(d.jobs, UploadsOf(d, a), "succeeded", t), t)

MarkDelivered(d, a, t) ==
  IF d.attempts[a].status = "DELIVERED" THEN ObserveClock(d, t)
  ELSE Ledger(SetSlots(d.slots, {s \in {SlotOf(a)} : d.slots[s].status = "EXPORTED"}, "DELIVERED", t),
              SetAttempts(d.attempts, {a}, "DELIVERED", t),
              CloseJobs(d.jobs, UploadsOf(d, a), "succeeded", t),
              t)

CanFail(d, a, t) ==
  /\ Observes(d, t)
  /\ a \in AttemptsIn(d, Live)
  /\ Forward(d.attempts[a], t)

\* An export survives the failure of its run: only a RUNNING attempt becomes FAILED.
Fail(d, a, t) ==
  LET st == IF d.attempts[a].status \in Unresolved THEN d.attempts[a].status ELSE "FAILED"
  IN  Ledger(SetSlots(d.slots, {s \in {SlotOf(a)} : d.slots[s].status \notin TERMINAL_SLOTS}, st, t),
             SetAttempts(d.attempts, {a}, st, t),
             CloseJobs(d.jobs, JobsOf(d, {a}), "failed", t),
             t)

ReplayRows(d) == {a \in AttemptsIn(d, {"EXPORTED"}) : d.slots[SlotOf(a)].status = "EXPORTED"}

WindowClosed(d, a, t) ==
  \/ Session(SlotOf(a)) # Session(t)
  \/ t > SlotOf(a) + MaxLateness
  \/ d.attempts[a].manifest.expires <= t

ReplayReady(d, t, ident) ==
  {a \in ReplayRows(d) :
     /\ ~WindowClosed(d, a, t) /\ ~RetriesSpent(d, a)
     /\ d.attempts[a].ident = ident
     /\ SlotOf(a) <= t
     /\ \A j \in LostUploads(d, a) : t >= d.jobs[j].at + Cooldown
     /\ \A j \in UploadsOf(d, a) : d.jobs[j].status # "running"}

SeqOf(d, a) == d.attempts[a].manifest.seq

\* Rows are scanned newest sequence first; the scan stops at the row it returns.  (Rows of
\* equal sequence come in no particular order in SQL; here the returned one comes first.)
NextReplay(d, t, ident) ==
  LET ready == ReplayReady(d, t, ident)
  IN  IF ready = {} THEN None
      ELSE CHOOSE a \in ready : \A b \in ready : SeqOf(d, b) <= SeqOf(d, a)

ScannedRows(d, t, ident) ==
  {a \in ReplayRows(d) : \A b \in ReplayReady(d, t, ident) : SeqOf(d, b) < SeqOf(d, a)}

CanPendingReplay(d, t) == Observes(d, t)

PendingReplay(d, t, ident) ==
  LET rows  == ScannedRows(d, t, ident)
      late  == {a \in rows : WindowClosed(d, a, t)}
      spent == {a \in rows \ late : RetriesSpent(d, a)}
  IN  FinishExports(FinishExports(ObserveClock(d, t), late, "EXPIRED", "MISSED", t),
                    spent, "FAILED_DELIVERY", "FAILED_DELIVERY", t)

-----------------------------------------------------------------------------
(* The ledger under its most general client: any method, any clock reading,  *)
(* any argument, in any order.  LocalDispatch is one such client.            *)

LedgerInit == db = EmptyLedger

PlanDueStep ==
  \E t \in Times, trading \in BOOLEAN, i \in Identities :
    CanPlanDue(db, t) /\ db' = PlanDue(db, t, trading, i)

ClaimStep ==
  \E s \in Slots, t \in Times, i \in Identities :
    CanClaim(db, s, t) /\ db' = Claim(db, s, t, i)

RecoverStep ==
  \E t \in Times : CanRecover(db, t) /\ db' = RecoverInterrupted(db, t)

RecordJobStep ==
  \E a \in DOMAIN db.attempts, k \in JobNos, st \in JobStatus, t \in Times :
    CanRecordJob(db, a, k, st, t) /\ db' = RecordJob(db, a, k, st, t)

RecordExportStep ==
  \E a \in DOMAIN db.attempts, m \in Manifests, st \in Unresolved, t \in Times :
    CanRecordExport(db, a, m, t) /\ db' = RecordExport(db, a, m, st, t)

QuarantineStep ==
  \E a \in DOMAIN db.attempts, t \in Times :
    CanQuarantine(db, a, t) /\ db' = QuarantineExport(db, a, t)

MarkDeliveredStep ==
  \E a \in DOMAIN db.attempts, m \in Manifests, t \in Times :
    CanMarkDelivered(db, a, m, t) /\ db' = MarkDelivered(db, a, t)

FailStep ==
  \E a \in DOMAIN db.attempts, t \in Times :
    CanFail(db, a, t) /\ db' = Fail(db, a, t)

PendingReplayStep ==
  \E t \in Times, i \in Identities :
    CanPendingReplay(db, t) /\ db' = PendingReplay(db, t, i)

LedgerNext ==
  \/ PlanDueStep \/ ClaimStep \/ RecoverStep \/ RecordJobStep \/ RecordExportStep
  \/ QuarantineStep \/ MarkDeliveredStep \/ FailStep \/ PendingReplayStep

LedgerSpec == LedgerInit /\ [][LedgerNext]_db

-----------------------------------------------------------------------------
(* Properties of the ledger whoever calls it. *)

AttemptIds == Slots \X Nat
SlotRow == [status : SlotStatus, updated : Nat]
AttemptRow == [status : AttemptStatus, updated : Nat, ident : Identities,
               manifest : Manifests \cup {None}]
JobRow == [status : JobStatus, at : Nat]

\* Every table holds rows of its schema (CREATE TABLE and the status sets the methods write).
TypeOK ==
  /\ db.slots \in [Slots -> SlotRow]
  /\ DOMAIN db.attempts \subseteq AttemptIds
  /\ db.attempts \in [DOMAIN db.attempts -> AttemptRow]
  /\ DOMAIN db.jobs \subseteq (DOMAIN db.attempts) \X Nat
  /\ db.jobs \in [DOMAIN db.jobs -> JobRow]
  /\ db.watermark \in Nat
  /\ db = Ledger(db.slots, db.attempts, db.jobs, db.watermark)

\* claim never starts a second computation while one is RUNNING, whichever slots,
\* sessions and crashes are involved ("an attempt is already running").
AtMostOneRunning ==
  \A a, b \in AttemptsIn(db, {"RUNNING"}) : a = b

\* The attempts of a slot are numbered 1..n with n <= max_attempts: the compute retry
\* budget holds across every mix of failures, interruptions and invalidated exports.
RetryBudget ==
  \A s \in Slots : \E n \in 0..MaxAttempts : AttemptsOf(db, s) = {<<s, k>> : k \in 1..n}

\* A live attempt and its slot tell the same story, so a slot is never offered for a new
\* computation while an attempt of it can still be exported or replayed.  The one
\* exception is a slot whose session ended (MISSED) while its attempt was RUNNING.
SlotFollowsAttempt ==
  \A a \in AttemptsIn(db, Live) :
    \/ db.slots[SlotOf(a)].status = db.attempts[a].status
    \/ db.attempts[a].status = "RUNNING" /\ db.slots[SlotOf(a)].status = "MISSED"

\* At most one attempt of a slot is live, and it is the newest one: no two packages of
\* one slot can both be waiting for delivery.
OneLivePerSlot ==
  \A a \in AttemptsIn(db, Live) : \A b \in AttemptsOf(db, SlotOf(a)) :
    AttemptNo(b) <= AttemptNo(a)

\* A slot shown as in progress is backed by an attempt in that very state: recovery and
\* plan_due can always find the work behind it.
SlotIsBacked ==
  \A s \in Slots : db.slots[s].status \in Live =>
    \E a \in AttemptsOf(db, s) : db.attempts[a].status = db.slots[s].status

\* A slot is reported DELIVERED only on a receipt bound to an exported manifest of one of
\* its own attempts.
DeliveredIsBacked ==
  \A s \in Slots : db.slots[s].status = "DELIVERED" =>
    \E a \in AttemptsOf(db, s) : db.attempts[a].status = "DELIVERED" /\ db.attempts[a].manifest # None

\* No upload job is left running on an attempt that has ended: supersession, expiry,
\* quarantine and recovery close the pending upload together with the attempt.
NoOrphanUpload ==
  \A j \in DOMAIN db.jobs :
    j[2] >= 1 /\ db.jobs[j].status = "running" => db.attempts[j[1]].status \in Live

\* Every stamp in the ledger is at or before the durable watermark, so a clock that
\* passes _observe_clock can never be refused later by _forward.
StampsBehindWatermark ==
  /\ \A s \in Slots : db.slots[s].updated <= db.watermark
  /\ \A a \in DOMAIN db.attempts : db.attempts[a].updated <= db.watermark
  /\ \A j \in DOMAIN db.jobs : db.jobs[j].at <= db.watermark

\* Attempts and uploads are sound: one computation at a time, a bounded number per slot, one
\* live package per slot and no upload outliving its attempt, all stamped by a clock that
\* never went back.
AttemptsSound == AtMostOneRunning /\ RetryBudget /\ OneLivePerSlot /\ NoOrphanUpload /\ StampsBehindWatermark

\* What a slot shows is true of its attempts: it follows the live one, and progress and
\* delivery are backed by an attempt in that state.
SlotsTruthful == SlotFollowsAttempt /\ SlotIsBacked /\ DeliveredIsBacked

\* History is append-only: a closed attempt keeps its status, an exported manifest is
\* never replaced, and a finished job never changes.
HistoryImmutable ==
  [][/\ \A a \in DOMAIN db.attempts :
          /\ a \in DOMAIN db'.attempts
          /\ db.attempts[a].status \in ClosedAttempts => db'.attempts[a].status = db.attempts[a].status
          /\ db.attempts[a].manifest # None => db'.attempts[a].manifest = db.attempts[a].manifest
     /\ \A j \in DOMAIN db.jobs :
          /\ j \in DOMAIN db'.jobs
          /\ db.jobs[j].status # "running" => db'.jobs[j] = db.jobs[j]]_db
=============================================================================
