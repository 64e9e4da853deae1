--------------------------- MODULE LocalDispatch ---------------------------
(***************************************************************************)
(* The minute dispatcher: dispatch_once (local_dispatch.py) with the       *)
(* run_job, replay and recover_export callbacks that cmd_dispatch and      *)
(* cmd_run (scripts/run_local_compute.py) give it, working on the ledger   *)
(* of LocalJobLedger, the OS lock of local_schedule.py, the outbox         *)
(* directory and the receiver of AcceptedGenerations.                      *)
(*                                                                         *)
(* Each action is one durable effect (a ledger transaction, a file, a      *)
(* request), so a process may crash, the clock may move and another        *)
(* process may be woken between any two effects.  Where the code raises    *)
(* for reasons the model does not track (provider admission withdrawn,     *)
(* unreadable file, fast quotes too old, missing credentials) the action   *)
(* may take its error path at any time.                                    *)
(***************************************************************************)
EXTENDS LocalJobLedger

CONSTANTS
  Procs,         \* dispatcher processes started by the task scheduler
  TradingDays,   \* sessions the calendar verifies as trading days
  BundleTTL,     \* lifetime of an exported bundle
  MaxTime,       \* bound: the clock stops here
  MaxFaults,     \* bound: processes killed and times the wall clock is set back, together
  MayRollBack,   \* whether the clock is ever set back
  MaxDeploys     \* bound: changes of source/config/scope

ASSUME DispatchAssumption ==
  /\ MaxTime \in Nat /\ BundleTTL \in Nat /\ None \notin Procs
  /\ 0..MaxTime \subseteq Times
  /\ 0..(MaxRetries + 1) \subseteq JobNos

VARIABLES
  clock,     \* the wall clock
  deployed,  \* the identity a process reads when it starts
  lock,      \* owner of .run.lock, or None
  pc, me,    \* control point and local variables of every process
  outbox,    \* manifests whose bundle file is durably in outbox/
  net,       \* uploads under way: <<manifest, upload number>>
  latest, accepted,   \* the receiver
  faults     \* how many faults and deployments happened

R == INSTANCE AcceptedGenerations WITH Bundles <- Manifests

env == <<clock, deployed, faults>>
receiver == <<latest, accepted>>
vars == <<db, clock, deployed, lock, pc, me, outbox, net, latest, accepted, faults>>

NoWork == [ident |-> None, slot |-> None, at |-> None, up |-> 0, replay |-> FALSE]

DispatchInit ==
  /\ LedgerInit /\ R!Init
  /\ clock = 0 /\ deployed \in Identities /\ lock = None
  /\ pc = [p \in Procs |-> "idle"] /\ me = [p \in Procs |-> NoWork]
  /\ outbox = {} /\ net = {}
  /\ faults = [hits |-> 0, deploy |-> 0]

-----------------------------------------------------------------------------
(* Helpers. *)

Goto(p, l) == pc' = [pc EXCEPT ![p] = l]

\* finally: lock.release(), and the process ends.
Exit(p) ==
  /\ Goto(p, "idle")
  /\ me' = [me EXCEPT ![p] = NoWork]
  /\ lock' = IF lock = p THEN None ELSE lock

Stay(p, l) == Goto(p, l) /\ UNCHANGED <<me, lock>>

Package(p) == db.attempts[me[p].at].manifest

Commit(d) == db' = d /\ UNCHANGED <<env, outbox, net, receiver>>
NoCommit == UNCHANGED <<db, env, outbox, net, receiver>>

-----------------------------------------------------------------------------
(* Start, lock, crash recovery and planning. *)

\* cmd_dispatch reads source, config and scope before dispatch_once asks for the lock.
Start(p) ==
  /\ pc[p] = "idle"
  /\ me' = [me EXCEPT ![p].ident = deployed]
  /\ Goto(p, "start")
  /\ NoCommit /\ UNCHANGED lock

\* Mutant: a busy lock is taken over.
AcquireAnyway(p) ==
  pc[p] = "start" /\ NoCommit /\ lock' = p /\ Goto(p, "recover") /\ UNCHANGED me

\* LocalRunLock.acquire does not wait: a busy lock ends the process (exit status 2).
Acquire(p) ==
  /\ pc[p] = "start"
  /\ NoCommit
  /\ \/ lock = None /\ lock' = p /\ Goto(p, "recover") /\ UNCHANGED me
     \/ lock # None /\ Exit(p)

Recover(p) ==
  /\ pc[p] = "recover"
  /\ \/ CanRecover(db, clock) /\ Commit(RecoverInterrupted(db, clock)) /\ Stay(p, "plan")
     \/ ~CanRecover(db, clock) /\ NoCommit /\ Exit(p)

PlanUnverified(p) == pc[p] = "plan" /\ NoCommit /\ Exit(p)

PlanVerified(p) ==
  /\ pc[p] = "plan"
  /\ LET trading == Session(clock) \in TradingDays
         planned == PlanDue(db, clock, trading, me[p].ident)
     IN  \/ ~CanPlanDue(db, clock) /\ NoCommit /\ Exit(p)
         \/ CanPlanDue(db, clock) /\ ~trading /\ Commit(planned) /\ Exit(p)
         \/ /\ CanPlanDue(db, clock) /\ trading /\ Commit(planned)
            /\ me' = [me EXCEPT ![p].slot = PlannedSlot(planned, clock, trading)]
            /\ Goto(p, "intents") /\ UNCHANGED lock

\* recover_export and load_pending_bundle: the exact file, unexpired, of this process's
\* identity, which is still the deployed one.
PackageValid(p, m) ==
  /\ m \in outbox
  /\ m.expires > clock
  /\ m.ident = me[p].ident
  /\ deployed = me[p].ident

\* An export cut short by a crash is confirmed from the file, or else quarantined.
ResolveIntent(p) ==
  /\ pc[p] = "intents"
  /\ \E a \in ExportIntents(db) :
       LET m == db.attempts[a].manifest
       IN  \/ /\ PackageValid(p, m) /\ CanRecordExport(db, a, m, clock)
              /\ Commit(RecordExport(db, a, m, "EXPORTED", clock)) /\ Stay(p, "intents")
           \/ /\ CanQuarantine(db, a, clock)
              /\ Commit(QuarantineExport(db, a, clock)) /\ Stay(p, "intents")
           \/ ~CanQuarantine(db, a, clock) /\ NoCommit /\ Exit(p)

\* A due slot goes before any replay; without either the wake-up is over.
Pending(p) ==
  /\ pc[p] = "intents" /\ ExportIntents(db) = {}
  /\ LET row == NextReplay(db, clock, me[p].ident)
         ok  == CanPendingReplay(db, clock)
     IN  \/ ~ok /\ NoCommit /\ Exit(p)
         \/ /\ ok /\ Commit(PendingReplay(db, clock, me[p].ident))
            /\ \/ me[p].slot # None /\ Stay(p, "claim")
               \/ me[p].slot = None /\ row = None /\ Exit(p)
               \/ /\ me[p].slot = None /\ row # None
                  /\ me' = [me EXCEPT ![p].at = row, ![p].replay = TRUE,
                                      ![p].up = Cardinality(UploadsOf(db, row)) + 1]
                  /\ Goto(p, "announce") /\ UNCHANGED lock

-----------------------------------------------------------------------------
(* Compute and export. *)

\* Mutant: the planned slot is taken without asking the ledger again.
ClaimPlanned(p) ==
  /\ pc[p] = "claim" /\ Commit(Claim(db, me[p].slot, clock, me[p].ident))
  /\ me' = [me EXCEPT ![p].at = <<me[p].slot, LastAttempt(db, me[p].slot) + 1>>, ![p].up = 1]
  /\ Goto(p, "task") /\ UNCHANGED lock

ClaimSlot(p) ==
  /\ pc[p] = "claim"
  /\ LET s == me[p].slot
     IN  \/ /\ CanClaim(db, s, clock) /\ Commit(Claim(db, s, clock, me[p].ident))
            /\ me' = [me EXCEPT ![p].at = <<s, LastAttempt(db, s) + 1>>, ![p].up = 1]
            /\ Goto(p, "task") /\ UNCHANGED lock
         \/ ~CanClaim(db, s, clock) /\ NoCommit /\ Exit(p)

\* on_task(name, None): the task is recorded before it runs.
TaskStart(p) ==
  /\ pc[p] = "task"
  /\ LET ok == CanRecordJob(db, me[p].at, 0, "running", clock)
     IN  \/ ok /\ Commit(RecordJob(db, me[p].at, 0, "running", clock)) /\ Stay(p, "compute")
         \/ ~ok /\ NoCommit /\ Stay(p, "except")

\* on_task(name, result): a required task that was not accepted ends cmd_run with 1; a
\* task or its recording may also raise.  Job 0 stands for all tasks of the run: it
\* succeeds when cmd_run goes on to the export.
TaskEnd(p) ==
  /\ pc[p] = "compute"
  /\ \/ \E st \in {"succeeded", "failed"} :
          /\ CanRecordJob(db, me[p].at, 0, st, clock)
          /\ Commit(RecordJob(db, me[p].at, 0, st, clock))
          /\ Stay(p, IF st = "succeeded" THEN "export" ELSE "after")
     \/ NoCommit /\ Stay(p, "except")

\* Mutant: the clock alone numbers bundles.
ClockSequence == IF clock = 0 THEN 1 ELSE clock

\* sequence = max(now_ms, highest outbox sequence + 1)
NextSequence ==
  CHOOSE q \in {clock} \cup {m.seq + 1 : m \in outbox} \cup {1} :
    \A r \in {clock} \cup {m.seq + 1 : m \in outbox} \cup {1} : r <= q

\* The identity is checked again after the computation; the intent is committed before
\* the file is written.  Withdrawn admission ends cmd_run with 1, a failed export raises.
\* Bound: Manifests holds every sequence number and expiry the model can form.
ExportIntent(p) ==
  /\ pc[p] = "export"
  /\ LET m  == [seq |-> NextSequence, ident |-> me[p].ident, expires |-> clock + BundleTTL,
               content |-> me[p].at]
         ok == m \in Manifests /\ deployed = me[p].ident /\ CanRecordExport(db, me[p].at, m, clock)
     IN  \/ ok /\ Commit(RecordExport(db, me[p].at, m, "EXPORTING", clock)) /\ Stay(p, "write")
         \/ NoCommit /\ Stay(p, "except")
         \/ NoCommit /\ Stay(p, "after")

WriteBundle(p) ==
  /\ pc[p] = "write"
  /\ \/ /\ outbox' = outbox \cup {Package(p)} /\ Stay(p, "mark")
        /\ UNCHANGED <<db, env, net, receiver>>
     \/ NoCommit /\ Stay(p, "except")

ConfirmExport(p) ==
  /\ pc[p] = "mark"
  /\ LET ok == CanRecordExport(db, me[p].at, Package(p), clock)
     IN  \/ /\ ok /\ Commit(RecordExport(db, me[p].at, Package(p), "EXPORTED", clock))
            /\ Stay(p, "announce")
         \/ ~ok /\ NoCommit /\ Stay(p, "except")

-----------------------------------------------------------------------------
(* Upload, first or repeated. *)

\* The upload job is durable before its request may leave.
Announce(p) ==
  /\ pc[p] = "announce"
  /\ LET ok == CanRecordJob(db, me[p].at, me[p].up, "running", clock)
     IN  \/ ok /\ Commit(RecordJob(db, me[p].at, me[p].up, "running", clock)) /\ Stay(p, "send")
         \/ ~ok /\ NoCommit /\ Stay(p, "except")

Post(p) ==
  /\ pc[p] = "send"
  /\ net' = net \cup {<<Package(p), me[p].up>>} /\ Stay(p, "await")
  /\ UNCHANGED <<db, env, outbox, receiver>>

\* The first upload: check_execution, then the POST.
Send(p) == ~me[p].replay /\ deployed = me[p].ident /\ Post(p)

\* A kept package is loaded and validated once more, then sent as it is.
Resend(p) == me[p].replay /\ PackageValid(p, Package(p)) /\ Post(p)

\* Mutant: an unanswered request is taken for delivered.
GiveUpSatisfied(p) == pc[p] = "await" /\ NoCommit /\ Stay(p, "receipt")

\* The package does not validate, credentials are missing, or the request ends in a
\* timeout, a transport error, a refusal or a receipt that does not validate.
GiveUp(p) == pc[p] \in {"send", "await"} /\ NoCommit /\ Stay(p, "lost")

\* on_receipt: mark_delivered; writing the receipt file may fail first.
Receipt(p) ==
  /\ pc[p] = "receipt"
  /\ LET ok == CanMarkDelivered(db, me[p].at, Package(p), clock)
     IN  \/ ok /\ Commit(MarkDelivered(db, me[p].at, clock)) /\ Stay(p, "settle")
         \/ NoCommit /\ Stay(p, "lost")

Settle(p) ==
  /\ pc[p] = "settle"
  /\ LET ok == CanRecordJob(db, me[p].at, me[p].up, "succeeded", clock)
     IN  \/ ok /\ Commit(RecordJob(db, me[p].at, me[p].up, "succeeded", clock)) /\ Exit(p)
         \/ ~ok /\ NoCommit /\ Stay(p, "lost")

\* The package is kept; the lost upload is recorded.
Lost(p) ==
  /\ pc[p] = "lost"
  /\ LET ok == CanRecordJob(db, me[p].at, me[p].up, "failed", clock)
     IN  \/ ok /\ Commit(RecordJob(db, me[p].at, me[p].up, "failed", clock)) /\ Exit(p)
         \/ ~ok /\ NoCommit /\ Stay(p, "except")

\* run_job returned before any export.
RunFailed(p) ==
  /\ pc[p] = "after"
  /\ \/ CanFail(db, me[p].at, clock) /\ Commit(Fail(db, me[p].at, clock)) /\ Exit(p)
     \/ ~CanFail(db, me[p].at, clock) /\ NoCommit /\ Stay(p, "except")

\* The outer except clause of dispatch_once.  Its own record_job raises too when upload_1
\* is final already, unless status and details are the same.
Except(p) ==
  /\ pc[p] = "except"
  /\ LET a  == me[p].at
         st == db.attempts[a].status
     IN  \/ /\ st \in {"RUNNING", "EXPORTING"} /\ CanFail(db, a, clock)
            /\ Commit(Fail(db, a, clock))
         \/ /\ st = "EXPORTED" /\ CanRecordJob(db, a, 1, "failed", clock)
            /\ Commit(RecordJob(db, a, 1, "failed", clock))
         \/ /\ st \in {"RUNNING", "EXPORTING"} => ~CanFail(db, a, clock)
            /\ st = "EXPORTED" => \/ ~CanRecordJob(db, a, 1, "failed", clock)
                                  \/ <<a, 1>> \in DOMAIN db.jobs /\ db.jobs[<<a, 1>>].status = "failed"
            /\ NoCommit
  /\ Exit(p)

-----------------------------------------------------------------------------
(* The network and the receiver. *)

\* The receiver accepts a newer generation or acknowledges one it accepted before; the
\* answer reaches the process still waiting for it, or is lost.
Deliver(r) ==
  /\ r \in net /\ net' = net \ {r}
  /\ \/ R!Accept(r[1])
     \/ R!Acknowledged(r[1]) /\ UNCHANGED receiver
  /\ \/ UNCHANGED pc
     \/ \E p \in Procs : /\ pc[p] = "await" /\ Package(p) = r[1] /\ me[p].up = r[2]
                         /\ Goto(p, "receipt")
  /\ UNCHANGED <<db, env, lock, me, outbox>>

\* Lost on the way, or refused.
Drop(r) ==
  /\ r \in net /\ net' = net \ {r}
  /\ UNCHANGED <<db, env, lock, pc, me, outbox, receiver>>

-----------------------------------------------------------------------------
(* The environment. *)

Tick ==
  /\ clock < MaxTime /\ clock' = clock + 1
  /\ UNCHANGED <<db, deployed, faults, lock, pc, me, outbox, net, receiver>>

SetClockBack ==
  /\ MayRollBack /\ faults.hits < MaxFaults /\ clock > 0
  /\ clock' \in 0..(clock - 1)
  /\ faults' = [faults EXCEPT !.hits = @ + 1]
  /\ UNCHANGED <<db, deployed, lock, pc, me, outbox, net, receiver>>

Deploy ==
  /\ faults.deploy < MaxDeploys
  /\ deployed' \in Identities \ {deployed}
  /\ faults' = [faults EXCEPT !.deploy = @ + 1]
  /\ UNCHANGED <<db, clock, lock, pc, me, outbox, net, receiver>>

\* The process dies; the operating system frees its lock.
Crash(p) ==
  /\ faults.hits < MaxFaults /\ pc[p] # "idle"
  /\ faults' = [faults EXCEPT !.hits = @ + 1]
  /\ Exit(p)
  /\ UNCHANGED <<db, clock, deployed, outbox, net, receiver>>

Step(p) ==
  \/ Start(p) \/ Acquire(p) \/ Recover(p) \/ PlanUnverified(p) \/ PlanVerified(p)
  \/ ResolveIntent(p) \/ Pending(p) \/ ClaimSlot(p) \/ TaskStart(p) \/ TaskEnd(p)
  \/ ExportIntent(p) \/ WriteBundle(p) \/ ConfirmExport(p) \/ Announce(p) \/ Send(p)
  \/ Resend(p) \/ GiveUp(p) \/ Receipt(p) \/ Settle(p) \/ Lost(p) \/ RunFailed(p) \/ Except(p)

DispatchNext ==
  \/ \E p \in Procs : Step(p) \/ Crash(p)
  \/ \E r \in net : Deliver(r) \/ Drop(r)
  \/ Tick \/ SetClockBack \/ Deploy

DispatchSpec == DispatchInit /\ [][DispatchNext]_vars

\* The task scheduler wakes the dispatcher every minute and a woken process runs on
\* (HTTP calls time out), time passes, and the calendar is not unverified for ever.
\* A process can always take a step, and PlanVerified whenever it is at "plan", so the
\* second conjunct is WF_vars(Step(p)) and the third SF_vars(PlanVerified(p)).
DispatchFairness ==
  /\ WF_vars(Tick)
  /\ \A p \in Procs :
       /\ []<><<Step(p)>>_vars
       /\ <>[](pc[p] # "plan") \/ []<><<PlanVerified(p)>>_vars

FairDispatchSpec == DispatchSpec /\ DispatchFairness

-----------------------------------------------------------------------------
(* Properties. *)

Points == {"idle", "start", "recover", "plan", "intents", "claim", "task", "compute",
           "export", "write", "mark", "announce", "send", "await", "receipt", "settle",
           "lost", "after", "except"}

\* Shapes of the dispatcher's own variables (dispatch_once's locals, lock, outbox, requests).
DispatchTypeOK ==
  /\ TypeOK
  /\ clock \in 0..MaxTime /\ deployed \in Identities /\ lock \in Procs \cup {None}
  /\ pc \in [Procs -> Points]
  /\ outbox \subseteq Manifests /\ net \subseteq Manifests \X Nat

\* A DELIVERED attempt was accepted by the receiver, through every lost answer, late
\* request, crash between POST and mark_delivered, and replay.
DeliveredWasAccepted ==
  \A a \in AttemptsIn(db, {"DELIVERED"}) : db.attempts[a].manifest \in accepted

\* "Initial POST + two retries": however uploads fail, crash or are interrupted, no attempt
\* is ever uploaded more than MaxRetries + 1 times.
UploadBudget ==
  \A a \in DOMAIN db.attempts : Cardinality(UploadsOf(db, a)) <= MaxRetries + 1

\* Nothing leaves the machine before its bundle file, its manifest and its upload job are
\* durable, so every request the receiver may still process can be accounted for.
SentIsDurable ==
  \A r \in net : /\ r[1] \in outbox
                 /\ \E a \in DOMAIN db.attempts : /\ db.attempts[a].manifest = r[1]
                                                 /\ <<a, r[2]>> \in DOMAIN db.jobs

\* Once a package of a slot exists it is replayed, not recomputed: a later attempt of the
\* slot exists only if the package was invalidated or had expired.
PackageNotRecomputed ==
  \A a \in DOMAIN db.attempts : \A b \in AttemptsOf(db, SlotOf(a)) :
    AttemptNo(b) > AttemptNo(a) /\ db.attempts[a].manifest # None
      => db.attempts[a].status \in {"INVALIDATED", "EXPIRED"}

\* The receiver orders generations by sequence only: written packages are numbered strictly
\* in slot order, in spite of overruns into the next slot, crashes and clock rollback.
GenerationsInSlotOrder ==
  \A a, b \in DOMAIN db.attempts :
    /\ db.attempts[a].manifest \in outbox /\ db.attempts[b].manifest \in outbox
    /\ SlotOf(a) < SlotOf(b)
    => SeqOf(db, a) < SeqOf(db, b)

\* What a process believes about its attempt is still true in the ledger: no other wake-up
\* recovers, supersedes, expires or closes the work of a process that is alive.
OwnerViewFresh ==
  \A p \in Procs :
    /\ pc[p] \in {"task", "compute", "export"} => db.attempts[me[p].at].status = "RUNNING"
    /\ pc[p] \in {"write", "mark"} => db.attempts[me[p].at].status = "EXPORTING"
    /\ pc[p] \in {"announce", "send", "await", "receipt"} => db.attempts[me[p].at].status = "EXPORTED"
    /\ pc[p] \in {"send", "await", "receipt"} => db.jobs[<<me[p].at, me[p].up>>].status = "running"

\* Delivery is sound: what counts as delivered was accepted, nothing is sent that is not
\* durable, an existing package is not recomputed, and uploads stay within their budget.
DeliverySound == DeliveredWasAccepted /\ SentIsDurable /\ PackageNotRecomputed /\ UploadBudget

\* A terminal slot is final: no run, replay, recovery or later session reopens it.
TerminalSlotsFinal ==
  [][\A s \in Slots : db.slots[s].status \in TERMINAL_SLOTS
                        => db'.slots[s].status = db.slots[s].status]_db

\* Every step of the dispatcher that touches the ledger is one of the ledger's own
\* transactions with arguments the ledger admits.
UsesLedger == LedgerSpec

\* Every slot that was ever planned reaches a terminal status once its session is over:
\* no mix of crashes, lost answers, deployments and clock rollback leaves one open.
SlotsSettle ==
  \A s \in Slots : Session(s) < Session(MaxTime) =>
    (db.slots[s].status # "ABSENT" ~> db.slots[s].status \in TERMINAL_SLOTS)

\* Every attempt that runs, exports or waits for delivery is eventually closed.
AttemptsClose ==
  \A a \in Slots \X (1..MaxAttempts) : Session(SlotOf(a)) < Session(MaxTime) =>
    (a \in AttemptsIn(db, Live) ~> a \in AttemptsIn(db, ClosedAttempts))

\* The run lock is always given back, so a later wake-up is never shut out for good.
LockReleased == lock # None ~> lock = None

\* Every slot and every attempt the dispatcher took up comes to an end and the run lock comes
\* free, after crashes, lost answers and a clock that was set back.
DispatchSettles == SlotsSettle /\ AttemptsClose /\ LockReleased
=============================================================================
