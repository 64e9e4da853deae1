------------------------------ MODULE TaskRuns ------------------------------
(***************************************************************************)
(* The server's decision-board runs: TaskService.run with its pipeline     *)
(* lock and failure recovery (backend/app/services/task_service.py), the   *)
(* board requests an API call queues (decision_board_service.py), and the  *)
(* slot claims of the scheduler daemon (backend/app/scheduler.py).         *)
(*                                                                         *)
(* A session's writes are invisible until it commits: the row of a run in  *)
(* progress and an uncommitted slot claim exist only in the session (ses). *)
(* The pipeline lock ends with the transaction.  A run that raises is      *)
(* rolled back, and a second session then writes its failure.              *)
(***************************************************************************)
EXTENDS Naturals, FiniteSets

CONSTANTS
  NRuns,       \* bound: run ids
  Scheduler, Worker, NoRun,
  NSlots,      \* decision slots of the day
  MaxFails,    \* bound: runs that raise or end without success
  MaxCrashes   \* bound: processes that die

Runs == 1..NRuns
Slots == 1..NSlots
Sessions == {Scheduler, Worker}

RunsAssumption ==
  /\ {NRuns, NSlots} \subseteq Nat \ {0} /\ {MaxFails, MaxCrashes} \subseteq Nat
  /\ Scheduler # Worker /\ NoRun \notin Sessions \cup Runs \cup Slots

ASSUME RunsAssumed == RunsAssumption

VARIABLES
  row,      \* committed task_runs rows of refresh_decision_board
  claimed,  \* committed decision_board_slot_runs
  lock,     \* session that holds the pipeline lock
  ses,      \* [pc, want, run, fresh, slot] of each session
  due,      \* slot whose grace window is open, or NoRun
  built,    \* successful boards of each slot
  ended,    \* times a run id was committed with an outcome
  raised,   \* run ids whose execution raised
  fails, crashes

runVars == <<row, claimed, lock, ses, due, built, ended, raised, fails, crashes>>

IdleSession == [pc |-> "idle", want |-> NoRun, run |-> NoRun, fresh |-> FALSE, slot |-> NoRun]

RunsInit ==
  /\ row = [r \in Runs |-> "absent"] /\ claimed = {} /\ lock = NoRun
  /\ ses = [s \in Sessions |-> IdleSession] /\ due = NoRun
  /\ built = [k \in Slots |-> 0] /\ ended = [r \in Runs |-> 0] /\ raised = {}
  /\ fails = 0 /\ crashes = 0

QueuedRuns == {r \in Runs : row[r] = "queued"}
FreshId == CHOOSE r \in Runs : row[r] = "absent" /\ \A s \in Sessions : ses[s].run # r
HasFreshId == \E r \in Runs : row[r] = "absent" /\ \A s \in Sessions : ses[s].run # r
\* Rows a session inserted and has not committed; the unique index makes a second insert wait.
Inserting == {s \in Sessions : ses[s].pc = "running" /\ ses[s].fresh}

\* enqueue_refresh: refused while a request is queued.
EnqueueRefresh ==
  /\ QueuedRuns = {} /\ Inserting = {} /\ HasFreshId
  /\ row' = [row EXCEPT ![FreshId] = "queued"]
  /\ UNCHANGED <<claimed, lock, ses, due, built, ended, raised, fails, crashes>>

\* The wall clock opens the window of the next slot; its grace ends the one before.
NextSlot ==
  /\ due # NSlots /\ due' = IF due = NoRun THEN 1 ELSE due + 1
  /\ UNCHANGED <<row, claimed, lock, ses, built, ended, raised, fails, crashes>>

-----------------------------------------------------------------------------
(* Starting a run.                                                          *)

\* _tick_impl: the queued request is read first, the slot is claimed without a commit.
TickImpl ==
  LET want == IF QueuedRuns = {} THEN NoRun ELSE CHOOSE r \in QueuedRuns : TRUE
      slot == IF due # NoRun /\ due \notin claimed THEN due ELSE NoRun
  IN
  /\ ses[Scheduler] = IdleSession /\ (want # NoRun \/ slot # NoRun)
  /\ ses' = [ses EXCEPT ![Scheduler] = [IdleSession EXCEPT !.pc = "starting", !.want = want, !.slot = slot]]
  /\ UNCHANGED <<row, claimed, lock, due, built, ended, raised, fails, crashes>>

\* A workspace job or an API call runs the task without a request of its own.
WorkerStart ==
  /\ ses[Worker] = IdleSession
  /\ ses' = [ses EXCEPT ![Worker].pc = "starting"]
  /\ UNCHANGED <<row, claimed, lock, due, built, ended, raised, fails, crashes>>

\* TaskBusyError: the scheduler deletes its uncommitted claim.
Busy(s) == ses' = [ses EXCEPT ![s] = IdleSession] /\ UNCHANGED lock

\* Mutant: the request that was read is executed whatever became of it.
BeginStale(s) ==
  LET run == IF ses[s].want # NoRun THEN ses[s].want
             ELSE IF QueuedRuns # {} THEN CHOOSE r \in QueuedRuns : TRUE ELSE FreshId
  IN
  /\ ses[s].pc = "starting" /\ lock = NoRun /\ (ses[s].want # NoRun \/ QueuedRuns # {} \/ HasFreshId)
  /\ lock' = s /\ ses' = [ses EXCEPT ![s] = [@ EXCEPT !.pc = "running", !.run = run, !.fresh = row[run] = "absent"]]
  /\ UNCHANGED <<row, claimed, due, built, ended, raised, fails, crashes>>

\* run: under the lock, the request is adopted while it is still queued; a stale request id is
\* a duplicate key, after which another queued request is adopted or the caller is told to wait.
Begin(s) ==
  /\ ses[s].pc = "starting"
  /\ \/ lock # NoRun /\ Busy(s)
     \/ /\ lock = NoRun /\ QueuedRuns # {}
        /\ lock' = s
        /\ \E r \in QueuedRuns : ses' = [ses EXCEPT ![s] = [@ EXCEPT !.pc = "running", !.run = r]]
     \/ lock = NoRun /\ QueuedRuns = {} /\ ses[s].want # NoRun /\ Busy(s)
     \/ /\ lock = NoRun /\ QueuedRuns = {} /\ ses[s].want = NoRun /\ HasFreshId
        /\ lock' = s
        /\ ses' = [ses EXCEPT ![s] = [@ EXCEPT !.pc = "running", !.run = FreshId, !.fresh = TRUE]]
  /\ UNCHANGED <<row, claimed, due, built, ended, raised, fails, crashes>>

-----------------------------------------------------------------------------
(* Ending a run.                                                            *)

CommitRun(s, status) ==
  /\ row' = [row EXCEPT ![ses[s].run] = status]
  /\ ended' = [ended EXCEPT ![ses[s].run] = @ + 1]
  /\ claimed' = IF ses[s].slot = NoRun THEN claimed ELSE claimed \cup {ses[s].slot}
  /\ lock' = NoRun

Succeed(s) ==
  /\ ses[s].pc = "running" /\ CommitRun(s, "succeeded")
  /\ ses' = [ses EXCEPT ![s] = IdleSession]
  /\ built' = IF ses[s].slot = NoRun THEN built ELSE [built EXCEPT ![ses[s].slot] = @ + 1]
  /\ UNCHANGED <<due, raised, fails, crashes>>

\* A result without success is committed with the claim; the claim is released afterwards.
EndPartial(s) ==
  /\ ses[s].pc = "running" /\ fails < MaxFails /\ fails' = fails + 1
  /\ \E status \in {"partial", "failed"} : CommitRun(s, status)
  /\ ses' = [ses EXCEPT ![s] =
       IF ses[s].slot = NoRun THEN IdleSession
       ELSE [IdleSession EXCEPT !.pc = "releasing", !.slot = ses[s].slot]]
  /\ UNCHANGED <<due, built, raised, crashes>>

ReleaseSlot(s) ==
  /\ ses[s].pc = "releasing" /\ claimed' = claimed \ {ses[s].slot}
  /\ ses' = [ses EXCEPT ![s] = IdleSession]
  /\ UNCHANGED <<row, lock, due, built, ended, raised, fails, crashes>>

\* An exception: the transaction is rolled back, with the lock, the row and the claim.
Raise(s) ==
  /\ ses[s].pc = "running" /\ fails < MaxFails /\ fails' = fails + 1
  /\ lock' = NoRun /\ raised' = raised \cup {ses[s].run}
  /\ ses' = [ses EXCEPT ![s] = [@ EXCEPT !.pc = "recovering", !.slot = NoRun]]
  /\ UNCHANGED <<row, claimed, due, built, ended, crashes>>

\* _persist_failed_run inserts the row again; run_id is unique, so a row that is still there
\* makes the insert fail and the audit is dropped.
Recover(s) ==
  /\ ses[s].pc = "recovering"
  /\ row' = IF row[ses[s].run] = "absent" THEN [row EXCEPT ![ses[s].run] = "failed"] ELSE row
  /\ ses' = [ses EXCEPT ![s] = IdleSession]
  /\ UNCHANGED <<claimed, lock, due, built, ended, raised, fails, crashes>>

\* The process dies; the database rolls its transaction back.
SessionDies(s) ==
  /\ ses[s] # IdleSession /\ crashes < MaxCrashes /\ crashes' = crashes + 1
  /\ ses' = [ses EXCEPT ![s] = IdleSession] /\ lock' = IF lock = s THEN NoRun ELSE lock
  /\ UNCHANGED <<row, claimed, due, built, ended, raised, fails>>

Progress(s) == Begin(s) \/ Succeed(s) \/ EndPartial(s) \/ ReleaseSlot(s) \/ Raise(s) \/ Recover(s)

RunsNext ==
  \/ EnqueueRefresh \/ NextSlot \/ TickImpl \/ WorkerStart
  \/ \E s \in Sessions : Progress(s) \/ SessionDies(s)

RunsSpec == RunsInit /\ [][RunsNext]_runVars

\* The daemon ticks for ever, and a run that was started ends (its providers have timeouts).
FairRunsSpec == RunsSpec /\ WF_runVars(TickImpl) /\ \A s \in Sessions : WF_runVars(Progress(s))

-----------------------------------------------------------------------------
\* Every variable stays in its domain.
RunsTypeOK ==
  /\ row \in [Runs -> {"absent", "queued", "succeeded", "partial", "failed"}]
  /\ claimed \subseteq Slots /\ lock \in Sessions \cup {NoRun} /\ due \in Slots \cup {NoRun}
  /\ ses \in [Sessions -> [pc : {"idle", "starting", "running", "releasing", "recovering"},
                           want : Runs \cup {NoRun}, run : Runs \cup {NoRun}, fresh : BOOLEAN,
                           slot : Slots \cup {NoRun}]]
  /\ \A s \in Sessions : ses[s].pc = "running" => lock = s

\* A slot gets one successful board, across ticks, retries inside its window and restarts.
OneBoardPerSlot == \A k \in Slots : built[k] <= 1

\* A request is carried out once: reading it before the lock and adopting it under the lock
\* by another session never commit two outcomes for one run id.
RunEndsOnce == \A r \in Runs : ended[r] <= 1

\* Slots that are used up without a board and that nobody is about to release.
Unserved == {k \in claimed : built[k] = 0 /\ \A s \in Sessions : ses[s].pc = "releasing" => ses[s].slot # k}

\* A committed claim is backed by a board or about to be released: a run that produced nothing
\* uses up no slot.  A process that dies between the commit of a claim and its release costs
\* the slot it held, and no other.
ClaimBacked == Cardinality(Unserved) <= crashes

\* Board refreshes: a slot and a request are each carried out once, and a claim is backed.
SlotsServedOnce == OneBoardPerSlot /\ RunEndsOnce /\ ClaimBacked

\* A queued refresh is eventually carried out, although the scheduler and a worker compete for
\* it, runs fail and processes die (boundedly often).
QueuedIsServed == \A r \in Runs : row[r] = "queued" ~> row[r] # "queued"

\* "The original TaskRun is intentionally recreated in a separate Session so the audit survives
\* that rollback": once recovery is over, a run that raised is recorded as failed.
FailureAudited ==
  \A r \in raised : row[r] # "queued" \/ \E s \in Sessions : ses[s].run = r
=============================================================================
