------------------------------ MODULE DataJobs ------------------------------
(***************************************************************************)
(* The workspace's data queue (backend/app/workspace/data_jobs.py), its    *)
(* worker processes (worker.py) and the API research tickets that run on   *)
(* it (ai_profiles.py).                                                    *)
(*                                                                         *)
(* A supervisor claims a job, starts a child process for it and watches it *)
(* until its deadline.  Either may die alone.  Jobs are numbered in the    *)
(* order of their creation.  "steps" jobs re-read their row before every   *)
(* task, "direct" jobs (factors, research_outlook) write their outcome     *)
(* without looking, "api" jobs make one paid model call for the research   *)
(* job they reserved.                                                      *)
(***************************************************************************)
EXTENDS Naturals, FiniteSets, FiniteSetsExt

CONSTANTS
  NDataJobs, Kinds, Workers, NoJob,
  MaxQueue,   \* open jobs (code: 10)
  Steps,      \* tasks of a "steps" job
  Deadline,   \* monitor_job's limit (code: 1800 s), in ticks
  Lease,      \* lease_until (code: 35 min), in ticks
  MaxRev,     \* bound: revisions of the AI profile
  MaxKills,   \* bound: supervisors and children that die
  LastTick    \* bound: last tick

DataIds == 1..NDataJobs

DataAssumption ==
  /\ {NDataJobs, MaxQueue, Steps, Deadline, MaxRev, LastTick} \subseteq Nat \ {0}
  /\ Lease \in Nat /\ Lease > Deadline /\ MaxKills \in Nat
  /\ Kinds \subseteq {"steps", "direct", "api"} /\ NoJob \notin Workers \cup DataIds

ASSUME DataAssumed == DataAssumption

VARIABLES
  clock,
  data,     \* rows: [status, kind, until, rev]
  child,    \* process of each job: [alive, sup, step, age]
  wk,       \* supervisor: the job it claimed, or NoJob
  res,      \* the research job API tickets run for: [status, lease, until, rev]
  rev,      \* revision of the AI profile; 0 when removed
  calls,    \* model calls of each ticket
  kills

dataVars == <<clock, data, child, wk, res, rev, calls, kills>>

NoRow == [status |-> "absent", kind |-> "steps", until |-> 0, rev |-> 0]
NoChild == [alive |-> FALSE, sup |-> NoJob, step |-> 0, age |-> 0]
Terminal == {"succeeded", "partial", "failed"}

DataInit ==
  /\ clock = 0 /\ data = [j \in DataIds |-> NoRow] /\ child = [j \in DataIds |-> NoChild]
  /\ wk = [w \in Workers |-> NoJob] /\ rev = 1 /\ kills = 0
  /\ res = [status |-> "queued", lease |-> NoJob, until |-> 0, rev |-> 0]
  /\ calls = [j \in DataIds |-> 0]

Open == {j \in DataIds : data[j].status \in {"queued", "running"}}
NextFree(j) == data[j] = NoRow /\ \A i \in 1..(j - 1) : data[i] # NoRow

-----------------------------------------------------------------------------
(* The owner.                                                               *)

\* data_jobs.enqueue and enqueue_chan_structures.
EnqueueData(j, kind) ==
  /\ NextFree(j) /\ kind # "api" /\ Cardinality(Open) < MaxQueue
  /\ data' = [data EXCEPT ![j] = [NoRow EXCEPT !.status = "queued", !.kind = kind]]
  /\ UNCHANGED <<clock, child, wk, res, rev, calls, kills>>

\* ai_profiles.enqueue: the research job is reserved under the ticket's id.
EnqueueTicket(j) ==
  /\ NextFree(j) /\ "api" \in Kinds /\ Cardinality(Open) < MaxQueue
  /\ rev # 0 /\ res.status = "queued"
  /\ data' = [data EXCEPT ![j] = [NoRow EXCEPT !.status = "queued", !.kind = "api", !.rev = rev]]
  /\ res' = [res EXCEPT !.status = "running", !.lease = j, !.until = clock + Lease]
  /\ UNCHANGED <<clock, child, wk, rev, calls, kills>>

\* ai_profiles.save and remove; a research job is retried, cancelled or swept by a device's claim.
SaveProfile ==
  /\ rev # 0 /\ rev < MaxRev /\ rev' = rev + 1
  /\ UNCHANGED <<clock, data, child, wk, res, calls, kills>>
RemoveProfile ==
  /\ "api" \in Kinds /\ rev # 0 /\ rev' = 0
  /\ UNCHANGED <<clock, data, child, wk, res, calls, kills>>
RetryResearch ==
  /\ res.status = "failed" /\ res' = [res EXCEPT !.status = "queued", !.lease = NoJob]
  /\ UNCHANGED <<clock, data, child, wk, rev, calls, kills>>
EndResearch ==
  /\ "api" \in Kinds /\ res.status \in {"queued", "running"}
  /\ res' = [res EXCEPT !.status = "failed"]
  /\ UNCHANGED <<clock, data, child, wk, rev, calls, kills>>

-----------------------------------------------------------------------------
(* The supervisor: run_once, monitor_job.                                   *)

ExpiredRows == {j \in DataIds : data[j].status = "running" /\ data[j].until < clock}
SweptRows == [j \in DataIds |-> IF j \in ExpiredRows THEN [data[j] EXCEPT !.status = "failed"] ELSE data[j]]
SweptTicket ==
  IF res.status = "running" /\ \E j \in ExpiredRows : data[j].kind = "api" /\ res.lease = j
  THEN [res EXCEPT !.status = "failed"] ELSE res

\* data_jobs.claim.
ClaimNext(w) ==
  LET queued == {j \in DataIds : SweptRows[j].status = "queued"}
      busy == \E j \in DataIds : SweptRows[j].status = "running"
  IN
  /\ wk[w] = NoJob /\ res' = SweptTicket
  /\ \/ (busy \/ queued = {}) /\ data # SweptRows /\ data' = SweptRows /\ UNCHANGED wk
     \/ /\ ~busy /\ queued # {}
        /\ data' = [SweptRows EXCEPT ![Min(queued)].status = "running",
                                     ![Min(queued)].until = clock + Lease]
        /\ wk' = [wk EXCEPT ![w] = Min(queued)]
  /\ UNCHANGED <<clock, child, rev, calls, kills>>

Spawn(w) ==
  /\ wk[w] # NoJob /\ child[wk[w]] = NoChild
  /\ child' = [child EXCEPT ![wk[w]] = [NoChild EXCEPT !.alive = TRUE, !.sup = w]]
  /\ UNCHANGED <<clock, data, wk, res, rev, calls, kills>>

\* Mutant: the child is left alone when the deadline passes.
ReapOnly(w) ==
  LET j == wk[w] IN
  /\ j # NoJob /\ child[j].sup = w /\ (~child[j].alive \/ child[j].age >= Deadline)
  /\ data' = IF data[j].status = "running" THEN [data EXCEPT ![j].status = "failed"] ELSE data
  /\ wk' = [wk EXCEPT ![w] = NoJob]
  /\ UNCHANGED <<clock, child, res, rev, calls, kills>>

\* monitor_job ends with the child, at the deadline or on SIGTERM; it stops the child before
\* run_once marks a job that is still running as failed.
Reap(w) ==
  LET j == wk[w] IN
  /\ j # NoJob /\ child[j].sup = w
  /\ child' = [child EXCEPT ![j].alive = FALSE]
  /\ data' = IF data[j].status = "running" THEN [data EXCEPT ![j].status = "failed"] ELSE data
  /\ wk' = [wk EXCEPT ![w] = NoJob]
  /\ UNCHANGED <<clock, res, rev, calls, kills>>

\* The supervisor dies; its child goes on without one.
KillSupervisor(w) ==
  /\ wk[w] # NoJob /\ kills < MaxKills /\ kills' = kills + 1
  /\ child' = [j \in DataIds |-> IF child[j].sup = w THEN [child[j] EXCEPT !.sup = NoJob] ELSE child[j]]
  /\ wk' = [wk EXCEPT ![w] = NoJob]
  /\ UNCHANGED <<clock, data, res, rev, calls>>

KillChild(j) ==
  /\ child[j].alive /\ kills < MaxKills /\ kills' = kills + 1
  /\ child' = [child EXCEPT ![j].alive = FALSE]
  /\ UNCHANGED <<clock, data, wk, res, rev, calls>>

-----------------------------------------------------------------------------
(* The child: execute, execute_ticket.                                      *)

Exit(j) == child' = [child EXCEPT ![j].alive = FALSE]
Proceed(j) == child' = [child EXCEPT ![j].step = @ + 1]

\* execute: the row is read at the start and before every task; a job no longer running ends.
Step(j) ==
  /\ child[j].alive /\ data[j].kind # "api" /\ child[j].step < Steps
  /\ IF data[j].status = "running" \/ (data[j].kind = "direct" /\ child[j].step > 0)
     THEN Proceed(j) ELSE Exit(j)
  /\ UNCHANGED <<clock, data, wk, res, rev, calls, kills>>

\* Mutant: the final status is written without looking at the row.
FinishBlind(j) ==
  /\ child[j].alive /\ data[j].kind # "api" /\ child[j].step = Steps
  /\ \E s \in Terminal : data' = [data EXCEPT ![j].status = s]
  /\ Exit(j) /\ UNCHANGED <<clock, wk, res, rev, calls, kills>>

Finish(j) ==
  /\ child[j].alive /\ data[j].kind # "api" /\ child[j].step = Steps
  /\ \E s \in Terminal :
       data' = IF data[j].status = "running" \/ data[j].kind = "direct"
              THEN [data EXCEPT ![j].status = s] ELSE data
  /\ Exit(j) /\ UNCHANGED <<clock, wk, res, rev, calls, kills>>

\* The failure path of execute_ticket.
FailTicket(j) ==
  /\ data' = IF data[j].status = "running" THEN [data EXCEPT ![j].status = "failed"] ELSE data
  /\ res' = IF res.status = "running" /\ res.lease = j THEN [res EXCEPT !.status = "failed"] ELSE res
  /\ Exit(j)

\* Before the call: profile, revision and reservation as the ticket found them.
CheckTicket(j) ==
  /\ child[j].alive /\ data[j].kind = "api" /\ child[j].step = 0
  /\ \/ data[j].status # "running" /\ Exit(j) /\ UNCHANGED <<data, res>>
     \/ /\ data[j].status = "running"
        /\ IF rev = data[j].rev /\ res.status = "running" /\ res.lease = j /\ res.until > clock
           THEN Proceed(j) /\ UNCHANGED <<data, res>> ELSE FailTicket(j)
  /\ UNCHANGED <<clock, wk, rev, calls, kills>>

\* completion: one request, never repeated; a usable answer or none.
CallModel(j) ==
  /\ child[j].alive /\ data[j].kind = "api" /\ child[j].step = 1
  /\ calls' = [calls EXCEPT ![j] = @ + 1]
  /\ \/ Proceed(j) /\ UNCHANGED <<data, res>>
     \/ FailTicket(j)
  /\ UNCHANGED <<clock, wk, rev, kills>>

\* After the call: everything is checked again, with accept_result's lease check, in the
\* transaction that completes both rows.
CommitTicket(j) ==
  /\ child[j].alive /\ data[j].kind = "api" /\ child[j].step = 2
  /\ IF /\ rev = data[j].rev /\ data[j].status = "running"
        /\ res.status = "running" /\ res.lease = j /\ res.until > clock
     THEN /\ data' = [data EXCEPT ![j].status = "succeeded"]
          /\ res' = [res EXCEPT !.status = "completed", !.rev = rev]
          /\ Exit(j)
     ELSE FailTicket(j)
  /\ UNCHANGED <<clock, wk, rev, calls, kills>>

\* The supervisor polls every second, so a tick never passes over a deadline or a
\* child's end it watches.
ClockTick ==
  /\ clock < LastTick /\ clock' = clock + 1
  /\ \A w \in Workers : wk[w] # NoJob => child[wk[w]].alive /\ child[wk[w]].age < Deadline
  /\ child' = [j \in DataIds |-> IF child[j].alive THEN [child[j] EXCEPT !.age = @ + 1] ELSE child[j]]
  /\ UNCHANGED <<data, wk, res, rev, calls, kills>>

Child(j) == Step(j) \/ Finish(j) \/ CheckTicket(j) \/ CallModel(j) \/ CommitTicket(j)
Supervisor(w) == ClaimNext(w) \/ Spawn(w) \/ Reap(w)

DataNext ==
  \/ ClockTick \/ SaveProfile \/ RemoveProfile \/ RetryResearch \/ EndResearch
  \/ \E w \in Workers : Supervisor(w) \/ KillSupervisor(w)
  \/ \E j \in DataIds : Child(j) \/ KillChild(j) \/ EnqueueTicket(j) \/ \E k \in Kinds : EnqueueData(j, k)

DataSpec == DataInit /\ [][DataNext]_dataVars

-----------------------------------------------------------------------------
Row == [status : {"absent", "queued", "running"} \cup Terminal, kind : Kinds \cup {"steps"},
        until : 0..(LastTick + Lease), rev : 0..MaxRev]
Process == [alive : BOOLEAN, sup : Workers \cup {NoJob}, step : 0..(Steps + 2), age : 0..LastTick]
Ticket == [status : {"queued", "running", "completed", "failed"}, lease : DataIds \cup {NoJob},
           until : 0..(LastTick + Lease), rev : 0..MaxRev]

\* Every variable stays in its domain.
DataTypeOK ==
  /\ clock \in 0..LastTick /\ kills \in 0..MaxKills /\ rev \in 0..MaxRev
  /\ data \in [DataIds -> Row] /\ child \in [DataIds -> Process]
  /\ wk \in [Workers -> DataIds \cup {NoJob}] /\ calls \in [DataIds -> Nat] /\ res \in Ticket

\* Two supervisors, restarts and expired leases: the queue never has two running jobs.
OneRunning == Cardinality({j \in DataIds : data[j].status = "running"}) <= 1

\* Only a child that lost its supervisor may overlap with another one: a supervisor always
\* stops its child before the next job can start.
OverlapOnlyOrphans ==
  \A i, j \in DataIds :
    i # j /\ child[i].alive /\ child[j].alive => child[i].sup = NoJob \/ child[j].sup = NoJob

\* The lease outlives the deadline, so no other worker declares a supervised job dead.
NeverExpiredUnderSupervision ==
  \A w \in Workers : wk[w] # NoJob => data[wk[w]].status # "absent" /\ wk[w] \notin ExpiredRows

\* One job at a time, under one supervisor, unless a supervisor was killed.
WorkersApart == OneRunning /\ OverlapOnlyOrphans /\ NeverExpiredUnderSupervision

\* A ticket makes at most one paid call, and a result is accepted only with the profile
\* revision the ticket was created under, whatever changes during the call.
PaidOnceAndCurrent ==
  /\ \A j \in DataIds : calls[j] <= 1
  /\ res.status = "completed" => res.rev = data[res.lease].rev /\ data[res.lease].status = "succeeded"

\* The queue of the workspace worker in one.
JobsRunOnce == WorkersApart /\ PaidOnceAndCurrent

\* A job that ended keeps its outcome: a child that was declared dead and still runs cannot
\* turn it into another one (jobs that re-read their row, and tickets).
OutcomeFinal ==
  [][\A j \in DataIds : data[j].status \in Terminal /\ data[j].kind # "direct"
       => data'[j].status = data[j].status]_dataVars

\* "A child process has a hard deadline": no child is older than the deadline.
ChildDeadline == \A j \in DataIds : child[j].alive => child[j].age <= Deadline
=============================================================================
