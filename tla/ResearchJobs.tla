---------------------------- MODULE ResearchJobs ----------------------------
(***************************************************************************)
(* Research jobs of one owner (backend/app/workspace/jobs.py, the routes   *)
(* of actions_api.py and bridge_api.py) and the desktop bridges that run   *)
(* them (bridge/etf_agent_bridge.py).                                      *)
(*                                                                         *)
(* A handler is one transaction that holds the rows it reads, so it is one *)
(* step.  A bridge is a process that dies at any step; what it keeps is in *)
(* files: claim.json (marker), jobs/<id>/lease.json (folder), the attempt  *)
(* file and result.json (output).  A signed request may be handled after   *)
(* its sender gave up, or never, and its nonce lets it be handled only     *)
(* once.  A result is named after who produced it.                         *)
(***************************************************************************)
EXTENDS Naturals, FiniteSets, FiniteSetsExt

CONSTANTS
  NJobs,        \* bound: jobs ever created (code: daily_job_budget)
  Devices, NoDevice, Manual,
  MaxDevices,   \* paired or pairing devices of an owner (code: 5)
  MaxActive,    \* max_active_jobs
  MaxAttempts,  \* claims of one job (code: 3)
  LeaseLen,     \* job_lease_minutes, in ticks
  TTL,          \* job_ttl_hours, in ticks
  MaxClaims,    \* bound: claim ids ever drawn
  MaxFaults,    \* bound: crashes and requests given up
  Horizon       \* bound: last tick

Jobs == 1..NJobs

ResearchAssumption ==
  /\ {NJobs, MaxDevices, MaxActive, MaxAttempts, LeaseLen, TTL, MaxClaims, Horizon} \subseteq Nat \ {0}
  /\ MaxFaults \in Nat /\ Manual \notin Devices /\ NoDevice \notin Devices \cup {Manual}

ASSUME ResearchAssumed == ResearchAssumption

VARIABLES
  now, job, dev,   \* the server: clock, jobs, status of each device
  reqs,            \* requests on their way
  marker,          \* claim.json of each bridge: a claim id, or 0
  folder,          \* lease id in jobs/<j>/lease.json, or 0
  attempt,         \* jobs with an execution-attempt.json
  output,          \* result.json: none, valid or invalid
  pc,              \* what the bridge's process is doing
  drawn, ran,      \* claim ids drawn; <<d, j>> -> model calls
  faults

server == <<now, job, dev>>
files == <<marker, folder, attempt, output>>
researchVars == <<now, job, dev, reqs, marker, folder, attempt, output, pc, drawn, ran, faults>>

Absent == [status |-> "absent", dev |-> NoDevice, lease |-> 0, until |-> 0, attempts |-> 0,
           result |-> NoDevice, review |-> "pending", exp |-> 0]
Idle == [op |-> "idle", job |-> 0, reason |-> NoDevice]

ResearchInit ==
  /\ now = 0 /\ job = [j \in Jobs |-> Absent] /\ dev = [d \in Devices |-> "absent"]
  /\ reqs = {} /\ marker = [d \in Devices |-> 0]
  /\ folder = [d \in Devices |-> [j \in Jobs |-> 0]]
  /\ attempt = [d \in Devices |-> {}]
  /\ output = [d \in Devices |-> [j \in Jobs |-> "none"]]
  /\ pc = [d \in Devices |-> Idle] /\ drawn = 0 /\ faults = 0
  /\ ran = [x \in Devices \X Jobs |-> 0]

Active == {j \in Jobs : job[j].status \in {"queued", "running"} /\ job[j].exp > now}
Running(d) == {j \in Jobs : job[j].status = "running" /\ job[j].dev = d}
Live(j) == job[j].status = "running" /\ job[j].until > now

-----------------------------------------------------------------------------
(* The owner: routes of actions_api.py.                                     *)

Enqueue ==
  \E j \in Jobs :
    /\ job[j] = Absent /\ \A i \in 1..(j - 1) : job[i] # Absent
    /\ Cardinality(Active) < MaxActive
    /\ job' = [job EXCEPT ![j] = [Absent EXCEPT !.status = "queued", !.exp = now + TTL]]
    /\ UNCHANGED <<now, dev, reqs, files, pc, drawn, ran, faults>>

\* Mutant: a job is cancelled whatever became of it.
CancelAny(j) ==
  /\ job[j] # Absent
  /\ job' = [job EXCEPT ![j].status = "cancelled"]
  /\ UNCHANGED <<now, dev, reqs, files, pc, drawn, ran, faults>>

Cancel(j) ==
  /\ job[j].status \in {"queued", "running"}
  /\ job' = [job EXCEPT ![j].status = "cancelled"]
  /\ UNCHANGED <<now, dev, reqs, files, pc, drawn, ran, faults>>

Retry(j) ==
  /\ job[j].status \in {"failed", "cancelled"} /\ job[j].result = NoDevice
  /\ job[j].exp > now /\ job[j].attempts < MaxAttempts
  /\ Cardinality(Active) < MaxActive
  /\ job' = [job EXCEPT ![j].status = "queued", ![j].dev = NoDevice, ![j].lease = 0, ![j].until = 0]
  /\ UNCHANGED <<now, dev, reqs, files, pc, drawn, ran, faults>>

Review(j) ==
  /\ job[j].status = "completed" /\ job[j].review = "pending"
  /\ \E decision \in {"accepted", "rejected"} : job' = [job EXCEPT ![j].review = decision]
  /\ UNCHANGED <<now, dev, reqs, files, pc, drawn, ran, faults>>

\* accept_result without a device: only a queued job takes a hand-made result.
ImportResult(j) ==
  /\ job[j].status = "queued" /\ job[j].exp > now
  /\ job' = [job EXCEPT ![j].status = "completed", ![j].result = Manual]
  /\ UNCHANGED <<now, dev, reqs, files, pc, drawn, ran, faults>>

NewPairing(d) ==
  /\ dev[d] = "absent"
  /\ Cardinality({x \in Devices : dev[x] \in {"active", "pending"}}) < MaxDevices
  /\ dev' = [dev EXCEPT ![d] = "pending"]
  /\ UNCHANGED <<now, job, reqs, files, pc, drawn, ran, faults>>

Pair(d) ==
  /\ dev[d] = "pending" /\ dev' = [dev EXCEPT ![d] = "active"]
  /\ UNCHANGED <<now, job, reqs, files, pc, drawn, ran, faults>>

\* Mutant: the device's running job is left alone.
RevokeOnly(d) ==
  /\ dev[d] \in {"pending", "active"} /\ dev' = [dev EXCEPT ![d] = "revoked"]
  /\ UNCHANGED <<now, job, reqs, files, pc, drawn, ran, faults>>

Revoke(d) ==
  /\ dev[d] \in {"pending", "active"} /\ dev' = [dev EXCEPT ![d] = "revoked"]
  /\ job' = [j \in Jobs |-> IF j \in Running(d) THEN [job[j] EXCEPT !.status = "failed"] ELSE job[j]]
  /\ UNCHANGED <<now, reqs, files, pc, drawn, ran, faults>>

-----------------------------------------------------------------------------
(* The bridge.  Every request leaves with a file that names it already      *)
(* written; the answer is taken in the step that handles the request, if    *)
(* the sender still waits for it.                                           *)

Request(kind, d, j, lease) == [kind |-> kind, dev |-> d, job |-> j, lease |-> lease, reason |-> NoDevice]
Waits(m) == pc[m.dev].op = m.kind /\ pc[m.dev].job = m.job

\* claim: claim.json is written before the request is sent, and reused while it exists.
SendClaim(d) ==
  /\ pc[d] = Idle /\ dev[d] # "absent"
  /\ marker[d] = 0 => drawn < MaxClaims
  /\ LET id == IF marker[d] = 0 THEN drawn + 1 ELSE marker[d] IN
     /\ drawn' = IF marker[d] = 0 THEN drawn + 1 ELSE drawn
     /\ marker' = [marker EXCEPT ![d] = id]
     /\ reqs' = reqs \cup {Request("claim", d, 0, id)}
  /\ pc' = [pc EXCEPT ![d].op = "claim"]
  /\ UNCHANGED <<server, folder, attempt, output, ran, faults>>

\* remote_status: the job as leased_job finds it for this device.
Leased(d, j) == job[j].dev = d /\ dev[d] = "active"

\* execute_job: a retained result is not produced again, and an attempt without one is given up.
Execute(d, j) ==
  /\ pc[d] = Idle /\ folder[d][j] # 0 /\ Leased(d, j)
  /\ job[j].status = "running" /\ job[j].exp >= now
  /\ \/ /\ output[d][j] = "none" /\ j \notin attempt[d]
        /\ attempt' = [attempt EXCEPT ![d] = @ \cup {j}]
        /\ pc' = [pc EXCEPT ![d] = [Idle EXCEPT !.job = j, !.op = "model"]]
     \/ /\ output[d][j] = "none" /\ j \in attempt[d]
        /\ pc' = [pc EXCEPT ![d] = [op |-> "report", job |-> j, reason |-> "runner_failed"]]
        /\ UNCHANGED attempt
     \/ /\ output[d][j] # "none"
        /\ pc' = [pc EXCEPT ![d] = IF output[d][j] = "valid"
                                   THEN [Idle EXCEPT !.job = j, !.op = "send"]
                                   ELSE [op |-> "report", job |-> j, reason |-> "invalid_result"]]
        /\ UNCHANGED attempt
  /\ UNCHANGED <<server, reqs, marker, folder, output, drawn, ran, faults>>

\* codex_once: one model call, which leaves a valid result, an invalid one or none.
RunModel(d) ==
  LET j == pc[d].job IN
  /\ pc[d].op = "model" /\ ran' = [ran EXCEPT ![<<d, j>>] = @ + 1]
  /\ \E out \in {"none", "valid", "invalid"} :
       /\ output' = [output EXCEPT ![d][j] = out]
       /\ pc' = [pc EXCEPT ![d] =
            CASE out = "valid" -> [Idle EXCEPT !.job = j, !.op = "send"]
              [] out = "invalid" -> [op |-> "report", job |-> j, reason |-> "invalid_result"]
              [] out = "none" -> [op |-> "report", job |-> j, reason |-> "timeout"]]
  /\ UNCHANGED <<server, reqs, marker, folder, attempt, drawn, faults>>

\* report_failure and submit: the lease is the one in the job's folder.
SendReport(d) ==
  LET j == pc[d].job IN
  /\ pc[d].op = "report"
  /\ reqs' = reqs \cup {[Request("failure", d, j, folder[d][j]) EXCEPT !.reason = pc[d].reason]}
  /\ pc' = [pc EXCEPT ![d].op = "failure"]
  /\ UNCHANGED <<server, files, drawn, ran, faults>>

SendResult(d) ==
  \E j \in Jobs :
    /\ \/ pc[d].op = "send" /\ pc[d].job = j
       \/ pc[d] = Idle /\ folder[d][j] # 0
    /\ output[d][j] = "valid"
    /\ reqs' = reqs \cup {Request("result", d, j, folder[d][j])}
    /\ pc' = [pc EXCEPT ![d] = [Idle EXCEPT !.op = "result", !.job = j]]
    /\ UNCHANGED <<server, files, drawn, ran, faults>>

\* release_closed_claim: only for a job this bridge has a folder for.
Release(d, j) ==
  /\ pc[d] = Idle /\ folder[d][j] # 0 /\ Leased(d, j)
  /\ job[j].status \in {"completed", "failed", "cancelled"} \/ job[j].exp < now
  /\ marker[d] # 0 /\ marker[d] = folder[d][j]
  /\ marker' = [marker EXCEPT ![d] = 0]
  /\ UNCHANGED <<server, reqs, folder, attempt, output, pc, drawn, ran, faults>>

\* The process dies, or its request times out; the request may still be handled.
GiveUp(d) ==
  /\ pc[d] # Idle /\ faults < MaxFaults /\ faults' = faults + 1
  /\ pc' = [pc EXCEPT ![d] = Idle]
  /\ UNCHANGED <<server, reqs, files, drawn, ran>>

-----------------------------------------------------------------------------
(* The device's routes: bridge_api.py.                                      *)

Answered(m) == pc' = IF Waits(m) THEN [pc EXCEPT ![m.dev] = Idle] ELSE pc
Unlink(m) == marker' = IF Waits(m) THEN [marker EXCEPT ![m.dev] = 0] ELSE marker

Refuse(m) ==
  /\ Answered(m) /\ UNCHANGED <<job, marker, folder>>

Stale == {j \in Jobs : job[j].status = "running" /\ job[j].until < now}
Swept == [j \in Jobs |-> IF j \in Stale THEN [job[j] EXCEPT !.status = "failed"] ELSE job[j]]
Queued == {j \in Jobs : job[j].status = "queued" /\ job[j].exp > now}

Lend(m, j, base) ==
  /\ job' = [base EXCEPT ![j].status = "running", ![j].dev = m.dev, ![j].lease = m.lease,
                         ![j].until = now + LeaseLen, ![j].attempts = @ + 1]
  /\ folder' = IF Waits(m) THEN [folder EXCEPT ![m.dev][j] = m.lease] ELSE folder
  /\ UNCHANGED marker

\* claim: the same claim id gets the same lease again until it is closed.
Claim(m) ==
  LET mine == {j \in Jobs : job[j].dev = m.dev /\ job[j].lease = m.lease}
      busy == Running(m.dev) \ Stale # {}
  IN
  \/ /\ mine # {} /\ \A j \in mine : ~Live(j)
     /\ Refuse(m)
  \/ \E j \in mine :
       /\ Live(j) /\ UNCHANGED <<job, marker>>
       /\ folder' = IF Waits(m) THEN [folder EXCEPT ![m.dev][j] = m.lease] ELSE folder
       /\ Answered(m)
  \/ mine = {} /\ busy /\ Refuse(m)
  \/ mine = {} /\ ~busy /\ Queued = {} /\ job' = Swept /\ Unlink(m) /\ UNCHANGED folder /\ Answered(m)
  \/ mine = {} /\ ~busy /\ Queued # {} /\ Lend(m, Min(Queued), Swept) /\ Answered(m)

\* result, accept_result: idempotent for the accepted result, else under a live lease only.
Result(m) ==
  LET j == m.job
      held == job[j].dev = m.dev /\ job[j].lease = m.lease
      same == job[j].status = "completed" /\ job[j].result = m.dev
      ok == job[j].result = NoDevice /\ job[j].exp > now /\ Live(j)
  IN
  \/ ~(held /\ (same \/ ok)) /\ Refuse(m)
  \/ held /\ same /\ UNCHANGED <<job, folder>> /\ Unlink(m) /\ Answered(m)
  \/ /\ held /\ ok /\ ~same /\ UNCHANGED folder /\ Unlink(m) /\ Answered(m)
     /\ job' = [job EXCEPT ![j].status = "completed", ![j].result = m.dev]

\* The reasons the request model admits.
DeviceFailureReasons ==
  {"runner_unavailable", "login_required", "timeout", "budget_exceeded", "invalid_output",
   "runner_failed", "interrupted"}

Failure(m) ==
  LET j == m.job
      ok == /\ m.reason \in DeviceFailureReasons
            /\ job[j].dev = m.dev /\ job[j].lease = m.lease
            /\ job[j].status \in {"running", "failed"}
  IN
  \/ ~ok /\ Refuse(m)
  \/ /\ ok /\ job' = [job EXCEPT ![j].status = "failed"]
     /\ UNCHANGED folder /\ Unlink(m) /\ Answered(m)

\* require_device, then the route.
Handle(m) ==
  /\ reqs' = reqs \ {m}
  /\ \/ dev[m.dev] # "active" /\ Refuse(m)
     \/ /\ dev[m.dev] = "active"
        /\ \/ m.kind = "claim" /\ Claim(m)
           \/ m.kind = "result" /\ Result(m)
           \/ m.kind = "failure" /\ Failure(m)
  /\ UNCHANGED <<now, dev, attempt, output, drawn, ran, faults>>

ResearchTick ==
  /\ now < Horizon /\ now' = now + 1
  /\ UNCHANGED <<job, dev, reqs, files, pc, drawn, ran, faults>>

ResearchNext ==
  \/ Enqueue \/ ResearchTick
  \/ \E j \in Jobs : Cancel(j) \/ Retry(j) \/ Review(j) \/ ImportResult(j)
  \/ \E d \in Devices :
       \/ NewPairing(d) \/ Pair(d) \/ Revoke(d) \/ SendClaim(d) \/ RunModel(d)
       \/ SendReport(d) \/ SendResult(d) \/ GiveUp(d)
       \/ \E j \in Jobs : Execute(d, j) \/ Release(d, j)
  \/ \E m \in reqs : Handle(m)

ResearchSpec == ResearchInit /\ [][ResearchNext]_researchVars

-----------------------------------------------------------------------------
Ids == 0..MaxClaims
Reasons == {NoDevice, "timeout", "runner_failed", "invalid_result"}
ResearchJob ==
  [status : {"absent", "queued", "running", "completed", "failed", "cancelled"},
   dev : Devices \cup {NoDevice}, lease : Ids, until : 0..(Horizon + LeaseLen), attempts : Nat,
   result : Devices \cup {NoDevice, Manual}, review : {"pending", "accepted", "rejected"},
   exp : 0..(Horizon + TTL)]
Message ==
  [kind : {"claim", "result", "failure"}, dev : Devices, job : 0..NJobs, lease : Ids, reason : Reasons]
Bridge ==
  [op : {"idle", "claim", "model", "send", "report", "result", "failure"}, job : 0..NJobs, reason : Reasons]

\* Every variable stays in its domain.
ResearchTypeOK ==
  /\ now \in 0..Horizon /\ faults \in 0..MaxFaults /\ drawn \in Ids
  /\ job \in [Jobs -> ResearchJob] /\ dev \in [Devices -> {"absent", "pending", "active", "revoked"}]
  /\ marker \in [Devices -> Ids] /\ folder \in [Devices -> [Jobs -> Ids]]
  /\ attempt \in [Devices -> SUBSET Jobs]
  /\ output \in [Devices -> [Jobs -> {"none", "valid", "invalid"}]]
  /\ reqs \subseteq Message /\ pc \in [Devices -> Bridge] /\ ran \in [Devices \X Jobs -> Nat]

\* Whatever claims, repeats and late requests arrive, a device has at most one running job
\* (claim answers device_already_running), and a lease id stands for one job.
OneLeasePerDevice ==
  /\ \A d \in Devices : Cardinality(Running(d)) <= 1
  /\ \A i, j \in Jobs : job[i].lease # 0 /\ job[i].lease = job[j].lease => i = j

\* The result a completed job keeps was accepted from the device that held the job when it
\* was completed, and a device whose job was taken over, retried or revoked delivers nothing.
ResultFromHolder ==
  \A j \in Jobs :
    /\ job[j].result # NoDevice <=> job[j].status = "completed"
    /\ job[j].result \in Devices => job[j].dev = job[j].result /\ ran[<<job[j].result, j>>] = 1

\* A bridge calls the model at most once per job: crashes, lost answers, retries of the job and
\* retained results never cause a second (paid) call.
OneModelCall == \A x \in Devices \X Jobs : ran[x] <= 1

\* A job is claimed at most MaxAttempts times, however often its owner retries it.
AttemptsBounded == \A j \in Jobs : job[j].attempts <= MaxAttempts

\* Enqueue and retry together never exceed the owner's budget of open jobs.
ActiveBudget == Cardinality(Active) <= MaxActive

\* A revoked device holds no running job, also when its claim is handled late.
RevokedHoldsNothing == \A d \in Devices : dev[d] = "revoked" => Running(d) = {}

\* The queue's promises in one: leases, budgets, the single model call and who may deliver.
LeasesHonoured ==
  /\ OneLeasePerDevice /\ ResultFromHolder /\ OneModelCall
  /\ AttemptsBounded /\ ActiveBudget /\ RevokedHoldsNothing

\* An accepted result and a review decision are final: no late failure report, cancellation,
\* retry, repeated result or second review changes them.
ResultsFinal ==
  [][\A j \in Jobs :
       /\ job[j].status = "completed" => job'[j].status = "completed" /\ job'[j].result = job[j].result
       /\ job[j].review # "pending" => job'[j].review = job[j].review]_researchVars

\* "Invalid results release the remote lease": a report of an invalid result that the server
\* answers leaves the job no longer running under that lease.
InvalidResultReleases ==
  [][\A d \in Devices :
       pc[d].op = "failure" /\ pc[d].reason = "invalid_result" /\ pc'[d] = Idle /\ faults' = faults
         => LET j == pc[d].job IN
            ~(job'[j].status = "running" /\ job'[j].dev = d /\ job'[j].lease = folder[d][j])]_researchVars
=============================================================================
