# TLA+ models of ETF-Fund-Analysis

The repository computes ETF research data and shows it: on a server with
accounts, a refresh scheduler and a web page, and on an owner's local machine
that computes bundles and uploads them to a display-only receiver. Its numbers
are arithmetic; its correctness depends on interleavings, crashes, lost messages,
stale reads and boundaries. This directory models that part of it, checks
the models with TLC and proves the theorems of section 5 with TLAPS. Paths are
relative to `src/`; `backend/app/` is left out where it is clear.

## 1. Inventory

| Part | State it keeps | Operations | Hard behaviour |
| --- | --- | --- | --- |
| Local job ledger, `workspace/local_job_ledger.py` | SQLite tables `slots`, `attempts`, `jobs`, `clock_watermark`, `export_manifests` | `plan_due`, `claim`, `recover_interrupted`, `record_job`, `mark_export_intent`, `mark_export`, `quarantine_export`, `mark_delivered`, `fail`, `pending_replay` | retry budgets, supersession, expiry, clock rollback |
| Minute dispatcher, `local_dispatch.py`, `local_schedule.py`, `scripts/run_local_compute.py` | OS lock, outbox files, locals of a process | `dispatch_once`, `cmd_dispatch`, `cmd_run` | overlapping wake-ups, crash between two effects, identity read before the lock |
| Producer client, `shadow_client.py` | none | `upload_bundle`, `upload_bundle_auto` | lost requests and answers |
| Generation store, `local_display_read.py`, `shadow_api.py`, `sync_domain.py` | `bundle_*.json`, `latest.json`, `previous.json` | `publish`, `load_bundle` | crash or OSError between file operations, eviction, lock-free readers |
| Chunk staging, `shadow_chunks.py` | staged parts, receipts | `put`, `commit`, `_gc` | one active upload, TTL, partial deletion |
| Request authentication, `shadow_auth.py` | nonce files | `verify_request` | replay window, clock set back |
| Research jobs and bridge, `jobs.py`, `bridge_api.py`, `bridge/etf_agent_bridge.py` | job and device rows, the bridge's files | enqueue, claim, result, failure, cancel, retry, review, pairing | expired leases, late results, a bridge that restarts |
| Data jobs, worker, AI profiles, `data_jobs.py`, `worker.py`, `ai_profiles.py` | job rows with leases, profile revisions | enqueue, claim, monitor, finish, reap | killed supervisors, orphaned children, calls that cost money |
| Task service, scheduler, settlement, `task_service.py`, `scheduler.py`, `settlement.py`, `db/task_lock.py` | `TaskRun`, slot claims, advisory lock | tick, request, run, recover | a tick overtaken by another session, failed runs, cadence boundaries |
| Decision board, `decision_board_service.py`, `signal_grade_service.py`, `research/structure_decision.py` | board rows and rows of a board | refresh, read, prune, grade | reads between commits, stale inputs labelled fresh |
| Local compute, `workspace/local_compute.py` | SQLite database, artefacts | full, fast and settled runs, export, upload check | other tasks commit while a run computes |
| Mail outbox, `local_notifications.py`, `local_digest.py` | message rows, two locks | enqueue, `send_one`, open | an answer that never came, overlapping runs, a full table |
| Holding imports, `holding_import_service.py`, `workspace/imports.py`, `import_revisions.py` | sessions, files, batches, holdings | screenshot, preview, confirm, undo | confirmations racing edits, undo after later changes |
| Accounts, `auth_service.py`, `core/security.py`, `memberships.py` | users, sessions, memberships, throttle tables | bootstrap, login, disable, reset, remove | check-then-act on the last administrator, concurrent logins |
| News analysis and reviews, `analysis_service.py`, `review_service.py`, `news_service.py` | analyses, candidates, decisions | analyse, retry, review | model answers that fail, two reviewers |
| Market data, `providers/composite.py`, `bounded_sdk.py`, `market_service.py`, `market_bar_service.py`, `corporate_action_contract.py`, `flow_share_research.py`, `market_context_service.py` | quotes, bars, splits, context cards | provider chain, ingest, merge, adjust, qualify | contradictory batches, hanging child processes, splits |
| Chan revisions, `chan_observation_service.py`, `chan_read_service.py`, `research/chan_*.py` | streams, observations, transitions | freeze, publish, read, overlay | racing publishers, readers without a snapshot |
| Browser page, `static/app.js` | account, mode, board, timers, event stream, cards of an import | bootstrap, login, logout, demo, edit, confirm | answers out of order |

How they interact. On the local machine a task scheduler starts the dispatcher
every minute; it takes the lock, plans in the ledger, runs the local computation
or takes a kept package, writes the outbox file and posts it signed, whole or in
chunks; the receiver's store publishes it under its own lock and lock-free
readers show it; the mail run turns delivered bundles into digests. On the
server a scheduler tick claims slots and queues task runs; a run fetches through
the provider chain (every SDK call in an owned child process), stores bars and
quotes and builds a board; data jobs and research jobs wait in tables for
workers and desktop bridges; the page talks to all of it by requests.

`PROJECT.json` lists the 40 hazards at their lines with the properties that would
catch each of them, and what each component leaves out.

## 2. Modules

Every component is a module with its constants, one action per handler or
durable effect, a type invariant and its properties. Actions are as atomic as
the code: a database transaction is one step, two statements of a session that
another session may separate are two steps, every file operation that can be
seen or interrupted is a step of its own.

| Module | Code | Remarks |
| --- | --- | --- |
| `LocalJobLedger` | the ledger under its most general client | operators on ledger values, composed as the UPDATEs of a method are |
| `LocalDispatch` | dispatcher, lock, outbox, network, clock | extends the ledger; instance of `AcceptedGenerations` |
| `AcceptedGenerations` | what a receiver promises | abstract specification |
| `LocalDisplayStore` | the generation store file by file | refines `AcceptedGenerations` |
| `ChunkStaging` | the staging file by file | its commit calls the store by the contract `AcceptedGenerations` |
| `ShadowAuth` | nonce reservation in two file steps | |
| `ResearchJobs`, `DataJobs`, `TaskRuns` | the three queues with their holders | |
| `SettledPipeline`, `TaskOutcome`, `SchedulerCadence` | evening chain, outcome rule, every minute of a day | |
| `BoardStore`, `BoardRow`, `GradeRules` | boards, rows and grades | |
| `LocalCompute`, `MailOutbox` | the computed bundle and the mails about it | |
| `ScreenshotImport`, `HoldingBatches`, `ImportEditor` | imports at the server and in the page | |
| `Accounts`, `LoginLimits`, `BrowserSession` | who may do and see what | |
| `AnalysisRecords` | analyses and reviews | |
| `CompositeProvider`, `BoundedCall`, `BatchIngest`, `DailyHistory`, `CorporateActions`, `FlowShare`, `MarketContext` | market data on its way in | |
| `ChanRevisions` | published history of structures | |
| `LocalJobLedgerProofs`, `LocalDispatchProofs`, `ReceiverProofs`, `QueueProofs`, `PublishProofs`, `ServerProofs`, `PageProofs` | theorems | each extends the modules it is about |
| `MCDispatch`, `MCReceiver`, `MCQueues`, `MCSchedule`, `MCPortal`, `MCPublish`, `MCMarket`, `MCProgress` | suites for TLC | |

A suite is a set of components, or of differently bounded instances of one, that
share no state in the code. Its variable `part` chooses one of them initially
and the others rest. That is not an abstraction of their interaction (they have
none except through effects that each module models as its environment); it
keeps a run's state space the sum and not the product of its parts. A suite
extends the modules whose theorems speak of all constants, takes their constants from the `.cfg` file
and instantiates the rest; an extended module that is also wanted with other bounds is instantiated too.

What is abstracted everywhere: names, identifiers and payloads are model
values; a digest is the identity of what it covers; wording, logging and
metrics are absent. Per module, where it matters to a reader:

* `LocalJobLedger`: a slot is named by its planned time; an attempt id is
  `<<slot, attempt_no>>`; job 0 stands for the compute tasks. `plan_due` writes
  its upload limit as the literal 3 where `pending_replay` takes
  `max_retries + 1`; the model uses `MaxRetries + 1`, equal for every caller.
  `record_diagnostic` and job details are left out.
* `LocalDispatch`: reasons to fail that are not tracked (unreadable file,
  withdrawn admission, missing credentials) are a nondeterministic error path.
* `LocalDisplayStore`: bytes are counted in bundles; lookup by sequence and pointers from
  before the acceptance history are left out. `ChunkStaging`: all uploads are split alike, byte
  budgets are a nondeterministic refusal. Its commit publishes by a call of `AcceptedGenerations` (an
  acceptance or an acknowledgement in one step): that the store keeps this contract file by file is
  shown of `LocalDisplayStore`, and nothing is claimed of the staging's own effect on it beyond when it calls. `ShadowAuth`: the signature is the identity of a request.
* `ResearchJobs`: evidence bundles, pairing throttles and heartbeats are left
  out; the bridge's file writes after a claim answer are one step. A claim whose
  answer was lost leaves `claim.json` without a job folder, as in the code.
* `DataJobs`: the daily budget is the number of jobs; factor and outlook jobs
  write their status without re-reading the row, and `ResultsFinal`/`OutcomeFinal`
  speak of the kinds that do. A research job stays running when its supervisor fails the ticket.
* `SettledPipeline`: timestamps are the relations `outdated` and `backoff`.
  `TaskOutcome`: a count that `normalize_outcome` cannot read is the outcome "raises".
* `SchedulerCadence`: slots, grace and minutes are exact; what the tasks do is
  in the other modules of the schedule.
* `LocalCompute`: a stage is one snapshot transaction; a stage that was overtaken fails.
* `MailOutbox`: a slot's bundle is delivered once; tampering with payloads and a
  change of recipient are left out; `FairMailSpec` keeps starting runs, as the task scheduler does.
* `ScreenshotImport`: a session has one row, whose rejection makes it a session of rejected rows only,
  confirmed without a holding. `db.refresh(session)` after the claim expires the candidates too (the cascade
  is `all`), so the confirmation writes what they hold then. The database's CHECK constraints are part of its
  steps; OCR is the rows it gives.
* `Accounts`: cookies, CSRF, plans, e-mail and profile edits are left out. `LoginLimits`: the clock does not go back.
* `CompositeProvider`: what each provider would answer is chosen when a call begins; the kind of the call is
  `capability`. The order of a walk is not stored: the provider called next is computed from those not called yet.
* `DailyHistory`: a batch has one source. `CorporateActions`: every split is 1:2; a refresh may store any
  session anew, so the fetched overlap is every stored row.
  `BatchIngest`: the provider may be the mock one, whose minute bars all count as closed.
  `FlowShare`: eight spot numbers are one value. `GradeRules`: RSI and TD cells
  are left out; without previous values K<D counts as a death cross, as in the code.
* `BoardRow`: the `research_input` variant is `LocalCompute`'s; a verified bar
  restated after the indicator ran is not detected by the code nor claimed.
* `ChanRevisions`: an id is its content, the engine any deterministic function, a week has two days.
* `AnalysisRecords`: a news task is one transaction; raw SQL against the triggers is left out.
* `BrowserSession`: the user acts on a page that shows data and waits for the
  login form; `Reads` and `Demo` choose what an instance follows. `ImportEditor`:
  a card's fields are one value; a request that failed at the client is
  processed before the failure or never, except an aborted one.

## 3. Runs

| Run | Distinct states | Asks |
| --- | --- | --- |
| `dispatch` | 401 766 | do two wake-ups, a crash and a deployment keep ledger, outbox, network and receiver consistent; is the dispatcher a client of the ledger |
| `dispatch_live` | 109 892 | does everything settle after the last fault; is the sequence in slot order although the clock goes back |
| `receiver` | 536 203 | store, nonces and staging through a crash at every file operation; the store's refinement of `AcceptedGenerations`; receipts and acknowledged parts of the staging |
| `queues` | 1 886 921 | do stale holders, dead workers and lost answers run work twice or change what is final |
| `schedule` | 1 270 914 | evening chain (`SettledSound`), boards (`BoardsReadable`), outcome rule and two halves of a trading day minute by minute (`PolicyKept`) |
| `portal` | 810 919 | imports at the server (`ImportSafe`) and in the page (`EditorSound`), undo, accounts, analyses and reviews (`AnalysisTruthful`); smaller instances and the throttles (`PortalSafe`) |
| `publish` | 725 404 | mails (`MailOnce`), bundles (`BundlesCoherent`), rows of the board (`RowEarned`); digests of one process on two slots, a full table, grades (`PublishSafe`) |
| `market` | 1 878 254 | provider chain (`ChainRanked`), daily history (`HistoryKept`), as-of series around splits (`AsOfSettled`), Chan history with racing publishers, restated bars, weekly streams, failing jobs (`ChanSound`); ingest, verified rows, explained gaps, flow block and context cards (`FeedTrusted`) |
| `progress` | 30 931 | liveness of uploads, queued runs, the settled chain, screenshots, mails, provider calls |
| `store_pair` | violated | section 4 |
| `grades_top` | violated | section 4 |

Every passing run ends with its whole state space explored. Bounds are the constants
of the `.cfg` files and of the `WITH` clauses; why they suffice:

* `dispatch`: two processes, one slot and one trading session of two ticks with one more tick after it (a
  package that is late or expired), two attempts, one retry of an upload, two identities and one deployment,
  and one killed process: a lost request or answer is followed by a replay of the kept package, which the
  receiver may already have. The clock is not set back here. `dispatch_live`: one process, two slots of
  one session (supersession), one retry, and one fault, which is a kill or a clock set back. What needs two
  slots and two processes, two retries, or a rollback beside a second process is left to the theorems.
* `receiver`: five bundles, one sequence contested by two identities;
  `MaxGenerations = 2`, the smallest admitted, so every third publication evicts;
  two faults, so that an undo can fail or a crash can follow a failure. Three
  nonces in a table of two, a clock that goes back by as much as retention minus
  window allows. Two uploads of two parts, so one waits for the other's TTL.
* `queues`: the slices of `MCQueues` bound different things: two bridges on one
  job; one bridge on two jobs without a second attempt; local jobs of two
  workers; tickets under one worker at a time with one kill; four task runs on
  two slots with one crash of a session. A lease of one or two ticks makes every
  step a late one in some behaviour.
* `schedule`: the settled chain over one evening with a failure, a manual run and a new
  instrument, and over two days with a bootstrap; every minute from 11:28 to
  13:01 and from 14:47 to 15:01 with run times of 1 to 30 minutes; boards of two
  workers, two configurations and two open days with one day of retention.
* `portal`: one screenshot session with two confirming workers and two faults, or two sessions with one worker and none; two codes, or
  three revisions of one; `Scale` distinguishes what the column rounds; two users with
  four lifecycle operations or two sessions; throttle tables that are too small
  and two threads in one; one to three analyses; requests in flight up to two; two
  screenshots of two candidates with three corrections, or with two and one more turn of the workflow.
* `publish`: two mail runs on one slot, one run on two slots, and a table with
  room for one message; a local computation beside two other tasks and a
  settled input; rows at the instants before, in and after lunch and at the next
  open; every grade at every threshold and its neighbours.
* `market`: three providers and two codes; batches of two records that repeat,
  contradict or cannot be read, of a real or the mock provider; four days with two price levels; every flow
  record over small fields; two symbols or two cards.
* `progress`: two uploads with one loss, two runs with one crash, one evening with one failure,
  one import with two faults, one mail slot, a call with a timeout of three ticks and a
  child that may ignore signals.

Named bounds: `MaxTime`, `MaxFaults`, `MaxDeploys`, `MaxCrashes`, `MaxKills`,
`MaxFails`, `MaxLosses`, `MaxSetback`, `MaxClaims`, `Horizon`, `LastTick`, `MaxRuns`,
`MaxOps`, `MaxTries`, `MaxManual`, `MaxPreviews`, `MaxBatch`, `MaxSyncs`, `MaxSent`,
`MaxFlight`, `MaxEdits`, `MaxTurns`, `MaxJobs`, `MaxStores`. Deadlock is checked in
`dispatch_live`; the other runs have bounded clocks and fault counters, so
their systems do stop. Symmetry is used for interchangeable processes, devices,
users and configurations, and never in a run with liveness.

Fairness. `dispatch_live`: time passes, the minute trigger keeps starting
processes that keep taking steps (the HTTP timeout bounds each), and the
calendar is verified infinitely often for a process that keeps asking; nothing
is assumed of the network. `progress`: the clock and the scheduler tick, a
process that is alive goes on, and a producer whose request is taken again and
again is served (`SF` on `Take`: the lock it waits for is released infinitely
often). Nothing is assumed about answers, kills or faults beyond their bounds.
`FairMailSpec` also assumes that a kill is not the last thing that happens to a mail run:
the scheduler starts the next one.

Each property of a passing run has a mutant in `PROJECT.json`: a plausible bug in
the code's guard, order or reset under which TLC finds the property violated.

## 4. Disagreements between code and text

Two are checked as violated runs.

* `store_pair`: `_publish` states "the pre-existing current/previous pair remains
  intact and recoverable" (`local_display_read.py:373-374`), but `previous.json`
  is replaced before `latest.json`; a crash between them leaves both on the current generation.
* `grades_top`: "The returned dict always carries base/final grades"
  (`research/structure_decision.py:46`); a row at the top grade with a score of at
  least 0.60 is shifted to a rank that does not exist, and the refresh of the board fails.

The following were found the same way, by a property that the code violates.
The property stands in its module, and no run asks it:

| Property | Code | Text it contradicts |
| --- | --- | --- |
| `ShadowAuth.NoAbandonedMarker` | a process that dies after `O_EXCL` leaves an empty nonce file, which refuses every later request (`shadow_auth.py:49`) | "permanently rejecting after an abandoned O_EXCL marker" is avoided, `:35` |
| `ChunkStaging.SingleActive` | a collection that dies after `receipt.json` makes a finished upload active again (`shadow_chunks.py:88`) | "bounded, single-active and garbage collected", `:9` |
| `ChunkStaging.StaleIsCollected` | without the file `total` every part is acknowledged for ever and no commit succeeds (`:141`) | same |
| `ResearchJobs.InvalidResultReleases` | reason `invalid_result` is refused by the protocol, so the lease is kept (`etf_agent_bridge.py:234`) | "Invalid results release the remote lease", `:217` |
| `DataJobs.ChildDeadline` | the deadline lives in the supervisor; a killed one leaves a child without it (`worker.py:407`) | "A child process has a hard deadline", `:3` |
| `TaskRuns.FailureAudited` | the audit of a failed adopted run collides with the queued row (`task_service.py:531`) | "the audit survives that rollback", `:514` |
| `SettledPipeline.FreshAfterBootstrap` | the bootstrap task refreshes inputs under its own name (`settlement.py:64`) | "A newer input-stage result invalidates derived completion", `:22` |
| `HoldingBatches.ConflictSafe` | a holding inserted by hand during a confirm is overwritten (`imports.py:246`) | "conflict-safe undo", `:1` |
| `HoldingBatches.RefusedOnlyIfChanged` | hashes before the column's rounding refuse an undo although nothing changed (`imports.py:250`) | `holdings_changed_after_import`, `:262` |
| `MailOutbox.OneDigestPerSlot` (two processes) | a run takes its time before the lock (`run_local_notifications.py:82`) | repeated wake-ups send no second normal mail, `tasks/plans/2026-10-26-daily-pipeline-repair.md:112` |
| `MailOutbox.PruneFreesTerminal` | exhausted retryable rows are never pruned (`local_notifications.py:220`) | "Auto-prune terminal messages older than 30 days", `:218` |
| `LocalCompute.LineageBindsBoard` | a full run's lineage names quotes committed after the board (`local_compute.py:1201`) | "Bind local execution inputs", `:1176` |
| `Accounts.RemovedIsDisabled` | reactivation does not ask the membership (`router.py:359`) | "restore_removed_user_first", `memberships.py:85` |
| `CorporateActions.BasisIdentifies` | rows are scaled by notices the basis does not name (`corporate_action_contract.py:234`) | "stable economic basis identity, independent of a read window", `:105` |
| `SchedulerCadence.CadenceKept` | quotes are asked again minutes after a board fetched them (`scheduler.py:331`) | "Honor the session cadence", `:326` |

Smaller observations, not contradicted by any text:

* Store: with two generations allowed the store keeps three while the third is
  published; after a cutover the current generation is not acknowledged again.
* Chan: a restatement that returns to an earlier content is answered as
  idempotent and the head stays, where the replay would record it again
  (`chan_replay.py:35`); on the morning of an ex date two bases share a cutoff and a
  reader finds the head ambiguous until 15:15.
* Context cards: the first stored value of a source timestamp wins, so an index
  keeps the day's first value; a mock observation stamped in the minute outranks
  real ones stamped at midnight; freshness is stored and never evaluated again; the
  history of a card mixes symbols after a change.
* Page: locking in demonstration mode does not end the session at the server; a
  refresh that was under way may hide the login form after a failed logout; a
  reset, load or exit that fails between the modes leaves data of one mode under
  the label of the other; a login while an earlier bootstrap is pending may show the
  earlier account's board; watchlist, administration and signals have no generation check.
* Import editor: an aborted save that the server still applies, followed by a
  failed cancellation, lets the page confirm values it does not show; rendering
  another card's save restores old values on a card with a waiting correction.
* News: a refresh replaces a completed analysis by a failed one; SQLite loses the zone
  of `published_at`, so the first analysis after a refresh pays the model again; a
  bootstrap commits news rows flushed before a failing refresh.
* Outbox: a full table drops accepted messages of today, which a later run would queue again.

## 5. Proofs

The theorems hold for every value of the constants that satisfies the module's
named assumption. The inductive invariants were checked with TLC before they were proved.

| Theorems | Module | Run property |
| --- | --- | --- |
| `LedgerInvariant`, `LedgerTypeOK`, `LedgerAttemptsSound`, `LedgerSlotsTruthful`, `LedgerHistoryImmutable` | `LocalJobLedgerProofs` | `AttemptsSound`, `SlotsTruthful`, `HistoryImmutable` |
| `DispatchInvariant`, `DispatchUsesLedger`, `DispatchKeepsLedger`, `DispatchOwnerViewFresh`, `DispatchDeliverySound`, `DispatchTerminalSlotsFinal`, `DispatchGenerationsInSlotOrder`, `DispatchFeedsReceiver` | `LocalDispatchProofs` | `UsesLedger`, `OwnerViewFresh`, `DeliverySound`, `TerminalSlotsFinal`, `GenerationsInSlotOrder` |
| `StoreInvariant`, `StoreIsSafe`, `ReadsNeverGoBack`, `StoreImplementsAcceptedGenerations` | `ReceiverProofs` | `StoreSafe`, `ImplementsAcceptedGenerations` |
| `AuthInvariant`, `NothingIsReplayed` | `ReceiverProofs` | `NoReplay` |
| `ChunkInvariant`, `ReceiptsAreBacked`, `StagedPartsAreKept` | `ReceiverProofs` | `ReceiptBacked`, `StagedUntilTaken` |
| `RunsInvariant`, `SlotsAreServedOnce` | `QueueProofs` | `SlotsServedOnce` |
| `DataInvariant`, `JobsAreRunOnce`, `OutcomesAreFinal` | `QueueProofs` | `JobsRunOnce`, `OutcomeFinal` |
| `ResearchInvariant`, `LeasesAreHonoured`, `ResultsAreFinal` | `QueueProofs` | `LeasesHonoured`, `ResultsFinal` |
| `BoardsInvariant`, `BoardsAreReadable` | `ServerProofs` | `BoardsReadable` |
| `CallsAreOwned` | `ServerProofs` | `CallsOwned` |
| `ComputeInvariant`, `BundlesAreCoherent` | `PublishProofs` | `BundlesCoherent` |
| `OutboxInvariant`, `NothingMailedTwice`, `OneDigestEach` | `PublishProofs` | `MailOnce` (and a conjunct of `PublishSafe`) |
| `BatchesInvariant`, `BatchesAreUndoable`, `UndoesTakeTheirOwn` | `ServerProofs` | `UndoTakesOwn` (and a conjunct of `PortalSafe`) |
| `AccountsInvariant`, `AccountsAreSafe` | `ServerProofs` | `AccountsSafe` |
| `ImportInvariant`, `ImportIsSafe` | `ServerProofs` | `ImportSafe` |
| `EditorInvariant`, `EditorIsSound` | `PageProofs` | `EditorSound` |
| `ChanInvariant`, `ChanIsSound` | `PageProofs` | `ChanSound` |
| `PageIsSound` | `PageProofs` | `PageSound`, a conjunct of `PortalSafe` |
| `HistoryInvariant`, `ResearchTakesVerifiedRows`, `HistoryIsKept` | `ServerProofs` | `HistoryKept` (and a conjunct of `FeedTrusted`) |
| `SettledInvariant`, `SettledIsSound` | `PublishProofs` | `SettledSound` |
| `AsOfSeriesAreSettled` | `PublishProofs` | `AsOfSettled` |
| `WalkInvariant`, `ChainIsRanked` | `PublishProofs` | `ChainRanked` |
| `AnalysisInvariant`, `AnalysisIsTruthful` | `ServerProofs` | `AnalysisTruthful` |
| `RowsAreEarned` | `PublishProofs` | `RowEarned` |

The arguments:

* **Ledger.** `LInv(d)` collects schema, numbering, one running attempt, the live
  attempt being the newest, and what ties slots to attempts. It is a predicate of
  a ledger value so that it can be carried through the intermediate ledgers of
  `plan_due`: every UPDATE has a lemma, every method a lemma that composes them.
  `DeliveredIsBacked` needs that a live attempt has a manifest; keeping one live
  attempt per slot needs that a claimable slot has none.
* **Dispatcher.** `DInv`: the lock has one owner, which is the one busy process;
  what it read of the ledger is still true (`Fresh`); outbox files, messages under
  way and receiver agree about every manifest. Every step is one method of
  the ledger or leaves it alone, so the ledger's theorems carry over
  (`DispatchUsesLedger`), and its effect on the receiver is a behaviour of
  `AcceptedGenerations` (`DispatchFeedsReceiver`). The store implements the same module,
  which closes the loop from a claimed slot to what a reader sees.
* **Store.** `SInv` ties pointers, acceptance history, running publication and
  readers; `RInv` counts the files that may not be evicted against faults and
  slack; `PlanSuffices`, a rank argument on sets of sequences, shows that an eviction plan
  always makes room.
* **Nonces.** A swept reservation is older than any time the clock can return
  to. Hence the assumption `MaxSetback <= Retention - Window`, 241 s and
  120 s in the code; a clock set back by more than the difference can replay.
* **Staging.** A request under way is for parts that are there or already published, and
  the marker of a receipt is written after the generation. An upload is refused for good only when the
  store is already past its sequence without having taken it, and a sequence never falls (`RefusedOK`).
  The directory of a producer past its first part is at most one tick old, because an attempt is a few requests
  of a minute each and every acknowledged part renews it (`StagedOK`); only directories older than the TTL are collected.
* **Queues.** Data jobs: `until + age = clock + Lease` ties a supervisor's age to its
  lease, so a lease ends only after its supervisor's deadline; what overlaps is the orphan of
  a killed one. Research jobs: server rows and the bridge's files and memory are
  tied by claim ids, each drawn by one device. Task runs: a session that holds the lock is
  the only one between its claim and its end, and a claimed slot without a board that nobody is about to release
  is counted against the sessions that died.
* **Boards.** The one active refresh began after the last commit, so identity and time
  of boards grow together and the newest board is the last one committed; a prune removes dates below it.
* **Provider calls.** A whole message means that no child is left that could change it.
* **Local compute.** What a run has seen is a prefix of what is committed. A fast
  run is pinned from both sides by the identities it reads before and after; a settled
  run is compared inside the export transaction.
* **Outbox.** One process holds the dispatch lock; the row it hands over is marked
  as being sent and only its recorded outcome lets a row be offered again, which
  happens only if the server did not take it. The loop leaves a message behind
  for every slot it has gone through. That rows stay needs `HasRoom`: the table
  has room for the messages of the horizon (1024 rows in the code; a slot has at
  most a handful of rows a day and they are pruned after 30 days at the earliest). Without it
  `OutboxInvariant` still holds, and nothing more is claimed: see the last observation of section 4.
  `OneDigestEach` assumes `OneDispatcher`, runs that follow each other, killed or not: a
  digest in time is wanted only within the slot's grace, a late one only past it and if none in time is
  there, and the times of the rows never exceed that of the run under way. With runs that overlap it is false, section 4.
* **Batches.** For every fund and value, imports that have stored it and undos that may
  return it balance as long as nothing was edited by hand; rounding is
  idempotent; the rows an undo read stay locked until it writes.
* **Accounts.** Every operation on the last administrator takes the guard row first, so what
  its holder has read is still true when it writes. A request that was admitted may act after
  its session was revoked; the stamp of a session never runs ahead of its user's
  revocations, so a revoked one is not taken for a later one.
* **Screenshots at the server.** The invariant says, for every state of the import, of each
  confirming worker and of the cleanup, what it may still rely on between its own
  steps: which of them owns the image, and what was selected or rejected of the rows it has read.
* **Screenshots in the page.** A correction that waits is under its timer, queued or
  marked (`SavesOK`); a save under way that is not the latest is followed by another or an
  error; a request that is not stale is about the session under review, and a correction
  sent after the click is known to be late (`RequestsOK`). Then a candidate
  nothing is being saved of looks the same on the screen, in the page and at the server
  (`ShownOK`), unless a cancellation failed. Opening the confirmation asks for exactly that.
* **Page.** Every handler is a composition of loaders, and a loader of aborting and sending.
  `Sane` is therefore a predicate of a page, with a lemma per loader that carries it on: of every
  request in flight it says what it may be and what waits for it (`Typed`, `Chained`: one login and one mode
  switch at a time), whose data it may still uncover (`Accounted`: an answer of the present
  generation that was sent under the account is the owner's; an inactive page that asks nobody means that
  the server has no session), and what a mode has aborted (`Switched`). A mode switch ends because
  one request carries its ticket (`Switching`). Between a login the server has taken and the
  page's learning of it nothing is claimed; `adrift` marks where this can last.
* **Chan history.** Publications that read the same head derive the same next observation, and the
  first of them to commit makes the others unwritable, with the stream's lock or, on SQLite, by the unique number
  alone. Observations are therefore numbered without gaps, each stored transition is the
  one a replay derives from what precedes it, and a reader that takes them
  statement by statement finds a prefix that is whole. Two latest heads of one instrument are of two bases, which only a split produces.
* **Daily history.** A history is usable exactly if a session divides it: documented rows with a
  volume up to it, unverified rows after it. The window of a refresh reaches back to the oldest row of old units.
* **Evening chain.** An input that ended well and did not finish later is the one a stage saw, over the
  same instruments (`InputsSeen`); a tick that nobody disturbed runs a plan that is closed under
  derivation, in order, so what it outdates is still to come (`TickInOrder`). That the plan is closed needs what the
  recursive function `Upstream` computes; over the seven stages its equation is solved by an explicit function.
  Freshness is claimed while no bootstrap ran, for the reason of section 4.
* **Splits.** The series of a date is computed from rows and notices up to that date only, a row from its own
  stored values, and the basis names the notices.
* **Provider chain.** Every provider called comes before every provider not called; the dictionaries hold, per
  code, the first qualified row of the providers called so far and, as long as there is none, the first
  degraded row and the first daily close. So a code that has a qualified row when the walk stops has the one the whole chain would
  rank first. For daily bars the sort key has a greatest element, found key by key, and an early stop
  means that a batch no other can beat is among the candidates.
* **Analyses and reviews.** A run is stored in the transaction that binds its row to it and is never changed;
  a row keeps its run only if text, input and model still agree, so what a row names stays its own. A candidate leaves
  `pending` once; a request that finds it decided either repeats the stored decision or tells nothing.
* **Rows of a board.** Nothing remembers that a bar was stored again: the row is a function of what is
  stored now. A refused history is used only if its unverified bars are its tail, and the qualified
  history ends before the first of them, so a snapshot of a day within it rests on verified bars whenever it
  was computed; an intraday grade needs a history that is not refused at all.

Assumptions on constants: natural numbers, non-empty finite sets where the code
has a list, orders the code's constants have (a lease longer than the deadline,
a retention longer than the window, two generations at least), and that `None` or another
marker is not a value. TLC evaluates them in every run.

Only model-checked:

* liveness (`DispatchSettles`, `WorkSettles`, `NothingLingers`): fairness and
  ENABLED are beyond the prover's backends;
* `GradesSound` of `PublishSafe` (a grade against its definition at every boundary), `PolicyKept` (every minute of a day
  against the refresh policy) and, of `FeedTrusted`, the flow block, the explained gaps and the
  ingest of batches: they compare a computation with its reference over all small inputs. What a fold over a
  sequence or a recursive definition computes for every input needs induction over data,
  which the installed provers cannot instantiate;
* in `PortalSafe`, the login throttles (their tables are pruned by a fold over a sequence, the same
  obstacle); in `FeedTrusted`, the context cards, which are sorted and cut to a number of them;
* `NoSilentSlot` and the digests under other bounds (`PublishSafe`) repeat what the theorems say of every constant.

## 6. Not modelled

Numeric services (floating point over market data), provider adapters (parsing
of third-party answers), the read model, projections and the page's rendering
(presentation), journal and watchlist (request scoped records), `local_reconcile.py`
and `local_stability.py` (read-only reports), and the older store contract
`shadow_bundle.py`.

## 7. Plan

What a next step would take up, in this order: the context cards (`ContextSound`), as far as their sort can be
replaced by what it guarantees; and, of what is not modelled, the read model's projections, as far as they decide
what a stale board may show.
