--------------------------- MODULE AnalysisRecords ---------------------------
(***************************************************************************)
(* Text analysis by a language model and the review of agents' memos       *)
(* (news_service.py, analysis_service.py, analysis/adapters.py,            *)
(* analysis_persistence_service.py, review_service.py and the review       *)
(* handlers of router.py).                                                 *)
(*                                                                         *)
(* A news item shows the analysis its row points to.  A refresh analyses   *)
(* every fetched item again; analyze_existing keeps an analysis that the   *)
(* configured model made of the same input.  Analysis runs are only        *)
(* appended.  A review candidate is decided by one conditional UPDATE;     *)
(* reviewers overlap, lose answers and repeat their requests.              *)
(***************************************************************************)
EXTENDS Naturals, FiniteSets, SequencesExt

CONSTANTS NKeys,       \* number of news items (source, source_id), by publication time
          Texts,       \* contents an item may have; its publisher may edit it
          LongTexts,   \* those whose bundle exceeds analysis_max_input_chars
          Models,      \* configurable primary models
          KeepsZone,   \* TRUE on PostgreSQL; SQLite drops the zone of published_at
          Candidates,  \* candidate ids
          Reviewers,   \* administrators with a request under way
          MaxRuns,     \* bound: analysis runs ever recorded
          MaxConfigs,  \* bound: reconfigurations (restarts with other settings)
          MaxAsks      \* bound: requests a reviewer sends

Keys == 1..NKeys

AnalysisBounds ==
  /\ NKeys \in Nat /\ LongTexts \subseteq Texts /\ KeepsZone \in BOOLEAN
  /\ MaxRuns \in Nat /\ MaxConfigs \in Nat /\ MaxAsks \in Nat

ASSUME AnalysisAssumption == AnalysisBounds

VARIABLES ready,    \* the migration with the append-only triggers is applied
          config,   \* analysis_enabled and analysis_primary_model of the running process
          configs,  \* reconfigurations so far
          runs,     \* analysis_runs in the order of their ids
          items,    \* news_items
          handled,  \* the items the last news task went over, until a reconfiguration
          cands,    \* agent_review_candidates
          ask,      \* each reviewer's request
          told      \* the decisions reviewers have been told (answers with status 200)

newsVars == <<config, configs, runs, items, handled>>
reviewVars == <<cands, ask, told>>
analysisVars == <<ready, newsVars, reviewVars>>

\* Settings.validate_analysis_configuration: analysis that is on has its one provider and model.
Settings == [on : BOOLEAN, model : Models]

NoItem == [text |-> "none", run |-> 0, source |-> "none", status |-> "none"]
NoCandidate == [status |-> "none", accepted |-> FALSE, rejected |-> FALSE, note |-> "none"]
NoAsk == [pc |-> "idle", cand |-> "none", target |-> "none", left |-> MaxAsks]

Failures == {"analysis_unavailable", "invalid_response"}
Decisions == {"accepted", "rejected"}

AnalysisInit ==
  /\ ready \in BOOLEAN
  /\ config \in Settings
  /\ configs = 0
  /\ runs = <<>>
  /\ items = [k \in Keys |-> NoItem]
  /\ handled = {}
  /\ cands = [c \in Candidates |-> NoCandidate]
  /\ ask = [r \in Reviewers |-> NoAsk]
  /\ told = {}

(***************************************************************************)
(* The gateway.  One adapter is asked once, without retry or fallback.     *)
(***************************************************************************)

\* What may come back of the call of the provider: an HTTP error, a body that is not one JSON
\* object with every field, an object the schema refuses, or a candidate.
Replies == {"http_error", "not_an_object", "schema_error", "good"}

\* VerifiedAnalysisInput of a record: its text and its publication time, whose zone is lost in a
\* row that SQLite has stored.
InputOf(k, text, fetched) == [key |-> k, text |-> text, zoned |-> fetched \/ KeepsZone]

\* _response_text and _parse_json_object: the whole text is one JSON object with every field.
OneObject(reply) == reply \in {"schema_error", "good"}

\* AnalysisOutput: a substantive candidate with a confidence statement and nothing numeric.
ValidOutput(reply) == reply = "good"

\* _DirectAdapter.analyze
AdapterStatus(reply) ==
  CASE reply = "http_error" -> "analysis_unavailable"
    [] reply # "http_error" /\ ~OneObject(reply) -> "invalid_response"
    [] OneObject(reply) /\ ~ValidOutput(reply) -> "invalid_response"
    [] OTHER -> "completed"

\* AnalysisService.analyze: too long a bundle is not sent.
GatewayStatus(input, reply) ==
  IF input.text \in LongTexts THEN "invalid_response" ELSE AdapterStatus(reply)

\* The envelope that the gateway returns and AnalysisPersistenceService.record appends: an output
\* bound by its hash, or a failure class.
Envelope(input, reply) ==
  LET status == GatewayStatus(input, reply) IN
  [input |-> input, model |-> config.model, status |-> status,
   output |-> status = "completed", failure |-> status # "completed"]

\* _validate_analysis_run_payload, on insert, load and refresh
RunLoads(run) ==
  IF run.status = "completed" THEN run.output /\ ~run.failure
  ELSE run.status \in Failures /\ ~run.output /\ run.failure

(***************************************************************************)
(* News.                                                                   *)
(***************************************************************************)

\* _store without a service
DisabledRow(k, text) == [text |-> text, run |-> 0, source |-> "heuristic", status |-> "disabled"]

\* Mutant: the reuse check forgets which model made the analysis.
ReusableAnyModel(k) ==
  LET row == items[k] IN
  /\ row.run # 0 /\ row.status = "completed"
  /\ runs[row.run].input = InputOf(k, row.text, FALSE)

\* _analysis_is_reusable
Reusable(k) ==
  LET row == items[k] IN
  /\ row.run # 0 /\ row.source = config.model /\ row.status = "completed"
  /\ LET run == runs[row.run] IN
       /\ run.status = "completed"
       /\ run.input = InputOf(k, row.text, FALSE)
       /\ run.model = config.model

\* _run: every record is stored; the ones that are not reused get a run of their own, or none.
StoreAll(records, reuse, fetched, reply) ==
  LET fresh == SetToSeq((DOMAIN records) \ reuse)
      new == [i \in DOMAIN fresh |->
                Envelope(InputOf(fresh[i], records[fresh[i]], fetched), reply[fresh[i]])]
      Slot(k) == CHOOSE i \in DOMAIN fresh : fresh[i] = k
      Row(k) == CASE k \in reuse -> [items[k] EXCEPT !.text = records[k]]
                  [] k \notin reuse /\ ~config.on -> DisabledRow(k, records[k])
                  [] OTHER -> [text |-> records[k], run |-> Len(runs) + Slot(k),
                               source |-> config.model, status |-> new[Slot(k)].status]
  IN /\ runs' = IF config.on THEN runs \o new ELSE runs
     /\ items' = [k \in Keys |-> IF k \in DOMAIN records THEN Row(k) ELSE items[k]]
     /\ handled' = DOMAIN records

\* NewsService.refresh: the source's records, unique by key, are inserted or updated.
RefreshNews(records, reply) ==
  /\ ready
  /\ Len(runs) + Cardinality(DOMAIN records) =< MaxRuns
  /\ StoreAll(records, {}, TRUE, reply)
  /\ UNCHANGED <<ready, config, configs, reviewVars>>

\* NewsService.analyze_existing: the latest `limit' items from the table.
AnalyzeExisting(limit, force, reply) ==
  LET stored == {k \in Keys : items[k] # NoItem}
      rows == {k \in stored : Cardinality({j \in stored : j > k}) < limit}
      reuse == {k \in rows : ~force /\ Reusable(k)}
  IN /\ ready
     /\ Len(runs) + Cardinality(rows) =< MaxRuns
     /\ StoreAll([k \in rows |-> items[k].text], reuse, FALSE, reply)
     /\ UNCHANGED <<ready, config, configs, reviewVars>>

\* A restart with other settings.
ReconfigureAnalysis(c) ==
  /\ configs < MaxConfigs
  /\ config # c
  /\ config' = c
  /\ configs' = configs + 1
  /\ handled' = {}
  /\ UNCHANGED <<ready, runs, items, reviewVars>>

\* alembic upgrade of 9f1c2b3a4d5e
Migrate == ~ready /\ ready' = TRUE /\ UNCHANGED <<newsVars, reviewVars>>

(***************************************************************************)
(* Reviews.                                                                *)
(***************************************************************************)

\* _validate_candidate_payload, on insert, update, load and refresh; also the table's checks
CandidateLoads(row) ==
  \/ row.status = "pending" /\ ~row.accepted /\ ~row.rejected
  \/ row.status = "accepted" /\ row.accepted /\ ~row.rejected
  \/ row.status = "rejected" /\ ~row.accepted /\ row.rejected

\* A memo as it is sent: fit to store, with text validate_safe_text refuses, or not matching the
\* hash that came with it.
Memos == {"fit", "unsafe", "altered"}

\* _validated_memo and the hash comparisons of enqueue_candidate
MemoAccepted(memo) == memo = "fit"

\* enqueue_analysis_review
EnqueueReview(c, memo) ==
  /\ ready
  /\ MemoAccepted(memo)
  /\ cands[c] = NoCandidate
  /\ cands' = [cands EXCEPT ![c] = [NoCandidate EXCEPT !.status = "pending"]]
  /\ UNCHANGED <<ready, newsVars, ask, told>>

\* A reviewer sends accept or reject, or repeats the request whose answer was lost.
AskReview(r, c, target) ==
  /\ ask[r].left > 0
  /\ ask[r].pc = "idle" \/ (ask[r].pc = "lost" /\ ask[r].cand = c /\ ask[r].target = target)
  /\ ask' = [ask EXCEPT ![r] = [pc |-> "sent", cand |-> c, target |-> target, left |-> @.left - 1]]
  /\ UNCHANGED <<ready, newsVars, cands, told>>

\* The WHERE clause of _transition.
Undecided(c) == cands[c].status = "pending"

\* The values of the UPDATE in _transition.
Decided(r, target) ==
  [status |-> target, accepted |-> target = "accepted", rejected |-> target = "rejected", note |-> r]

\* The end of a request: its answer arrives, or is lost and the reviewer may repeat it.
Answer(r, c, after) ==
  \E lost \in BOOLEAN :
    /\ ask' = [ask EXCEPT ![r].pc = IF lost THEN "lost" ELSE "idle"]
    /\ told' = IF lost THEN told ELSE told \cup {[by |-> r, cand |-> c, status |-> after[c].status]}

\* accept_analysis_review, reject_analysis_review: _transition and commit.  On a candidate that
\* already has the asked state the stored row is the answer and the note sent is dropped.
Transition(r) ==
  LET c == ask[r].cand
      target == ask[r].target
  IN /\ ask[r].pc = "sent"
     /\ \/ /\ ready /\ Undecided(c)
           /\ cands' = [cands EXCEPT ![c] = Decided(r, target)]
           /\ Answer(r, c, cands')
        \/ /\ ready /\ ~Undecided(c) /\ cands[c].status = target
           /\ Answer(r, c, cands)
           /\ UNCHANGED cands
        \* 503, 404 and 409
        \/ /\ ~ready \/ cands[c] = NoCandidate \/ (~Undecided(c) /\ cands[c].status # target)
           /\ ask' = [ask EXCEPT ![r].pc = "idle"]
           /\ UNCHANGED <<cands, told>>
     /\ UNCHANGED <<ready, newsVars>>

News ==
  \/ \E S \in SUBSET Keys, reply \in [Keys -> Replies] : \E records \in [S -> Texts] : RefreshNews(records, reply)
  \/ \E limit \in Keys, force \in BOOLEAN, reply \in [Keys -> Replies] : AnalyzeExisting(limit, force, reply)
  \/ \E c \in Settings : ReconfigureAnalysis(c)

ReviewRequests ==
  \/ \E c \in Candidates, memo \in Memos : EnqueueReview(c, memo)
  \/ \E r \in Reviewers : \/ Transition(r)
                          \/ \E c \in Candidates, target \in Decisions : AskReview(r, c, target)

AnalysisNext == Migrate \/ News \/ ReviewRequests

AnalysisSpec == AnalysisInit /\ [][AnalysisNext]_analysisVars

(***************************************************************************)
(* Properties.                                                             *)
(***************************************************************************)

\* An item that points to an analysis shows the analysis of the text it shows now, with that
\* analysis's own status; after a news task, every item it went over is analysed by the model that
\* is configured now or by none.
AnalysisIsOwn ==
  \A k \in Keys :
    LET row == items[k] IN
    /\ row.run # 0 => /\ runs[row.run].input.key = k
                      /\ runs[row.run].input.text = row.text
                      /\ runs[row.run].status = row.status
                      /\ runs[row.run].model = row.source
    /\ k \in handled => (row.run # 0 => runs[row.run].model = config.model)
    /\ k \in handled /\ config.on => row.run # 0

\* Every stored row passes the validation that reading it performs: one row that does not would
\* make every list of its table fail.
RowsLoad == /\ \A i \in DOMAIN runs : RunLoads(runs[i])
            /\ \A c \in Candidates : cands[c] # NoCandidate => CandidateLoads(cands[c])

\* No two reviewers are ever told different decisions on a candidate, and what they were told is
\* still what is stored, whoever raced, retried or lost an answer.
DecisionsAgree == \A t \in told : cands[t.cand].status = t.status

\* What the portal shows of models and reviewers is true: the three invariants above.
AnalysisTruthful == AnalysisIsOwn /\ RowsLoad /\ DecisionsAgree
=============================================================================
