----------------------------- MODULE LocalCompute -----------------------------
(***************************************************************************)
(* One computing and exporting run of the local producer                   *)
(* (scripts/run_local_compute.py cmd_run, app/workspace/local_compute.py), *)
(* full or fast, next to other writers of the same research database and   *)
(* changes of its code, configuration and admission.                       *)
(*                                                                         *)
(* Every stage is one SQLite transaction on a snapshot: a stage that was   *)
(* overtaken by another commit cannot commit and fails.  Rows are versions *)
(* and hashes are the versions they cover.  The optional stages (sectors,  *)
(* market context) never stop a run and are left out.                      *)
(***************************************************************************)
EXTENDS Naturals, FiniteSets

CONSTANTS
  None,
  MaxOther,   \* bound: commits of other writers and identity changes
  MaxRuns,    \* bound: runs started
  MaxSettled  \* bound: sessions that settle

ASSUME ComputeAssumption ==
  {MaxOther, MaxRuns, MaxSettled} \subseteq Nat /\ None \notin Nat \cup {"settled_daily", "closed_session"}

VARIABLES
  bars,      \* [ver, session]: daily history of the targets
  snap,      \* [id, ind, fc]: indicator and forecast snapshots and the bars they were computed from
  stage,     \* whether the latest task run of bars, indicators, forecasts succeeded
  quotes,    \* [id, kind, fresh]: the quotes the reader selects
  board,     \* [id, q, bars, ctx]: the latest board and its inputs
  ident,     \* version of code, configuration and admission
  closed,    \* the trading session is over
  settled,   \* latest settled session
  basefile,  \* settled_base.json
  run,
  bundle,    \* the exported bundle, with the versions it really shows
  uploaded,  \* ghost: what the last upload carried and the identity at that moment
  runs, other

computeVars == <<bars, snap, stage, quotes, board, ident, closed, settled, basefile, run, bundle, uploaded, runs, other>>
db == <<bars, snap, stage, quotes, board>>
world == <<ident, closed, settled>>

QuoteKinds == {"realtime", "closing", "degraded"}
IdleRun == [pc |-> "idle", mode |-> "full", ident |-> 0, base |-> None, q |-> None, ctx |-> None, accepted |-> FALSE,
         full |-> None, board |-> None, lineage |-> None]
NoBundle == [lineage |-> None, mode |-> "full", board |-> None, bars |-> None, kind |-> "realtime", label |-> None]

ComputeInit ==
  /\ bars = [ver |-> 0, session |-> 0] /\ snap = [id |-> 0, ind |-> 0, fc |-> 0]
  /\ stage = [t \in {"bars", "indicators", "forecasts"} |-> FALSE]
  /\ quotes = [id |-> 0, kind |-> "degraded", fresh |-> FALSE]
  /\ board = [id |-> 0, q |-> 0, bars |-> 0, ctx |-> None]
  /\ ident = 0 /\ closed = FALSE /\ settled = 1 /\ basefile = None
  /\ run = IdleRun /\ bundle = NoBundle /\ uploaded = None /\ runs = 0 /\ other = 0

-----------------------------------------------------------------------------
(* What a hash of the base covers.                                          *)

BarsValid == stage["bars"] /\ bars.session = settled
BarsBase == [bars |-> bars]

\* Mutant: the snapshots' input hashes are not compared with the bars.
BaseValidAny == BarsValid /\ stage["indicators"] /\ stage["forecasts"]

\* _base_state raises unless the latest stages succeeded for the settled session and every snapshot
\* was computed from the bars that are there.
BaseValid == BarsValid /\ stage["indicators"] /\ stage["forecasts"] /\ snap.ind = bars.ver /\ snap.fc = bars.ver

Base == [bars |-> bars, snap |-> snap]
BaseIs(b) == BaseValid /\ b = Base

\* _revalidate_settled_daily_input: same bars, same quote batch, still the closed session.
ContextHolds(ctx) == closed /\ BarsValid /\ ctx = [base |-> BarsBase, q |-> quotes.id]

\* _fast_quotes: still the captured batch, realtime and not older than the slot allows.
FastQuotes(q) == quotes.id = q /\ quotes.kind = "realtime" /\ quotes.fresh

-----------------------------------------------------------------------------
(* The run.                                                                 *)

\* cmd_run reads the configuration and the base file; auto falls back to a full run.
Start(mode) ==
  LET valid == BaseValid /\ basefile = [base |-> Base, ident |-> ident] IN
  /\ run.pc = "idle" /\ runs < MaxRuns /\ runs' = runs + 1
  /\ run' = IF mode = "auto" /\ valid
            THEN [IdleRun EXCEPT !.pc = "quotes", !.mode = "fast", !.ident = ident, !.base = Base]
            ELSE [IdleRun EXCEPT !.pc = "bars", !.ident = ident]
  /\ bundle' = NoBundle
  /\ UNCHANGED <<db, world, basefile, uploaded, other>>

Goto(pc) == run' = [run EXCEPT !.pc = pc]
Stop == run' = IdleRun
OutsideDb == <<world, basefile, bundle, uploaded, runs, other>>

\* A failing or overtaken stage ends the run; a stage that has a task row leaves it failed.
Fail ==
  /\ run.pc \in {"bars", "quotes", "indicators", "forecasts", "signals", "board"} /\ Stop
  /\ stage' = IF run.pc \in DOMAIN stage THEN [stage EXCEPT ![run.pc] = FALSE] ELSE stage
  /\ UNCHANGED <<bars, snap, quotes, board, OutsideDb>>

Bars ==
  /\ run.pc = "bars" /\ Goto("quotes")
  /\ \E v \in {bars.ver, bars.ver + 1} : bars' = [ver |-> v, session |-> settled] /\ (v = bars.ver => bars.session = settled)
  /\ stage' = [stage EXCEPT !["bars"] = TRUE]
  /\ UNCHANGED <<snap, quotes, board, OutsideDb>>

\* _settled_daily_quote_result: display quotes that the settled daily bars stand in for.
SettledContext(kind, q) == IF kind # "realtime" /\ closed /\ BarsValid THEN [base |-> BarsBase, q |-> q] ELSE None

\* _closed_session_quote_result: a complete new batch whose only fault is the time of the close.
ClosedAccepted(kind) == kind = "closing" /\ closed

\* refresh_quotes of a full run: realtime quotes or one of the two; anything else ends the run.
FullQuotes(kind) ==
  LET q == quotes.id + 1
      ctx == SettledContext(kind, q)
      accepted == ctx = None /\ ClosedAccepted(kind) IN
  /\ run.pc = "quotes" /\ run.mode = "full"
  /\ quotes' = [id |-> q, kind |-> kind, fresh |-> TRUE]
  /\ run' = IF kind = "realtime" \/ ctx # None \/ accepted
            THEN [run EXCEPT !.pc = "indicators", !.ctx = ctx, !.accepted = accepted, !.q = q] ELSE IdleRun
  /\ UNCHANGED <<bars, snap, stage, board, OutsideDb>>

\* A fast run starts from a newly captured realtime batch on an unchanged base.
FastCapture ==
  /\ run.pc = "quotes" /\ run.mode = "fast" /\ BaseIs(run.base)
  /\ quotes' = [id |-> quotes.id + 1, kind |-> "realtime", fresh |-> TRUE]
  /\ run' = [run EXCEPT !.pc = "signals", !.q = quotes.id + 1]
  /\ UNCHANGED <<bars, snap, stage, board, OutsideDb>>

Indicators ==
  /\ run.pc = "indicators" /\ Goto("forecasts")
  /\ snap' = [snap EXCEPT !.id = @ + 1, !.ind = bars.ver] /\ stage' = [stage EXCEPT !["indicators"] = TRUE]
  /\ UNCHANGED <<bars, quotes, board, OutsideDb>>

Forecasts ==
  /\ run.pc = "forecasts" /\ Goto("signals")
  /\ snap' = [snap EXCEPT !.id = @ + 1, !.fc = bars.ver] /\ stage' = [stage EXCEPT !["forecasts"] = TRUE]
  /\ UNCHANGED <<bars, quotes, board, OutsideDb>>

\* What a later stage checks before it computes: the captured inputs are still the ones it reads.
StageReady ==
  IF run.mode = "fast" THEN BaseIs(run.base) /\ FastQuotes(run.q) ELSE run.ctx = None \/ ContextHolds(run.ctx)

Signals == run.pc = "signals" /\ StageReady /\ Goto("board") /\ UNCHANGED <<db, OutsideDb>>

Board ==
  /\ run.pc = "board" /\ StageReady /\ Goto("computed")
  /\ board' = [id |-> board.id + 1, q |-> quotes.id, bars |-> bars.ver, ctx |-> run.ctx]
  /\ UNCHANGED <<bars, snap, stage, quotes, OutsideDb>>

\* After the board: the proof of a settled run keeps the complete base and the board it ended with.
Computed ==
  /\ run.pc = "computed"
  /\ run' = IF run.mode = "fast" \/ run.ctx = None THEN [run EXCEPT !.pc = "base"]
            ELSE IF BaseValid THEN [run EXCEPT !.pc = "base", !.full = Base, !.board = board] ELSE IdleRun
  /\ UNCHANGED <<db, OutsideDb>>

\* A full run saves its base for the fast ones, a fast run validates its own again.
PrepareBase ==
  /\ run.pc = "base"
  /\ IF run.mode = "full"
     THEN IF BaseValid THEN basefile' = [base |-> Base, ident |-> run.ident] /\ run' = [run EXCEPT !.pc = "lineage", !.base = Base]
          ELSE Stop /\ UNCHANGED basefile
     ELSE UNCHANGED basefile /\ IF BaseIs(run.base) /\ FastQuotes(run.q) THEN Goto("lineage") ELSE Stop
  /\ UNCHANGED <<db, world, bundle, uploaded, runs, other>>

\* build_execution_lineage: a fast run binds the captured batch, a full run the quotes selected now.
Lineage ==
  /\ run.pc = "lineage"
  /\ run' = IF BaseIs(run.base) /\ (run.mode = "fast" => FastQuotes(run.q))
            THEN [run EXCEPT !.pc = "check", !.lineage = [base |-> run.base, q |-> quotes.id]] ELSE IdleRun
  /\ UNCHANGED <<db, OutsideDb>>

\* check_execution, and the base hash that export_local_v2 compares before its own transaction.
ExportCheck ==
  /\ run.pc = "check"
  /\ run' = IF ident = run.ident /\ BaseIs(run.lineage.base) THEN [run EXCEPT !.pc = "export"] ELSE IdleRun
  /\ UNCHANGED <<db, OutsideDb>>

\* The checks inside the export's transaction.
EvidenceHolds ==
  /\ run.ctx # None => ContextHolds(run.ctx) /\ BaseIs(run.full) /\ board = run.board /\ board.ctx = run.ctx
  /\ run.accepted => closed /\ quotes.id = run.q
  /\ run.lineage.q = quotes.id
  /\ run.mode = "fast" => FastQuotes(run.lineage.q)
  /\ run.mode = "full" /\ run.ctx = None /\ ~run.accepted => quotes.kind = "realtime"

Export ==
  /\ run.pc = "export"
  /\ IF EvidenceHolds
     THEN /\ bundle' = [lineage |-> run.lineage, mode |-> run.mode, board |-> board, bars |-> bars, kind |-> quotes.kind,
                        label |-> IF run.ctx # None THEN "settled_daily" ELSE IF run.accepted THEN "closed_session" ELSE None]
          /\ Goto("upload")
     ELSE Stop /\ UNCHANGED bundle
  /\ UNCHANGED <<db, world, basefile, uploaded, runs, other>>

\* The last check before the transport.
UploadCheck ==
  /\ run.pc = "upload" /\ Stop
  /\ IF ident = run.ident /\ (run.mode = "fast" => BaseIs(run.base) /\ FastQuotes(run.q))
     THEN uploaded' = [bundle |-> bundle, began |-> run.ident, now |-> ident, quotes |-> quotes.id] ELSE UNCHANGED uploaded
  /\ UNCHANGED <<db, world, basefile, bundle, runs, other>>

-----------------------------------------------------------------------------
(* Other writers of the database, and the world.                            *)

Other == other < MaxOther /\ other' = other + 1
RunStays == <<world, basefile, run, bundle, uploaded, runs>>

OtherQuotes(kind) ==
  Other /\ quotes' = [id |-> quotes.id + 1, kind |-> kind, fresh |-> TRUE] /\ UNCHANGED <<bars, snap, stage, board, RunStays>>
OtherBars ==
  /\ Other /\ bars' = [ver |-> bars.ver + 1, session |-> settled] /\ stage' = [stage EXCEPT !["bars"] = TRUE]
  /\ UNCHANGED <<snap, quotes, board, RunStays>>
OtherDerive ==
  /\ Other /\ snap' = [id |-> snap.id + 1, ind |-> bars.ver, fc |-> bars.ver]
  /\ stage' = [stage EXCEPT !["indicators"] = TRUE, !["forecasts"] = TRUE]
  /\ UNCHANGED <<bars, quotes, board, RunStays>>
\* compute_board_only.
OtherBoard ==
  /\ Other /\ board' = [id |-> board.id + 1, q |-> quotes.id, bars |-> bars.ver, ctx |-> None]
  /\ UNCHANGED <<bars, snap, stage, quotes, RunStays>>
ChangeIdentity == Other /\ ident' = ident + 1 /\ UNCHANGED <<db, closed, settled, basefile, run, bundle, uploaded, runs>>

QuotesAge == quotes.fresh /\ quotes' = [quotes EXCEPT !.fresh = FALSE] /\ UNCHANGED <<bars, snap, stage, board, RunStays, other>>
SessionCloses == ~closed /\ closed' = TRUE /\ UNCHANGED <<db, ident, settled, basefile, run, bundle, uploaded, runs, other>>
SessionSettles ==
  /\ closed /\ settled < MaxSettled /\ closed' = FALSE /\ settled' = settled + 1
  /\ UNCHANGED <<db, ident, basefile, run, bundle, uploaded, runs, other>>

ComputeNext ==
  \/ \E m \in {"auto", "full"} : Start(m)
  \/ Fail \/ Bars \/ FastCapture \/ Indicators \/ Forecasts \/ Signals \/ Board \/ Computed \/ PrepareBase
  \/ Lineage \/ ExportCheck \/ Export \/ UploadCheck
  \/ \E k \in QuoteKinds : FullQuotes(k) \/ OtherQuotes(k)
  \/ OtherBars \/ OtherDerive \/ OtherBoard \/ ChangeIdentity \/ QuotesAge \/ SessionCloses \/ SessionSettles

ComputeSpec == ComputeInit /\ [][ComputeNext]_computeVars

-----------------------------------------------------------------------------
History == [ver : Nat, session : Nat]
BaseRecord == [bars : History, snap : [id : Nat, ind : Nat, fc : Nat]]
Context == [base : [bars : History], q : Nat]
SavedBoard == [id : Nat, q : Nat, bars : Nat, ctx : Context \cup {None}]
Lineages == [base : BaseRecord \cup {None}, q : Nat]
Steps == {"idle", "bars", "quotes", "indicators", "forecasts", "signals", "board", "computed", "base", "lineage",
          "check", "export", "upload"}
RunRecord ==
  [pc : Steps, mode : {"full", "fast"}, ident : Nat, base : BaseRecord \cup {None}, q : Nat \cup {None},
   ctx : Context \cup {None}, accepted : BOOLEAN, full : BaseRecord \cup {None},
   board : SavedBoard \cup {None}, lineage : Lineages \cup {None}]
BundleRecord ==
  [lineage : Lineages \cup {None}, mode : {"full", "fast"}, board : SavedBoard \cup {None},
   bars : History \cup {None}, kind : QuoteKinds, label : {"settled_daily", "closed_session", None}]

\* The database, the run and the bundle hold values of their kind.
ComputeTypeOK ==
  /\ bars \in History /\ snap \in [id : Nat, ind : Nat, fc : Nat]
  /\ stage \in [{"bars", "indicators", "forecasts"} -> BOOLEAN]
  /\ quotes \in [id : Nat, kind : QuoteKinds, fresh : BOOLEAN] /\ board \in SavedBoard
  /\ ident \in Nat /\ closed \in BOOLEAN /\ settled \in Nat
  /\ run \in RunRecord /\ bundle \in BundleRecord

\* A fast bundle that is uploaded shows a board computed from the very quote batch its lineage names and
\* from indicators and forecasts of the bars its lineage names, whoever else writes the database
\* meanwhile: the base is compared before the export's transaction and again before the upload.
FastUploadCoherent ==
  uploaded # None /\ uploaded.bundle.mode = "fast" =>
    LET b == uploaded.bundle IN
    /\ b.board.q = b.lineage.q /\ b.board.bars = b.lineage.base.bars.ver /\ b.bars = b.lineage.base.bars
    /\ b.lineage.base.snap.ind = b.board.bars /\ b.lineage.base.snap.fc = b.board.bars

\* A settled bundle shows the board of its own run on the bars and quotes of its proof.
SettledBundleCoherent ==
  bundle.label = "settled_daily" =>
    /\ bundle.board.ctx = [base |-> [bars |-> bundle.bars], q |-> bundle.lineage.q] /\ bundle.board.q = bundle.lineage.q
    /\ bundle.board.bars = bundle.bars.ver

\* A bundle whose quotes are not realtime says so.
NonRealtimeLabelled == bundle.kind # "realtime" => bundle.label # None

\* A bundle is uploaded under the code, configuration and admission its computation began with.
UploadedUnderItsIdentity == uploaded # None => uploaded.began = uploaded.now

\* What a bundle says about itself is so.
BundlesCoherent ==
  /\ ComputeTypeOK /\ FastUploadCoherent /\ SettledBundleCoherent
  /\ NonRealtimeLabelled /\ UploadedUnderItsIdentity

\* "Bind local execution inputs": the quotes a bundle's lineage names are the ones its board was computed from.
LineageBindsBoard == bundle.lineage # None => bundle.board.q = bundle.lineage.q
=============================================================================
