---------------------------- MODULE PublishProofs ----------------------------
(***************************************************************************)
(* Proofs about components that decide what is published and from what: a  *)
(* bundle of LocalCompute is what it says it is, whoever else writes the   *)
(* research database; the mail outbox; the settled pipeline of the evening;*)
(* the series around unit splits; the chain of providers; a board's row.   *)
(*                                                                         *)
(* Two arguments carry the first.  A fast run is pinned from both sides:   *)
(* versions only grow, so a board or a history it remembers lies between   *)
(* the base it was started on and what the database holds now, and the     *)
(* check before the upload closes the interval.  A settled run compares    *)
(* everything inside the transaction that exports it.                      *)
(***************************************************************************)
EXTENDS LocalCompute, MailOutbox, SettledPipeline, CorporateActions, CompositeProvider, BoardRow,
        FiniteSetTheorems, SequenceTheorems, WellFoundedInduction, TLAPS

\* A history that was read before: no newer than the one stored now, and that one if the versions agree.
Seen(h) == h \in History /\ h.ver <= bars.ver /\ (h.ver = bars.ver => h = bars)

\* The board was computed from quotes and bars that had been stored, and its context names them.
BoardBehind ==
  /\ board.q <= quotes.id /\ board.bars <= bars.ver
  /\ board.ctx # None => board.ctx.q = board.q /\ board.ctx.base.bars.ver = board.bars

AfterBoard == {"computed", "base", "lineage", "check", "export", "upload"}
AfterLineage == {"check", "export", "upload"}

\* A fast run was started on a complete base; once its board is there, the board's inputs lie between
\* that base and batch and what is stored.
Pinned(r) ==
  r.mode = "fast" =>
    /\ r.base \in BaseRecord /\ Seen(r.base.bars) /\ r.ctx = None
    /\ r.base.snap.ind = r.base.bars.ver /\ r.base.snap.fc = r.base.bars.ver
    /\ r.pc # "quotes" => r.q \in Nat /\ r.q <= quotes.id
    /\ r.pc \in AfterBoard => r.q <= board.q /\ r.base.bars.ver <= board.bars
    /\ r.pc \in AfterLineage => r.lineage = [base |-> r.base, q |-> r.q]

\* The exported bundle of the run, until it is uploaded.
BundlePinned(r, b) ==
  r.pc = "upload" =>
    /\ b.mode = r.mode
    /\ r.mode = "fast" =>
         /\ b.lineage = r.lineage /\ b.board \in SavedBoard
         /\ r.q <= b.board.q /\ b.board.q <= quotes.id
         /\ r.base.bars.ver <= b.board.bars /\ b.board.bars <= bars.ver
         /\ Seen(b.bars) /\ r.base.bars.ver <= b.bars.ver

ComputeInv ==
  /\ ComputeTypeOK /\ BoardBehind /\ Pinned(run) /\ BundlePinned(run, bundle)
  /\ FastUploadCoherent /\ SettledBundleCoherent /\ NonRealtimeLabelled /\ UploadedUnderItsIdentity

\* What any step does to the database: versions grow, and a history keeps its version only unchanged.
Grows ==
  /\ bars' \in History /\ bars.ver <= bars'.ver /\ (bars'.ver = bars.ver => bars' = bars)
  /\ snap' \in [id : Nat, ind : Nat, fc : Nat]
  /\ stage' \in [{"bars", "indicators", "forecasts"} -> BOOLEAN]
  /\ quotes' \in [id : Nat, kind : QuoteKinds, fresh : BOOLEAN] /\ quotes.id <= quotes'.id
  /\ board' \in SavedBoard /\ board.q <= board'.q /\ board.bars <= board'.bars
  /\ BoardBehind'

\* The stored versions of a typed database are numbers.
LEMMA Numbers ==
  ASSUME ComputeTypeOK
  PROVE /\ {bars.ver, bars.session, snap.id, snap.ind, snap.fc, quotes.id, board.id, board.q, board.bars} \subseteq Nat
        /\ bars = [ver |-> bars.ver, session |-> bars.session]
        /\ board = [id |-> board.id, q |-> board.q, bars |-> board.bars, ctx |-> board.ctx]
        /\ board.ctx \in Context \cup {None}
BY DEF ComputeTypeOK, History, SavedBoard

\* Steps that leave the five tables alone.
LEMMA DbStays == ASSUME ComputeInv, UNCHANGED db PROVE Grows
<1>1. UNCHANGED <<bars, snap, stage, quotes, board>> BY DEF db
<1> QED BY <1>1, Numbers DEF ComputeInv, Grows, ComputeTypeOK, BoardBehind

\* A new history of the settled session, by the run or by another writer (Bars, OtherBars).
LEMMA BarsGrow ==
  ASSUME ComputeInv, UNCHANGED <<snap, quotes, board>>, settled \in Nat,
         stage' = [stage EXCEPT !["bars"] = TRUE],
         NEW v \in {bars.ver, bars.ver + 1}, bars' = [ver |-> v, session |-> settled],
         v = bars.ver => bars.session = settled
  PROVE Grows
<1>1. bars' \in History /\ bars.ver <= bars'.ver /\ (bars'.ver = bars.ver => bars' = bars)
  BY Numbers DEF ComputeInv, History
<1>2. BoardBehind' BY <1>1, Numbers DEF ComputeInv, BoardBehind, History
<1> QED BY <1>1, <1>2, Numbers DEF ComputeInv, ComputeTypeOK, Grows

\* A new batch of quotes (FullQuotes, FastCapture, OtherQuotes), or the present one getting old.
LEMMA QuotesGrow ==
  ASSUME ComputeInv, UNCHANGED <<bars, snap, stage, board>>,
         quotes' \in [id : Nat, kind : QuoteKinds, fresh : BOOLEAN], quotes'.id \in {quotes.id, quotes.id + 1}
  PROVE Grows
<1>1. quotes.id <= quotes'.id BY Numbers DEF ComputeInv
<1>2. BoardBehind' BY <1>1, Numbers DEF ComputeInv, BoardBehind
<1> QED BY <1>1, <1>2, Numbers DEF ComputeInv, ComputeTypeOK, Grows

\* New snapshots or task results (Indicators, Forecasts, Fail, OtherDerive).
LEMMA SnapshotsGrow ==
  ASSUME ComputeInv, UNCHANGED <<bars, quotes, board>>,
         snap' \in [id : Nat, ind : Nat, fc : Nat], stage' \in [{"bars", "indicators", "forecasts"} -> BOOLEAN]
  PROVE Grows
<1>1. BoardBehind' BY DEF ComputeInv, BoardBehind
<1> QED BY <1>1, Numbers DEF ComputeInv, ComputeTypeOK, Grows

\* A new board of the quotes and bars that are there (Board, OtherBoard).
LEMMA BoardGrows ==
  ASSUME ComputeInv, UNCHANGED <<bars, snap, stage, quotes>>, NEW c \in Context \cup {None},
         c # None => c.q = quotes.id /\ c.base.bars.ver = bars.ver,
         board' = [id |-> board.id + 1, q |-> quotes.id, bars |-> bars.ver, ctx |-> c]
  PROVE Grows
<1>1. board' \in SavedBoard /\ board'.q = quotes.id /\ board'.bars = bars.ver /\ board'.ctx = c
  BY Numbers DEF ComputeInv, SavedBoard
<1>2. BoardBehind' BY <1>1, Numbers DEF ComputeInv, BoardBehind
<1>3. board.q <= board'.q /\ board.bars <= board'.bars BY <1>1, Numbers DEF ComputeInv, BoardBehind
<1> QED BY <1>1, <1>2, <1>3, Numbers DEF ComputeInv, ComputeTypeOK, Grows

\* What was seen stays seen.
LEMMA SeenStays ==
  ASSUME ComputeInv, Grows, NEW h, Seen(h)
  PROVE Seen(h)'
<1>1. h.ver \in Nat /\ bars'.ver \in Nat /\ bars.ver \in Nat BY Numbers DEF ComputeInv, Grows, Seen, History
<1> QED BY <1>1 DEF Grows, Seen

\* The pins hold whatever happens to the database.
LEMMA PinsStay ==
  ASSUME ComputeInv, Grows, NEW r, NEW b
  PROVE /\ Pinned(r) => Pinned(r)'
        /\ BundlePinned(r, b) => BundlePinned(r, b)'
<1>n. {bars.ver, quotes.id, board.q, board.bars, bars'.ver, quotes'.id, board'.q, board'.bars} \subseteq Nat
  BY Numbers DEF ComputeInv, Grows, History, SavedBoard
<1>1. ASSUME Pinned(r) PROVE Pinned(r)'
  <2> SUFFICES ASSUME r.mode = "fast"
      PROVE /\ r.base \in BaseRecord /\ Seen(r.base.bars)' /\ r.ctx = None
            /\ r.base.snap.ind = r.base.bars.ver /\ r.base.snap.fc = r.base.bars.ver
            /\ r.pc # "quotes" => r.q \in Nat /\ r.q <= quotes'.id
            /\ r.pc \in AfterBoard => r.q <= board'.q /\ r.base.bars.ver <= board'.bars
            /\ r.pc \in AfterLineage => r.lineage = [base |-> r.base, q |-> r.q]
    BY DEF Pinned
  <2>1. /\ r.base \in BaseRecord /\ Seen(r.base.bars) /\ r.ctx = None
        /\ r.base.snap.ind = r.base.bars.ver /\ r.base.snap.fc = r.base.bars.ver
        /\ r.pc # "quotes" => r.q \in Nat /\ r.q <= quotes.id
        /\ r.pc \in AfterBoard => r.q <= board.q /\ r.base.bars.ver <= board.bars
        /\ r.pc \in AfterLineage => r.lineage = [base |-> r.base, q |-> r.q]
    BY <1>1 DEF Pinned
  <2>2. Seen(r.base.bars)' BY <2>1, SeenStays
  <2>3. r.base.bars.ver \in Nat BY <2>1 DEF Seen, History
  <2>4. r.pc # "quotes" => r.q \in Nat /\ r.q <= quotes'.id BY <1>n, <2>1 DEF Grows
  <2>5. r.pc \in AfterBoard => r.q <= board'.q /\ r.base.bars.ver <= board'.bars
    BY <1>n, <2>1, <2>3 DEF Grows, AfterBoard
  <2> QED BY <2>1, <2>2, <2>4, <2>5
<1>2. ASSUME BundlePinned(r, b) PROVE BundlePinned(r, b)'
  <2>2. CASE r.pc = "upload" /\ r.mode = "fast"
    <3>1. /\ b.board \in SavedBoard /\ b.board.q <= quotes.id /\ b.board.bars <= bars.ver
          /\ Seen(b.bars)
      BY <1>2, <2>2 DEF BundlePinned
    <3>2. Seen(b.bars)' BY <3>1, SeenStays
    <3>3. b.board.q \in Nat /\ b.board.bars \in Nat BY <3>1 DEF SavedBoard
    <3>4. b.board.q <= quotes'.id /\ b.board.bars <= bars'.ver BY <1>n, <3>1, <3>3 DEF Grows
    <3> QED BY <1>2, <2>2, <3>1, <3>2, <3>4 DEF BundlePinned
  <2>3. CASE ~(r.pc = "upload" /\ r.mode = "fast") BY <1>2, <2>3 DEF BundlePinned
  <2> QED BY <2>2, <2>3
<1> QED BY <1>1, <1>2

\* A step outside the run: other writers, identity changes, time and sessions.
LEMMA OutsideStep ==
  ASSUME ComputeInv, Grows, UNCHANGED <<run, bundle, uploaded>>,
         ident' \in Nat, closed' \in BOOLEAN, settled' \in Nat
  PROVE ComputeInv'
<1>1. ComputeTypeOK' BY DEF ComputeInv, ComputeTypeOK, Grows
<1>2. Pinned(run)' /\ BundlePinned(run, bundle)'
  <2>1. PICK r, b : r = run /\ b = bundle OBVIOUS
  <2>2. Pinned(r)' /\ BundlePinned(r, b)' BY <2>1, PinsStay DEF ComputeInv
  <2> QED BY <2>1, <2>2 DEF Pinned, BundlePinned, Seen
<1>3. FastUploadCoherent' /\ SettledBundleCoherent' /\ NonRealtimeLabelled' /\ UploadedUnderItsIdentity'
  BY DEF ComputeInv, FastUploadCoherent, SettledBundleCoherent, NonRealtimeLabelled, UploadedUnderItsIdentity
<1> QED BY <1>1, <1>2, <1>3 DEF ComputeInv, Grows

\* A step of the run up to the export.
LEMMA InsideStep ==
  ASSUME ComputeInv, Grows, UNCHANGED <<bundle, uploaded, ident, closed, settled>>,
         run' \in RunRecord, run'.pc # "upload", Pinned(run)'
  PROVE ComputeInv'
<1>1. ComputeTypeOK' BY DEF ComputeInv, ComputeTypeOK, Grows
<1>2. BundlePinned(run, bundle)' BY DEF BundlePinned
<1>3. FastUploadCoherent' /\ SettledBundleCoherent' /\ NonRealtimeLabelled' /\ UploadedUnderItsIdentity'
  BY DEF ComputeInv, FastUploadCoherent, SettledBundleCoherent, NonRealtimeLabelled, UploadedUnderItsIdentity
<1> QED BY <1>1, <1>2, <1>3 DEF ComputeInv, Grows

\* A run that goes on with what it remembers, or ends.
LEMMA GoesOn ==
  ASSUME ComputeInv, Grows, UNCHANGED <<bundle, uploaded, ident, closed, settled>>, NEW r,
         run' = r, r \in RunRecord, r.pc # "upload", Pinned(r)
  PROVE ComputeInv'
<1>1. Pinned(r)' BY PinsStay
<1>2. Pinned(run)' BY <1>1 DEF Pinned, Seen
<1> QED BY <1>2, InsideStep

\* A run that ends is pinned to nothing.
LEMMA IdleIsPinned == IdleRun \in RunRecord /\ IdleRun.pc = "idle" /\ Pinned(IdleRun)
BY DEF IdleRun, RunRecord, Steps, Pinned

(***************************************************************************)
(* One lemma per step of the run.                                          *)
(***************************************************************************)

\* A complete base was read from the stored rows.
LEMMA BaseIsSeen ==
  ASSUME ComputeInv, NEW b, BaseIs(b)
  PROVE b \in BaseRecord /\ b.bars = bars /\ Seen(b.bars) /\ b.snap.ind = b.bars.ver /\ b.snap.fc = b.bars.ver
<1>1. b = [bars |-> bars, snap |-> snap] /\ snap.ind = bars.ver /\ snap.fc = bars.ver
  BY DEF BaseIs, Base, BaseValid
<1>2. bars \in History /\ snap \in [id : Nat, ind : Nat, fc : Nat] BY DEF ComputeInv, ComputeTypeOK
<1> QED BY <1>1, <1>2, Numbers DEF BaseRecord, Seen, History, ComputeInv

\* cmd_run: a fast run is pinned to the base it validated.
LEMMA StartStep == ASSUME ComputeInv, NEW m, Start(m) PROVE ComputeInv'
<1>1. Grows BY DbStays DEF Start
<1>2. UNCHANGED <<uploaded, ident, closed, settled>> BY DEF Start, world
<1>3. ident \in Nat BY DEF ComputeInv, ComputeTypeOK
<1>4. run' \in RunRecord /\ run'.pc # "upload" /\ Pinned(run)'
  <2>1. CASE run' = [IdleRun EXCEPT !.pc = "bars", !.ident = ident]
    <3>1. run' \in RunRecord /\ run'.mode = "full" /\ run'.pc = "bars"
      BY <1>3, <2>1 DEF IdleRun, RunRecord, Steps
    <3> QED BY <3>1 DEF Pinned
  <2>2. CASE BaseValid /\ run' = [IdleRun EXCEPT !.pc = "quotes", !.mode = "fast", !.ident = ident, !.base = Base]
    <3>1. PICK b : b = Base OBVIOUS
    <3>2. BaseIs(b) BY <2>2, <3>1 DEF BaseIs
    <3>3. /\ b \in BaseRecord /\ Seen(b.bars) /\ b.snap.ind = b.bars.ver /\ b.snap.fc = b.bars.ver
      BY <3>2, BaseIsSeen
    <3>4. run' \in RunRecord /\ run'.mode = "fast" /\ run'.pc = "quotes" /\ run'.base = b /\ run'.ctx = None
      BY <1>3, <2>2, <3>1, <3>3 DEF IdleRun, RunRecord, Steps
    <3>5. Seen(b.bars)' BY <1>1, <3>3, SeenStays
    <3>6. run'.pc \notin AfterBoard /\ run'.pc \notin AfterLineage BY <3>4 DEF AfterBoard, AfterLineage
    <3> QED BY <3>3, <3>4, <3>5, <3>6 DEF Pinned, Seen
  <2> QED BY <2>1, <2>2 DEF Start
<1>5. bundle' = NoBundle BY DEF Start
<1>6. NoBundle \in BundleRecord BY DEF NoBundle, BundleRecord, QuoteKinds
<1>7. ComputeTypeOK' BY <1>1, <1>2, <1>4, <1>5, <1>6 DEF ComputeInv, ComputeTypeOK, Grows
<1>8. BundlePinned(run, bundle)' BY <1>4 DEF BundlePinned
<1>9. FastUploadCoherent' /\ UploadedUnderItsIdentity'
  BY <1>2 DEF ComputeInv, FastUploadCoherent, UploadedUnderItsIdentity
<1>10. SettledBundleCoherent' /\ NonRealtimeLabelled'
  BY <1>5, ComputeAssumption DEF SettledBundleCoherent, NonRealtimeLabelled, NoBundle
<1> QED BY <1>1, <1>4, <1>7, <1>8, <1>9, <1>10 DEF ComputeInv, Grows

\* Stages that fail, and the stages of a full run before the signals.
LEMMA EarlyStep ==
  ASSUME ComputeInv, Fail \/ Bars \/ Indicators \/ Forecasts \/ \E k \in QuoteKinds : FullQuotes(k)
  PROVE ComputeInv'
<1>1. UNCHANGED <<bundle, uploaded, ident, closed, settled>> /\ settled \in Nat
  BY DEF Fail, Bars, Indicators, Forecasts, FullQuotes, OutsideDb, world, ComputeInv, ComputeTypeOK
<1>2. stage \in [{"bars", "indicators", "forecasts"} -> BOOLEAN] /\ run \in RunRecord
      /\ snap \in [id : Nat, ind : Nat, fc : Nat] /\ bars \in History
  BY DEF ComputeInv, ComputeTypeOK
<1>f. run.mode \in {"full", "fast"} BY <1>2 DEF RunRecord
<1>3. CASE Fail
  <2>1. stage' \in [{"bars", "indicators", "forecasts"} -> BOOLEAN] BY <1>2, <1>3 DEF Fail
  <2>2. Grows BY <1>2, <1>3, <2>1, SnapshotsGrow DEF Fail
  <2>3. run' = IdleRun BY <1>3 DEF Fail, Stop
  <2> QED BY <1>1, <2>2, <2>3, IdleIsPinned, GoesOn
<1>4. CASE Bars
  <2>1. PICK v \in {bars.ver, bars.ver + 1} :
          bars' = [ver |-> v, session |-> settled] /\ (v = bars.ver => bars.session = settled)
    BY <1>4 DEF Bars
  <2>2. stage' = [stage EXCEPT !["bars"] = TRUE] /\ UNCHANGED <<snap, quotes, board>> BY <1>4 DEF Bars
  <2>3. Grows BY <1>1, <2>1, <2>2, BarsGrow
  <2>4. PICK r : r = [run EXCEPT !.pc = "quotes"] OBVIOUS
  <2>5. run' = r /\ run.pc = "bars" BY <1>4, <2>4 DEF Bars, Goto
  <2>6. r \in RunRecord /\ r.pc = "quotes" /\ r.mode = run.mode /\ r.base = run.base /\ r.ctx = run.ctx
    BY <1>2, <2>4 DEF RunRecord, Steps
  <2>7. Pinned(r) BY <2>5, <2>6 DEF ComputeInv, Pinned, AfterBoard, AfterLineage
  <2> QED BY <1>1, <2>3, <2>5, <2>6, <2>7, GoesOn
<1>5. CASE Indicators \/ Forecasts
  <2>0. {bars.ver, snap.id + 1} \subseteq Nat BY Numbers DEF ComputeInv
  <2>1. snap' \in [id : Nat, ind : Nat, fc : Nat]
    <3>1. CASE Indicators
      <4>1. snap' = [[snap EXCEPT !.id = snap.id + 1] EXCEPT !.ind = bars.ver] BY <3>1 DEF Indicators
      <4> QED BY <1>2, <2>0, <4>1
    <3>2. CASE Forecasts
      <4>1. snap' = [[snap EXCEPT !.id = snap.id + 1] EXCEPT !.fc = bars.ver] BY <3>2 DEF Forecasts
      <4> QED BY <1>2, <2>0, <4>1
    <3> QED BY <1>5, <3>1, <3>2
  <2>2. stage' \in [{"bars", "indicators", "forecasts"} -> BOOLEAN] BY <1>2, <1>5 DEF Indicators, Forecasts
  <2>3. Grows BY <1>5, <2>1, <2>2, SnapshotsGrow DEF Indicators, Forecasts
  <2>4. PICK p \in {"forecasts", "signals"} : run' = [run EXCEPT !.pc = p]
    BY <1>5 DEF Indicators, Forecasts, Goto
  <2>5. PICK r : r = [run EXCEPT !.pc = p] OBVIOUS
  <2>6. r \in RunRecord /\ r.pc = p /\ r.mode = run.mode /\ r.base = run.base /\ r.q = run.q
        /\ r.ctx = run.ctx
    BY <1>2, <2>5 DEF RunRecord, Steps
  <2>7. run.pc # "quotes" BY <1>5 DEF Indicators, Forecasts
  <2>8. Pinned(r) BY <2>6, <2>7 DEF ComputeInv, Pinned, AfterBoard, AfterLineage
  <2> QED BY <1>1, <2>3, <2>4, <2>5, <2>6, <2>8, GoesOn
<1>6. CASE \E k \in QuoteKinds : FullQuotes(k)
  <2>1. PICK k \in QuoteKinds : FullQuotes(k) BY <1>6
  <2>2. PICK q : q = quotes.id + 1 OBVIOUS
  <2>3. q \in Nat BY <2>2, Numbers DEF ComputeInv
  <2>4. quotes' = [id |-> q, kind |-> k, fresh |-> TRUE] /\ UNCHANGED <<bars, snap, stage, board>>
    BY <2>1, <2>2 DEF FullQuotes
  <2>5. quotes' \in [id : Nat, kind : QuoteKinds, fresh : BOOLEAN] /\ quotes'.id = quotes.id + 1
    BY <2>2, <2>3, <2>4
  <2>6. Grows BY <2>4, <2>5, QuotesGrow
  <2>7. PICK c : c = SettledContext(k, q) OBVIOUS
  <2>8. c \in Context \cup {None}
    BY <1>2, <2>3, <2>7 DEF SettledContext, BarsBase, Context
  <2>9. PICK a \in BOOLEAN : run' \in {[run EXCEPT !.pc = "indicators", !.ctx = c, !.accepted = a, !.q = q], IdleRun}
    <3>1. (c = None /\ ClosedAccepted(k)) \in BOOLEAN BY DEF ClosedAccepted
    <3> QED BY <2>1, <2>2, <2>7, <3>1 DEF FullQuotes
  <2>10. CASE run' = [run EXCEPT !.pc = "indicators", !.ctx = c, !.accepted = a, !.q = q]
    <3>1. PICK r : r = [run EXCEPT !.pc = "indicators", !.ctx = c, !.accepted = a, !.q = q] OBVIOUS
    <3>2. r \in RunRecord /\ r.mode = run.mode /\ r.pc = "indicators"
      BY <1>2, <2>3, <2>8, <3>1 DEF RunRecord, Steps
    <3>3. run.mode = "full" BY <2>1 DEF FullQuotes
    <3>4. Pinned(r) BY <3>2, <3>3 DEF Pinned
    <3> QED BY <1>1, <2>6, <2>10, <3>1, <3>2, <3>4, GoesOn
  <2>11. CASE run' = IdleRun BY <1>1, <2>6, <2>11, IdleIsPinned, GoesOn
  <2> QED BY <2>9, <2>10, <2>11
<1> QED BY <1>3, <1>4, <1>5, <1>6

\* The fast run captures its quotes on the base it was started on.
LEMMA CaptureStep == ASSUME ComputeInv, FastCapture PROVE ComputeInv'
<1>1. UNCHANGED <<bundle, uploaded, ident, closed, settled>> BY DEF FastCapture, OutsideDb, world
<1>2. PICK q : q = quotes.id + 1 OBVIOUS
<1>3. q \in Nat /\ quotes.id \in Nat BY <1>2, Numbers DEF ComputeInv
<1>4. quotes' = [id |-> q, kind |-> "realtime", fresh |-> TRUE] /\ UNCHANGED <<bars, snap, stage, board>>
  BY <1>2 DEF FastCapture
<1>5. quotes' \in [id : Nat, kind : QuoteKinds, fresh : BOOLEAN] /\ quotes'.id = q BY <1>3, <1>4 DEF QuoteKinds
<1>6. Grows BY <1>2, <1>4, <1>5, QuotesGrow
<1>7. run \in RunRecord BY DEF ComputeInv, ComputeTypeOK
<1>8. run' = [run EXCEPT !.pc = "signals", !.q = q] /\ run.mode = "fast" BY <1>2 DEF FastCapture
<1>9. run' \in RunRecord /\ run'.pc = "signals" /\ run'.base = run.base /\ run'.q = q /\ run'.ctx = run.ctx
  BY <1>3, <1>7, <1>8 DEF RunRecord, Steps
<1>10. /\ run.base \in BaseRecord /\ Seen(run.base.bars) /\ run.ctx = None
       /\ run.base.snap.ind = run.base.bars.ver /\ run.base.snap.fc = run.base.bars.ver
  BY <1>8 DEF ComputeInv, Pinned
<1>11. PICK h : h = run.base.bars OBVIOUS
<1>12. Seen(h)' BY <1>6, <1>10, <1>11, SeenStays
<1>13. run'.pc \notin AfterBoard /\ run'.pc \notin AfterLineage BY <1>9 DEF AfterBoard, AfterLineage
<1>14. Pinned(run)' BY <1>3, <1>5, <1>9, <1>10, <1>11, <1>12, <1>13 DEF Pinned, Seen
<1> QED BY <1>1, <1>6, <1>9, <1>14, InsideStep

\* The board is computed on the captured inputs, which are still the stored ones.
LEMMA BoardStep == ASSUME ComputeInv, Board PROVE ComputeInv'
<1>1. UNCHANGED <<bundle, uploaded, ident, closed, settled>> BY DEF Board, OutsideDb, world
<1>2. run \in RunRecord BY DEF ComputeInv, ComputeTypeOK
<1>3. PICK c : c = run.ctx OBVIOUS
<1>4. c \in Context \cup {None} /\ run.mode \in {"full", "fast"} BY <1>2, <1>3 DEF RunRecord
<1>5. run' = [run EXCEPT !.pc = "computed"] /\ run.pc = "board" /\ StageReady BY DEF Board, Goto
<1>6. /\ run' \in RunRecord /\ run'.pc = "computed" /\ run'.mode = run.mode /\ run'.base = run.base
      /\ run'.q = run.q /\ run'.ctx = run.ctx
  BY <1>2, <1>5 DEF RunRecord, Steps
<1>7. board' = [id |-> board.id + 1, q |-> quotes.id, bars |-> bars.ver, ctx |-> c]
      /\ UNCHANGED <<bars, snap, stage, quotes>>
  BY <1>3 DEF Board
<1>8. c # None => c.q = quotes.id /\ c.base.bars.ver = bars.ver
  <2>1. run.mode = "fast" => c = None BY <1>3 DEF ComputeInv, Pinned
  <2>2. c = None \/ ContextHolds(c) BY <1>3, <1>5, <2>1 DEF StageReady
  <2> QED BY <2>2 DEF ContextHolds, BarsBase
<1>9. Grows BY <1>4, <1>7, <1>8, BoardGrows
<1>10. Pinned(run)'
  <2>1. CASE run.mode = "full" BY <1>6, <2>1 DEF Pinned
  <2>2. CASE run.mode = "fast"
    <3>1. PICK b : b = run.base OBVIOUS
    <3>2. BaseIs(b) /\ run.q = quotes.id BY <1>5, <2>2, <3>1 DEF StageReady, FastQuotes
    <3>3. b \in BaseRecord /\ b.bars = bars /\ Seen(b.bars) /\ b.snap.ind = b.bars.ver /\ b.snap.fc = b.bars.ver
      BY <3>2, BaseIsSeen
    <3>4. Seen(b.bars)' BY <1>9, <3>3, SeenStays
    <3>5. quotes.id \in Nat /\ bars.ver \in Nat BY Numbers DEF ComputeInv
    <3>6. run.q <= board'.q /\ b.bars.ver <= board'.bars /\ run.q \in Nat /\ run.q <= quotes'.id
      BY <1>7, <3>2, <3>3, <3>5
    <3>7. run'.pc \notin AfterLineage BY <1>6 DEF AfterLineage
    <3>8. run.ctx = None BY <2>2 DEF ComputeInv, Pinned
    <3> QED BY <1>6, <3>1, <3>3, <3>4, <3>6, <3>7, <3>8 DEF Pinned, Seen
  <2> QED BY <1>4, <2>1, <2>2
<1> QED BY <1>1, <1>6, <1>9, <1>10, InsideStep

\* The steps that read only: the signals, the proof of a settled run, the base, the lineage, the
\* check before the export.
LEMMA ReadStep ==
  ASSUME ComputeInv, Signals \/ Computed \/ PrepareBase \/ Lineage \/ ExportCheck
  PROVE ComputeInv'
<1>1. UNCHANGED db /\ UNCHANGED <<bundle, uploaded, ident, closed, settled>>
  BY DEF Signals, Computed, PrepareBase, Lineage, ExportCheck, OutsideDb, world
<1>2. Grows BY <1>1, DbStays
<1>3. run \in RunRecord /\ board \in SavedBoard BY DEF ComputeInv, ComputeTypeOK
<1>i. CASE run' = IdleRun BY <1>1, <1>2, <1>i, IdleIsPinned, GoesOn
<1>4. CASE Signals
  <2>1. PICK r : r = [run EXCEPT !.pc = "board"] OBVIOUS
  <2>2. run' = r /\ run.pc = "signals" BY <1>4, <2>1 DEF Signals, Goto
  <2>3. r \in RunRecord /\ r.pc = "board" /\ r.mode = run.mode /\ r.base = run.base /\ r.q = run.q /\ r.ctx = run.ctx
    BY <1>3, <2>1 DEF RunRecord, Steps
  <2>4. Pinned(r) BY <2>2, <2>3 DEF ComputeInv, Pinned, AfterBoard, AfterLineage
  <2> QED BY <1>1, <1>2, <2>2, <2>3, <2>4, GoesOn
<1>5. CASE Computed /\ run' # IdleRun
  <2>1. run.pc = "computed" BY <1>5 DEF Computed
  <2>2. CASE run' = [run EXCEPT !.pc = "base"]
    <3>1. PICK r : r = [run EXCEPT !.pc = "base"] OBVIOUS
    <3>2. r \in RunRecord /\ r.pc = "base" /\ r.mode = run.mode /\ r.base = run.base /\ r.q = run.q /\ r.ctx = run.ctx
      BY <1>3, <3>1 DEF RunRecord, Steps
    <3>3. Pinned(r) BY <2>1, <3>2 DEF ComputeInv, Pinned, AfterBoard, AfterLineage
    <3> QED BY <1>1, <1>2, <2>2, <3>1, <3>2, <3>3, GoesOn
  <2>3. CASE run.mode # "fast" /\ BaseValid /\ run' = [run EXCEPT !.pc = "base", !.full = Base, !.board = board]
    <3>1. PICK b : b = Base OBVIOUS
    <3>2. b \in BaseRecord BY <2>3, <3>1, BaseIsSeen DEF BaseIs
    <3>3. PICK r : r = [run EXCEPT !.pc = "base", !.full = b, !.board = board] OBVIOUS
    <3>4. r \in RunRecord /\ r.pc = "base" /\ r.mode = run.mode
      BY <1>3, <3>2, <3>3 DEF RunRecord, Steps
    <3>5. Pinned(r) BY <2>3, <3>4 DEF Pinned
    <3> QED BY <1>1, <1>2, <2>3, <3>1, <3>3, <3>4, <3>5, GoesOn
  <2> QED BY <1>5, <2>2, <2>3 DEF Computed
<1>6. CASE PrepareBase /\ run' # IdleRun
  <2>1. run.pc = "base" BY <1>6 DEF PrepareBase
  <2>2. CASE run.mode = "full" /\ BaseValid /\ run' = [run EXCEPT !.pc = "lineage", !.base = Base]
    <3>1. PICK b : b = Base OBVIOUS
    <3>2. b \in BaseRecord BY <2>2, <3>1, BaseIsSeen DEF BaseIs
    <3>3. PICK r : r = [run EXCEPT !.pc = "lineage", !.base = b] OBVIOUS
    <3>4. r \in RunRecord /\ r.pc = "lineage" /\ r.mode = run.mode
      BY <1>3, <3>2, <3>3 DEF RunRecord, Steps
    <3>5. Pinned(r) BY <2>2, <3>4 DEF Pinned
    <3> QED BY <1>1, <1>2, <2>2, <3>1, <3>3, <3>4, <3>5, GoesOn
  <2>3. CASE run' = [run EXCEPT !.pc = "lineage"]
    <3>1. PICK r : r = [run EXCEPT !.pc = "lineage"] OBVIOUS
    <3>2. r \in RunRecord /\ r.pc = "lineage" /\ r.mode = run.mode /\ r.base = run.base /\ r.q = run.q
          /\ r.ctx = run.ctx
      BY <1>3, <3>1 DEF RunRecord, Steps
    <3>3. Pinned(r) BY <2>1, <3>2 DEF ComputeInv, Pinned, AfterBoard, AfterLineage
    <3> QED BY <1>1, <1>2, <2>3, <3>1, <3>2, <3>3, GoesOn
  <2> QED BY <1>6, <2>2, <2>3 DEF PrepareBase, Goto, Stop
<1>7. CASE Lineage /\ run' # IdleRun
  <2>1. PICK l : l = [base |-> run.base, q |-> quotes.id] OBVIOUS
  <2>2. run.pc = "lineage" /\ run' = [run EXCEPT !.pc = "check", !.lineage = l]
        /\ (run.mode = "fast" => run.q = quotes.id)
    BY <1>7, <2>1 DEF Lineage, FastQuotes
  <2>3. l \in Lineages BY <1>3, <2>1, Numbers DEF ComputeInv, Lineages, RunRecord
  <2>4. PICK r : r = [run EXCEPT !.pc = "check", !.lineage = l] OBVIOUS
  <2>5. /\ r \in RunRecord /\ r.pc = "check" /\ r.mode = run.mode /\ r.base = run.base /\ r.q = run.q
        /\ r.ctx = run.ctx /\ r.lineage = l
    BY <1>3, <2>3, <2>4 DEF RunRecord, Steps
  <2>6. Pinned(r) BY <2>1, <2>2, <2>5 DEF ComputeInv, Pinned, AfterBoard, AfterLineage
  <2> QED BY <1>1, <1>2, <2>2, <2>4, <2>5, <2>6, GoesOn
<1>8. CASE ExportCheck /\ run' # IdleRun
  <2>1. PICK r : r = [run EXCEPT !.pc = "export"] OBVIOUS
  <2>2. run' = r /\ run.pc = "check" BY <1>8, <2>1 DEF ExportCheck
  <2>3. /\ r \in RunRecord /\ r.pc = "export" /\ r.mode = run.mode /\ r.base = run.base /\ r.q = run.q
        /\ r.ctx = run.ctx /\ r.lineage = run.lineage
    BY <1>3, <2>1 DEF RunRecord, Steps
  <2>4. Pinned(r) BY <2>2, <2>3 DEF ComputeInv, Pinned, AfterBoard, AfterLineage
  <2> QED BY <1>1, <1>2, <2>2, <2>3, <2>4, GoesOn
<1> QED BY <1>i, <1>4, <1>5, <1>6, <1>7, <1>8

\* The export: everything the bundle says is compared inside its transaction.
LEMMA ExportStep == ASSUME ComputeInv, Export PROVE ComputeInv'
<1>1. UNCHANGED db /\ UNCHANGED <<uploaded, ident, closed, settled>> BY DEF Export, world
<1>2. Grows BY <1>1, DbStays
<1>3. run \in RunRecord /\ board \in SavedBoard /\ bars \in History /\ quotes.kind \in QuoteKinds /\ run.pc = "export"
  BY DEF ComputeInv, ComputeTypeOK, Export
<1>4. CASE UNCHANGED bundle /\ run' = IdleRun BY <1>1, <1>2, <1>4, IdleIsPinned, GoesOn
<1>5. CASE EvidenceHolds /\ run' = [run EXCEPT !.pc = "upload"]
  <2> DEFINE label == IF run.ctx # None THEN "settled_daily" ELSE IF run.accepted THEN "closed_session" ELSE None
  <2>1. bundle' = [lineage |-> run.lineage, mode |-> run.mode, board |-> board, bars |-> bars, kind |-> quotes.kind,
                   label |-> label]
    BY <1>5, IdleIsPinned DEF Export, Stop
  <2>2. label \in {"settled_daily", "closed_session", None} OBVIOUS
  <2>3. /\ bundle'.lineage = run.lineage /\ bundle'.mode = run.mode /\ bundle'.board = board
        /\ bundle'.bars = bars /\ bundle'.kind = quotes.kind /\ bundle'.label = label
    BY <2>1
  <2>4. bundle' \in BundleRecord BY <1>3, <2>1, <2>2 DEF BundleRecord, RunRecord
  <2>5. PICK r : r = [run EXCEPT !.pc = "upload"] OBVIOUS
  <2>6. /\ r \in RunRecord /\ r.pc = "upload" /\ r.mode = run.mode /\ r.base = run.base /\ r.q = run.q
        /\ r.ctx = run.ctx /\ r.lineage = run.lineage
    BY <1>3, <2>5 DEF RunRecord, Steps
  <2>7. Pinned(r) BY <1>3, <2>6 DEF ComputeInv, Pinned, AfterBoard, AfterLineage
  <2>8. Pinned(run)'
    <3>1. Pinned(r)' BY <1>2, <2>7, PinsStay
    <3> QED BY <1>5, <2>5, <3>1 DEF Pinned, Seen
  <2>9. PICK b : b = bundle' OBVIOUS
  <2>10. BundlePinned(r, b)
    <3> SUFFICES ASSUME run.mode = "fast"
        PROVE /\ run.q <= board.q /\ board.q <= quotes.id
              /\ run.base.bars.ver <= board.bars /\ board.bars <= bars.ver
              /\ Seen(bars) /\ run.base.bars.ver <= bars.ver
      BY <1>3, <2>3, <2>6, <2>9 DEF BundlePinned
    <3>1. run.q <= board.q /\ run.base.bars.ver <= board.bars /\ Seen(run.base.bars)
      BY <1>3 DEF ComputeInv, Pinned, AfterBoard
    <3>2. board.q <= quotes.id /\ board.bars <= bars.ver BY DEF ComputeInv, BoardBehind
    <3>3. Seen(bars) BY <1>3, Numbers DEF ComputeInv, Seen
    <3> QED BY <3>1, <3>2, <3>3 DEF Seen
  <2>11. BundlePinned(run, bundle)'
    <3>1. BundlePinned(r, b)' BY <1>2, <2>10, PinsStay
    <3> QED BY <1>5, <2>5, <2>9, <3>1 DEF BundlePinned, Seen
  <2>12. SettledBundleCoherent'
    <3> SUFFICES ASSUME label = "settled_daily"
        PROVE /\ board.ctx = [base |-> [bars |-> bars], q |-> run.lineage.q] /\ board.q = run.lineage.q
              /\ board.bars = bars.ver
      BY <2>3 DEF SettledBundleCoherent
    <3>1. run.ctx # None BY ComputeAssumption
    <3>2. ContextHolds(run.ctx) /\ board.ctx = run.ctx /\ run.lineage.q = quotes.id BY <1>5, <3>1 DEF EvidenceHolds
    <3>3. board.ctx.q = board.q /\ board.ctx.base.bars.ver = board.bars
      BY <3>1, <3>2 DEF ComputeInv, BoardBehind
    <3> QED BY <3>2, <3>3 DEF ContextHolds, BarsBase
  <2>13. NonRealtimeLabelled'
    <3> SUFFICES ASSUME quotes.kind # "realtime" PROVE label # None
      BY <2>3 DEF NonRealtimeLabelled
    <3>1. run.mode = "full" BY <1>3, <1>5 DEF EvidenceHolds, FastQuotes, RunRecord
    <3>2. run.ctx # None \/ run.accepted BY <1>5, <3>1 DEF EvidenceHolds
    <3> QED BY <3>2, ComputeAssumption
  <2> HIDE DEF label
  <2>14. FastUploadCoherent' /\ UploadedUnderItsIdentity'
    BY <1>1 DEF ComputeInv, FastUploadCoherent, UploadedUnderItsIdentity
  <2>15. ComputeTypeOK' BY <1>1, <1>2, <1>5, <2>4, <2>5, <2>6 DEF ComputeInv, ComputeTypeOK, Grows
  <2> QED BY <1>2, <2>8, <2>11, <2>12, <2>13, <2>14, <2>15 DEF ComputeInv, Grows
<1> QED BY <1>4, <1>5 DEF Export, Goto, Stop

\* The upload: what the fast run was pinned to from below is what is stored now.
LEMMA UploadStep == ASSUME ComputeInv, UploadCheck PROVE ComputeInv'
<1>1. UNCHANGED db /\ UNCHANGED <<bundle, ident, closed, settled>> BY DEF UploadCheck, world
<1>2. Grows BY <1>1, DbStays
<1>3. run' = IdleRun /\ run.pc = "upload" BY DEF UploadCheck, Stop
<1>4. CASE UNCHANGED uploaded BY <1>1, <1>2, <1>3, <1>4, IdleIsPinned, GoesOn
<1>5. CASE /\ ident = run.ident /\ (run.mode = "fast" => BaseIs(run.base) /\ FastQuotes(run.q))
           /\ uploaded' = [bundle |-> bundle, began |-> run.ident, now |-> ident, quotes |-> quotes.id]
  <2>1. uploaded'.bundle = bundle /\ uploaded'.began = uploaded'.now BY <1>5
  <2>2. FastUploadCoherent'
    <3> SUFFICES ASSUME bundle.mode = "fast"
        PROVE /\ bundle.board.q = bundle.lineage.q /\ bundle.board.bars = bundle.lineage.base.bars.ver
              /\ bundle.bars = bundle.lineage.base.bars
              /\ bundle.lineage.base.snap.ind = bundle.board.bars /\ bundle.lineage.base.snap.fc = bundle.board.bars
      BY <2>1 DEF FastUploadCoherent
    <3>1. run.mode = "fast" BY <1>3 DEF ComputeInv, BundlePinned
    <3>2. /\ bundle.lineage = run.lineage /\ bundle.board \in SavedBoard
          /\ run.q <= bundle.board.q /\ bundle.board.q <= quotes.id
          /\ run.base.bars.ver <= bundle.board.bars /\ bundle.board.bars <= bars.ver
          /\ Seen(bundle.bars) /\ run.base.bars.ver <= bundle.bars.ver
      BY <1>3, <3>1 DEF ComputeInv, BundlePinned
    <3>3. run.lineage = [base |-> run.base, q |-> run.q] BY <1>3, <3>1 DEF ComputeInv, Pinned, AfterLineage
    <3>4. PICK b : b = run.base OBVIOUS
    <3>5. BaseIs(b) /\ quotes.id = run.q BY <1>5, <3>1, <3>4 DEF FastQuotes
    <3>6. b.bars = bars /\ b.snap.ind = b.bars.ver /\ b.snap.fc = b.bars.ver BY <3>5, BaseIsSeen
    <3>7. {bundle.board.q, bundle.board.bars, quotes.id, bars.ver} \subseteq Nat
      BY <3>2, Numbers DEF ComputeInv, SavedBoard
    <3>8. bundle.board.q = run.q /\ bundle.board.bars = bars.ver BY <3>2, <3>4, <3>5, <3>6, <3>7
    <3>9. bundle.bars = bars
      <4>1. bundle.bars.ver \in Nat BY <3>2 DEF Seen, History
      <4> QED BY <3>2, <3>4, <3>6, <3>7, <4>1 DEF Seen
    <3> QED BY <3>2, <3>3, <3>4, <3>6, <3>8, <3>9
  <2>3. UploadedUnderItsIdentity' BY <2>1 DEF UploadedUnderItsIdentity
  <2>4. SettledBundleCoherent' /\ NonRealtimeLabelled'
    BY <1>1 DEF ComputeInv, SettledBundleCoherent, NonRealtimeLabelled
  <2>5. ComputeTypeOK' BY <1>1, <1>2, <1>3, IdleIsPinned DEF ComputeInv, ComputeTypeOK, Grows
  <2>6. Pinned(run)' /\ BundlePinned(run, bundle)' BY <1>3, IdleIsPinned DEF Pinned, BundlePinned, IdleRun
  <2> QED BY <1>2, <2>2, <2>3, <2>4, <2>5, <2>6 DEF ComputeInv, Grows
<1> QED BY <1>4, <1>5 DEF UploadCheck

(***************************************************************************)
(* Other writers and the world.                                            *)
(***************************************************************************)

\* Other writers, a changed identity, quotes that age, a session that closes or settles.
LEMMA WorldStep ==
  ASSUME ComputeInv,
         \/ \E k \in QuoteKinds : OtherQuotes(k)
         \/ OtherBars \/ OtherDerive \/ OtherBoard \/ ChangeIdentity \/ QuotesAge \/ SessionCloses \/ SessionSettles
  PROVE ComputeInv'
<1>1. UNCHANGED <<run, bundle, uploaded>>
  BY DEF OtherQuotes, OtherBars, OtherDerive, OtherBoard, ChangeIdentity, QuotesAge, SessionCloses, SessionSettles,
         RunStays
<1>2. /\ ident \in Nat /\ closed \in BOOLEAN /\ settled \in Nat
      /\ stage \in [{"bars", "indicators", "forecasts"} -> BOOLEAN]
      /\ quotes \in [id : Nat, kind : QuoteKinds, fresh : BOOLEAN]
  BY DEF ComputeInv, ComputeTypeOK
<1>3. ident' \in Nat /\ closed' \in BOOLEAN /\ settled' \in Nat
  <2>1. CASE UNCHANGED world BY <1>2, <2>1 DEF world
  <2>2. CASE ChangeIdentity
    <3>1. ident' = ident + 1 /\ UNCHANGED <<closed, settled>> BY <2>2 DEF ChangeIdentity
    <3> QED BY <1>2, <3>1
  <2>3. CASE SessionCloses
    <3>1. closed' = TRUE /\ UNCHANGED <<ident, settled>> BY <2>3 DEF SessionCloses
    <3>2. closed' \in BOOLEAN BY <3>1
    <3> QED BY <1>2, <3>1, <3>2
  <2>4. CASE SessionSettles
    <3>1. closed' = FALSE /\ settled' = settled + 1 /\ UNCHANGED ident BY <2>4 DEF SessionSettles
    <3>2. closed' \in BOOLEAN BY <3>1
    <3> QED BY <1>2, <3>1, <3>2
  <2>5. UNCHANGED world \/ ChangeIdentity \/ SessionCloses \/ SessionSettles
    <3>1. CASE \E k \in QuoteKinds : OtherQuotes(k) BY <3>1 DEF OtherQuotes, RunStays
    <3>2. CASE OtherBars BY <3>2 DEF OtherBars, RunStays
    <3>3. CASE OtherDerive BY <3>3 DEF OtherDerive, RunStays
    <3>4. CASE OtherBoard BY <3>4 DEF OtherBoard, RunStays
    <3>5. CASE QuotesAge BY <3>5 DEF QuotesAge, RunStays
    <3> QED BY <3>1, <3>2, <3>3, <3>4, <3>5
  <2> QED BY <2>1, <2>2, <2>3, <2>4, <2>5
<1>n. {quotes.id, quotes.id + 1, bars.ver, bars.ver + 1, snap.id + 1} \subseteq Nat BY Numbers DEF ComputeInv
<1>4. CASE \E k \in QuoteKinds : OtherQuotes(k)
  <2>1. PICK k \in QuoteKinds : OtherQuotes(k) BY <1>4
  <2>2. quotes' = [id |-> quotes.id + 1, kind |-> k, fresh |-> TRUE] /\ UNCHANGED <<bars, snap, stage, board>>
    BY <2>1 DEF OtherQuotes
  <2>3. quotes' \in [id : Nat, kind : QuoteKinds, fresh : BOOLEAN] /\ quotes'.id = quotes.id + 1 BY <1>n, <2>2
  <2> QED BY <1>1, <1>3, <2>2, <2>3, QuotesGrow, OutsideStep
<1>5. CASE OtherBars
  <2>1. PICK v \in {bars.ver, bars.ver + 1} : v = bars.ver + 1 OBVIOUS
  <2>2. v # bars.ver BY <1>n, <2>1
  <2>3. Grows BY <1>2, <1>5, <2>1, <2>2, BarsGrow DEF OtherBars
  <2> QED BY <1>1, <1>3, <2>3, OutsideStep
<1>6. CASE OtherDerive
  <2>1. snap' \in [id : Nat, ind : Nat, fc : Nat] BY <1>6, <1>n DEF OtherDerive
  <2>2. stage' \in [{"bars", "indicators", "forecasts"} -> BOOLEAN] BY <1>2, <1>6 DEF OtherDerive
  <2>3. Grows BY <1>6, <2>1, <2>2, SnapshotsGrow DEF OtherDerive
  <2> QED BY <1>1, <1>3, <2>3, OutsideStep
<1>7. CASE OtherBoard
  <2>1. PICK c \in Context \cup {None} : c = None OBVIOUS
  <2>2. Grows BY <1>7, <2>1, BoardGrows DEF OtherBoard
  <2> QED BY <1>1, <1>3, <2>2, OutsideStep
<1>8. CASE QuotesAge
  <2>1. quotes' = [quotes EXCEPT !.fresh = FALSE] /\ UNCHANGED <<bars, snap, stage, board>> BY <1>8 DEF QuotesAge
  <2>2. quotes' \in [id : Nat, kind : QuoteKinds, fresh : BOOLEAN] /\ quotes'.id = quotes.id BY <1>2, <2>1
  <2> QED BY <1>1, <1>3, <2>1, <2>2, QuotesGrow, OutsideStep
<1>9. CASE ChangeIdentity \/ SessionCloses \/ SessionSettles
  <2>1. UNCHANGED db BY <1>9 DEF ChangeIdentity, SessionCloses, SessionSettles
  <2> QED BY <1>1, <1>3, <2>1, DbStays, OutsideStep
<1> QED BY <1>4, <1>5, <1>6, <1>7, <1>8, <1>9

(***************************************************************************)
(* The theorems.                                                           *)
(***************************************************************************)

\* The invariant holds before the first run.
LEMMA ComputeStarts == ComputeInit => ComputeInv
<1> SUFFICES ASSUME ComputeInit PROVE ComputeInv OBVIOUS
<1>1. /\ bars = [ver |-> 0, session |-> 0] /\ snap = [id |-> 0, ind |-> 0, fc |-> 0]
      /\ quotes = [id |-> 0, kind |-> "degraded", fresh |-> FALSE]
      /\ board = [id |-> 0, q |-> 0, bars |-> 0, ctx |-> None]
      /\ stage = [t \in {"bars", "indicators", "forecasts"} |-> FALSE]
      /\ ident = 0 /\ closed = FALSE /\ settled = 1 /\ run = IdleRun /\ bundle = NoBundle /\ uploaded = None
  BY DEF ComputeInit
<1>2. bundle \in BundleRecord BY <1>1 DEF NoBundle, BundleRecord, QuoteKinds
<1>3. bars \in History /\ snap \in [id : Nat, ind : Nat, fc : Nat] /\ board \in SavedBoard
      /\ quotes \in [id : Nat, kind : QuoteKinds, fresh : BOOLEAN]
      /\ stage \in [{"bars", "indicators", "forecasts"} -> BOOLEAN]
  BY <1>1 DEF History, SavedBoard, QuoteKinds
<1>4. ComputeTypeOK BY <1>1, <1>2, <1>3, IdleIsPinned DEF ComputeTypeOK
<1>5. BoardBehind BY <1>1 DEF BoardBehind
<1>6. Pinned(run) /\ BundlePinned(run, bundle) BY <1>1, IdleIsPinned DEF BundlePinned
<1>7. FastUploadCoherent /\ UploadedUnderItsIdentity BY <1>1 DEF FastUploadCoherent, UploadedUnderItsIdentity
<1>8. SettledBundleCoherent /\ NonRealtimeLabelled
  BY <1>1, ComputeAssumption DEF SettledBundleCoherent, NonRealtimeLabelled, NoBundle
<1> QED BY <1>4, <1>5, <1>6, <1>7, <1>8 DEF ComputeInv

\* Every step of a run, of another writer and of the world keeps the invariant.
LEMMA ComputeStep == ComputeInv /\ [ComputeNext]_computeVars => ComputeInv'
<1> SUFFICES ASSUME ComputeInv, [ComputeNext]_computeVars PROVE ComputeInv' OBVIOUS
<1>1. CASE \E m \in {"auto", "full"} : Start(m) BY <1>1, StartStep
<1>2. CASE Fail \/ Bars \/ Indicators \/ Forecasts \/ \E k \in QuoteKinds : FullQuotes(k) BY <1>2, EarlyStep
<1>3. CASE FastCapture BY <1>3, CaptureStep
<1>4. CASE Board BY <1>4, BoardStep
<1>5. CASE Signals \/ Computed \/ PrepareBase \/ Lineage \/ ExportCheck BY <1>5, ReadStep
<1>6. CASE Export BY <1>6, ExportStep
<1>7. CASE UploadCheck BY <1>7, UploadStep
<1>8. CASE \/ \E k \in QuoteKinds : OtherQuotes(k)
           \/ OtherBars \/ OtherDerive \/ OtherBoard \/ ChangeIdentity \/ QuotesAge \/ SessionCloses \/ SessionSettles
  BY <1>8, WorldStep
<1>9. CASE UNCHANGED computeVars
  <2>1. UNCHANGED db /\ UNCHANGED <<run, bundle, uploaded, ident, closed, settled>> BY <1>9 DEF computeVars, db
  <2>2. ident \in Nat /\ closed \in BOOLEAN /\ settled \in Nat BY DEF ComputeInv, ComputeTypeOK
  <2> QED BY <2>1, <2>2, DbStays, OutsideStep
<1>10. CASE ComputeNext
  BY <1>1, <1>2, <1>3, <1>4, <1>5, <1>6, <1>7, <1>8, <1>10 DEF ComputeNext
<1> QED BY <1>9, <1>10

\* Every reachable state of the producer's runs, its database and its exports satisfies the invariant.
THEOREM ComputeInvariant == ComputeSpec => []ComputeInv
BY ComputeStarts, ComputeStep, PTL DEF ComputeSpec

\* A bundle that leaves the producer is what it says about itself: a fast one shows a board computed from
\* the quotes and the base its lineage names, a settled one the board of its proof, quotes that are not
\* realtime are labelled, and the code, configuration and admission are those the run began with.
THEOREM BundlesAreCoherent == ComputeSpec => []BundlesCoherent
<1>1. ComputeInv => BundlesCoherent BY DEF ComputeInv, BundlesCoherent
<1> QED BY <1>1, ComputeInvariant, PTL

(***************************************************************************)
(* The mail outbox.  The dispatch lock makes one process the only one that *)
(* adds or claims rows; a row that is out is never offered again, so the   *)
(* server takes it at most once.  That argument, and the one that no slot  *)
(* stays silent, need rows to stay: HasRoom says that nothing is pruned.   *)
(***************************************************************************)

\* The table has room for every message of the horizon.
HasRoom == Cardinality(Ids) <= MaxItems

\* The processes that hold the dispatch lock are one.
OneHolder == \A p, q \in Procs : Holds(p) /\ Holds(q) => p = q

\* The row a process hands over is marked as being sent.
SendingRows == \A p \in Procs : proc[p].pc = "smtp" => msg[proc[p].row].state = "SENDING"

OutboxInv == OutboxTypeOK /\ OneHolder /\ SendingRows

\* What the server took, against the state of the row and of the process that sends it.
SentBooks ==
  /\ \A i \in Ids : sent[i] <= 1 /\ (msg[i].state \in {"ABSENT", "READY", "FAILED"} => sent[i] = 0)
  /\ \A p \in Procs : proc[p].pc = "smtp" => sent[proc[p].row] = 0

Spoken(s, now) == now % Ticks >= Deadline(s) => \E k \in Kinds : <<Day(now), s, k>> \in Present

\* The slots the process has gone through have a message if their deadline had passed.
SlotsSpoken ==
  \A p \in Procs :
    /\ proc[p].pc \in {"started", "opened"} => proc[p].next = 1
    /\ \A s \in Slots :
         proc[p].pc \in {"send", "smtp"} \/ (proc[p].pc = "slots" /\ s < proc[p].next) => Spoken(s, proc[p].now)

MailInv == OutboxInv /\ SentBooks /\ SlotsSpoken

\* There are finitely many messages.
LEMMA IdsFinite == IsFiniteSet(Ids) /\ Cardinality(Ids) \in Nat
<1>1. MailDays - 1 \in Int /\ 0 \in Int /\ IsFiniteSet(Slots) BY OutboxAssumption DEF OutboxBounds
<1>2. IsFiniteSet(0..MailDays-1) BY <1>1, FS_Interval
<1>3. IsFiniteSet(Kinds)
  <2>1. IsFiniteSet({}) BY FS_EmptySet
  <2>2. IsFiniteSet({"normal"}) BY FS_Singleton
  <2>3. IsFiniteSet({"normal"} \cup {"late"}) BY <2>2, FS_AddElement
  <2>4. IsFiniteSet(({"normal"} \cup {"late"}) \cup {"status"}) BY <2>3, FS_AddElement
  <2>5. IsFiniteSet((({"normal"} \cup {"late"}) \cup {"status"}) \cup {"eod"}) BY <2>4, FS_AddElement
  <2>6. Kinds = (({"normal"} \cup {"late"}) \cup {"status"}) \cup {"eod"} BY DEF Kinds
  <2> QED BY <2>5, <2>6
<1>4. PICK D : D = 0..MailDays-1 OBVIOUS
<1>5. IsFiniteSet((D \X Slots) \X Kinds) BY <1>1, <1>2, <1>3, <1>4, FS_Product
<1>6. PICK f : f = [t \in (D \X Slots) \X Kinds |-> <<t[1][1], t[1][2], t[2]>>] OBVIOUS
<1>7. f \in Surjection((D \X Slots) \X Kinds, Ids)
  <2>1. f \in [(D \X Slots) \X Kinds -> Ids] BY <1>4, <1>6 DEF Ids
  <2>2. ASSUME NEW i \in Ids PROVE \E t \in (D \X Slots) \X Kinds : f[t] = i
    <3>1. PICK d \in D, s \in Slots, k \in Kinds : i = <<d, s, k>> BY <1>4 DEF Ids
    <3>2. f[<<<<d, s>>, k>>] = i BY <1>6, <3>1
    <3> QED BY <3>2
  <2> QED BY <2>1, <2>2 DEF Surjection
<1> QED BY <1>5, <1>7, FS_Surjection, FS_CardinalityType

\* The day of a time within the horizon.
LEMMA DayBound == ASSUME NEW t \in 0..(MailDays * Ticks - 1) PROVE Day(t) \in 0..MailDays-1 /\ t \in Nat
<1>1. MailDays \in Nat /\ Ticks \in Nat /\ Ticks > 0 BY OutboxAssumption DEF OutboxBounds
<1>2. PICK n \in Nat : n = MailDays * Ticks BY <1>1
<1>3. t \in Nat /\ t < n BY <1>2
<1>4. t \div Ticks \in Nat /\ t \div Ticks < MailDays BY <1>1, <1>2, <1>3
<1> QED BY <1>1, <1>3, <1>4 DEF Day

\* A process that is not running.
LEMMA IdleIsProc ==
  /\ IdleProc \in ProcRecord /\ IdleProc.pc = "idle" /\ IdleProc.next = 1
  /\ Cardinality(Slots) \in Nat /\ MailDays * Ticks - 1 \in Nat
<1>1. {MailDays, Ticks} \subseteq Nat \ {0} /\ IsFiniteSet(Slots) /\ Slots # {} /\ Slots = 1..Cardinality(Slots)
  BY OutboxAssumption DEF OutboxBounds
<1>2. Cardinality(Slots) \in Nat BY <1>1, FS_CardinalityType
<1>3. 1 \in Slots /\ 0 \in 0..MailDays-1 BY <1>1, <1>2
<1>4. <<0, 1, "normal">> \in Ids BY <1>3 DEF Ids, Kinds
<1>5. MailDays * Ticks \in Nat /\ MailDays * Ticks > 0 BY <1>1
<1>6. 0 \in 0..(MailDays * Ticks - 1) /\ 1 \in 1..(Cardinality(Slots) + 1) BY <1>2, <1>5
<1> QED BY <1>2, <1>4, <1>5, <1>6 DEF IdleProc, ProcRecord

\* A message of the run that is wanted is not there yet.
LEMMA WantedIsNew ==
  ASSUME OutboxTypeOK, NEW s \in Slots, NEW now \in 0..(MailDays * Ticks - 1), NEW id \in Wanted(s, now)
  PROVE id \in Ids /\ id \notin Present /\ \E k \in Kinds : id = <<Day(now), s, k>>
<1>1. Day(now) \in 0..MailDays-1 BY DayBound
<1>2. DigestKind(s, now) \in Kinds /\ BaseKind(s) \in Kinds BY DEF DigestKind, BaseKind, Kinds
<1>3. Qualified(Day(now), s, now) => Readable(Day(now), s) BY DEF Qualified, Readable
<1>4. \A k \in Kinds : <<Day(now), s, k>> \in Ids BY <1>1 DEF Ids
<1>5. "status" \in Kinds BY DEF Kinds
<1>6. CASE id = <<Day(now), s, DigestKind(s, now)>> /\ id \notin Present BY <1>2, <1>4, <1>6
<1>7. CASE id \in {<<Day(now), s, "status">>} \ Present BY <1>4, <1>5, <1>7
<1> QED BY <1>3, <1>6, <1>7 DEF Wanted

\* Nothing is wanted for a slot that is over only if it has a message.
LEMMA NothingWanted ==
  ASSUME NEW s \in Slots, NEW now \in 0..(MailDays * Ticks - 1), Wanted(s, now) = {}
  PROVE Spoken(s, now)
<1> SUFFICES ASSUME now % Ticks >= Deadline(s) PROVE \E k \in Kinds : <<Day(now), s, k>> \in Present
  BY DEF Spoken
<1>1. Planned[s] \in Int /\ now % Ticks \in Int
  <2>1. Planned[s] \in 0..Ticks BY OutboxAssumption DEF OutboxBounds
  <2>2. now \in Nat /\ Ticks \in Nat \ {0} BY DayBound, OutboxAssumption DEF OutboxBounds
  <2> QED BY <2>1, <2>2
<1>2. Deadline(s) >= Planned[s] /\ Deadline(s) \in Int BY <1>1 DEF Deadline
<1>3. ~(now % Ticks < Planned[s]) /\ ~(now % Ticks < Deadline(s)) BY <1>1, <1>2
<1>4. DigestKind(s, now) \in Kinds /\ BaseKind(s) \in Kinds /\ "status" \in Kinds BY DEF DigestKind, BaseKind, Kinds
<1>5. CASE <<Day(now), s, BaseKind(s)>> \in Present \/ <<Day(now), s, DigestKind(s, now)>> \in Present
  BY <1>4, <1>5
<1>6. CASE <<Day(now), s, BaseKind(s)>> \notin Present /\ <<Day(now), s, DigestKind(s, now)>> \notin Present
  <2>1. {<<Day(now), s, "status">>} \ Present = {} BY <1>3, <1>6 DEF Wanted
  <2> QED BY <1>4, <2>1
<1> QED BY <1>5, <1>6

\* What a prune leaves was there, and with room everything stays.
LEMMA KeptWasThere ==
  ASSUME NEW now, NEW kept \in Kept(now)
  PROVE /\ kept \subseteq Present
        /\ Cardinality(Present) < MaxItems => kept = Present
<1>1. CASE Cardinality(Present) < MaxItems BY <1>1 DEF Kept
<1>2. CASE ~(Cardinality(Present) < MaxItems) BY <1>2 DEF Kept
<1> QED BY <1>1, <1>2

\* As long as a message is missing, a table that has room for all is not full.
LEMMA RoomLeft == ASSUME HasRoom, NEW id \in Ids, id \notin Present PROVE Cardinality(Present) < MaxItems
<1>1. Present \in SUBSET Ids /\ Present # Ids BY DEF Present
<1>2. Cardinality(Present) <= Cardinality(Ids) /\ Cardinality(Present) # Cardinality(Ids)
      /\ IsFiniteSet(Present)
  BY <1>1, IdsFinite, FS_Subset
<1>3. Cardinality(Present) \in Nat BY <1>2, FS_CardinalityType
<1>4. MaxItems \in Nat BY OutboxAssumption DEF OutboxBounds
<1> QED BY <1>2, <1>3, <1>4, IdsFinite DEF HasRoom

\* What a run's process becomes in a step: StartRun, Open, Lock, Report, SlotsDone, Claim, Smtp, Die.
LEMMA ProcChanges ==
  ASSUME OutboxTypeOK, NEW p \in Procs, NEW r \in ProcRecord, proc' = [proc EXCEPT ![p] = r]
  PROVE proc' \in [Procs -> ProcRecord] /\ proc'[p] = r /\ \A q \in Procs \ {p} : proc'[q] = proc[q]
BY DEF OutboxTypeOK

\* The next slot of a run's loop: refused for lack of room, nothing wanted, or one new row.
LEMMA ReportOutcome ==
  ASSUME OutboxTypeOK, NEW p \in Procs, Report(p)
  PROVE /\ proc[p].pc = "slots" /\ proc[p].next \in Slots /\ UNCHANGED <<clock, material, enabled, sent>>
        /\ \/ UNCHANGED msg /\ proc' = [proc EXCEPT ![p] = IdleProc]
           \/ /\ UNCHANGED msg /\ Wanted(proc[p].next, proc[p].now) = {}
              /\ proc' = [proc EXCEPT ![p] = [proc[p] EXCEPT !.next = proc[p].next + 1]]
           \/ \E id \in Ids, kept \in SUBSET Present, new \in RowRecord :
                /\ id \notin Present /\ \E k \in Kinds : id = <<Day(proc[p].now), proc[p].next, k>>
                /\ Cardinality(kept) < MaxItems /\ (HasRoom => kept = Present) /\ new.state = "READY"
                /\ msg' = [i \in Ids |-> IF i = id THEN new ELSE IF i \in kept THEN msg[i] ELSE NoRow]
                /\ proc' = [proc EXCEPT ![p] = [proc[p] EXCEPT !.next = proc[p].next + 1]]
<1>1. PICK s \in Slots : s = proc[p].next /\ proc[p].pc = "slots" BY DEF Report
<1>2. PICK now \in 0..(MailDays * Ticks - 1) : now = proc[p].now BY DEF OutboxTypeOK, ProcRecord
<1>3. UNCHANGED <<clock, material, enabled, sent>> BY DEF Report
<1>4. CASE Wanted(s, now) = {}
  <2>1. UNCHANGED msg /\ proc' = [proc EXCEPT ![p].next = @ + 1] BY <1>1, <1>2, <1>4 DEF Report
  <2>2. proc' = [proc EXCEPT ![p] = [proc[p] EXCEPT !.next = proc[p].next + 1]] BY <2>1
  <2> QED BY <1>1, <1>2, <1>3, <1>4, <2>1, <2>2
<1>5. CASE Wanted(s, now) # {}
  <2>1. PICK id \in Wanted(s, now), kept \in Kept(now) : Enqueue(p, id, kept) BY <1>1, <1>2, <1>5 DEF Report
  <2>2. id \in Ids /\ id \notin Present /\ \E k \in Kinds : id = <<Day(now), s, k>> BY <2>1, WantedIsNew
  <2>3. kept \in SUBSET Present /\ (HasRoom => kept = Present) BY <2>1, <2>2, KeptWasThere, RoomLeft
  <2>4. CASE Cardinality(kept) >= MaxItems
    <3>1. UNCHANGED msg /\ proc' = [proc EXCEPT ![p] = IdleProc] BY <2>1, <2>4 DEF Enqueue
    <3> QED BY <1>1, <1>3, <3>1
  <2>5. CASE ~(Cardinality(kept) >= MaxItems)
    <3> DEFINE until == IF id[3] = "status" THEN Never ELSE material[id[1]][id[2]].at + Ttl
               new == [state |-> "READY", attempts |-> 0, retryable |-> FALSE, at |-> now, until |-> until]
    <3>1. /\ msg' = [i \in Ids |-> IF i = id THEN new ELSE IF i \in kept THEN msg[i] ELSE NoRow]
          /\ proc' = [proc EXCEPT ![p].next = @ + 1]
      BY <1>2, <2>1, <2>5 DEF Enqueue
    <3>2. until \in Nat
      <4>1. Ttl \in Nat /\ Never \in Nat BY OutboxAssumption DEF OutboxBounds, Never
      <4>2. id[1] \in 0..MailDays-1 /\ id[2] \in Slots BY <2>2 DEF Ids
      <4>3. material[id[1]][id[2]] \in Delivery BY <4>2 DEF OutboxTypeOK
      <4> QED BY <4>1, <4>3 DEF Delivery
    <3>3. now \in Nat /\ MaxAttempts \in Nat BY DayBound, OutboxAssumption DEF OutboxBounds
    <3>4. new \in RowRecord /\ new.state = "READY"
      <4> HIDE DEF until
      <4>1. 0 \in 0..MaxAttempts BY <3>3
      <4> QED BY <3>2, <3>3, <4>1 DEF RowRecord, RowStates
    <3>5. Cardinality(kept) < MaxItems
      <4>1. Present \in SUBSET Ids BY DEF Present
      <4>2. IsFiniteSet(Present) BY <4>1, IdsFinite, FS_Subset
      <4>3. IsFiniteSet(kept) BY <2>3, <4>2, FS_Subset
      <4>4. Cardinality(kept) \in Nat /\ MaxItems \in Nat
        BY <4>3, FS_CardinalityType, OutboxAssumption DEF OutboxBounds
      <4> QED BY <2>5, <4>4
    <3>6. proc' = [proc EXCEPT ![p] = [proc[p] EXCEPT !.next = proc[p].next + 1]] BY <3>1
    <3> HIDE DEF new
    <3> QED BY <1>1, <1>2, <1>3, <2>2, <2>3, <3>1, <3>4, <3>5, <3>6
  <2> QED BY <2>4, <2>5
<1> QED BY <1>4, <1>5

\* Rows that are there stay there and none is added.
LEMMA SameRows ==
  ASSUME \A i \in Ids : msg'[i].state = "ABSENT" <=> msg[i].state = "ABSENT"
  PROVE Present' = Present
BY DEF Present

\* A step of one process.
LEMMA OutboxMoves ==
  ASSUME OutboxInv, NEW p \in Procs, NEW r \in ProcRecord, proc' = [proc EXCEPT ![p] = r],
         UNCHANGED <<clock, material, enabled>>,
         msg' \in [Ids -> RowRecord], sent' \in [Ids -> Nat], Cardinality(Present') <= MaxItems,
         r.pc \in {"slots", "send", "smtp"} => \A q \in Procs \ {p} : ~Holds(q),
         r.pc = "smtp" => msg'[r.row].state = "SENDING",
         \A q \in Procs \ {p} : proc[q].pc = "smtp" => msg'[proc[q].row].state = "SENDING"
  PROVE OutboxInv'
<1>1. proc' \in [Procs -> ProcRecord] /\ proc'[p] = r /\ \A q \in Procs \ {p} : proc'[q] = proc[q]
  BY ProcChanges DEF OutboxInv
<1>2. \A q \in Procs \ {p} : Holds(q)' <=> Holds(q) BY <1>1 DEF Holds
<1>3. Holds(p)' <=> r.pc \in {"slots", "send", "smtp"} BY <1>1 DEF Holds
<1>4. OneHolder'
  <2>1. \A q, o \in Procs : Holds(q) /\ Holds(o) => q = o BY DEF OutboxInv, OneHolder
  <2>2. \A q, o \in Procs : Holds(q)' /\ Holds(o)' => q = o BY <1>2, <1>3, <2>1
  <2> QED BY <2>2 DEF OneHolder
<1>5. SendingRows'
  <2>1. \A q \in Procs : proc'[q].pc = "smtp" => msg'[proc'[q].row].state = "SENDING" BY <1>1
  <2> QED BY <2>1 DEF SendingRows
<1>6. OutboxTypeOK' BY <1>1 DEF OutboxInv, OutboxTypeOK
<1> QED BY <1>4, <1>5, <1>6 DEF OutboxInv

\* While a process holds the lock nobody else does, and nobody else hands a row over.
LEMMA OthersWait ==
  ASSUME OutboxInv, NEW p \in Procs, Holds(p)
  PROVE \A q \in Procs \ {p} : ~Holds(q) /\ proc[q].pc # "smtp"
BY DEF OutboxInv, OneHolder, Holds

\* A row that is recovered, claimed, set aside or answered.
LEMMA RowChanges ==
  ASSUME OutboxTypeOK, NEW i \in Ids, NEW w \in RowRecord, msg' = [msg EXCEPT ![i] = w],
         msg[i].state # "ABSENT", w.state # "ABSENT"
  PROVE /\ msg' \in [Ids -> RowRecord] /\ msg'[i] = w /\ \A j \in Ids \ {i} : msg'[j] = msg[j]
        /\ Present' = Present /\ Cardinality(Present') <= MaxItems
<1>1. msg' \in [Ids -> RowRecord] /\ msg'[i] = w /\ \A j \in Ids \ {i} : msg'[j] = msg[j] BY DEF OutboxTypeOK
<1>2. Present' = Present BY <1>1, SameRows
<1> QED BY <1>1, <1>2 DEF OutboxTypeOK

\* What a run does to its process and to the row it handles.
LEMMA ClaimOutcome ==
  ASSUME OutboxTypeOK, NEW p \in Procs, Claim(p)
  PROVE /\ proc[p].pc = "send" /\ UNCHANGED <<clock, material, enabled, sent>>
        /\ \/ UNCHANGED msg /\ proc' = [proc EXCEPT ![p] = IdleProc]
           \/ \E i \in Present, w \in RowRecord, r \in ProcRecord :
                /\ msg[i].state \in {"READY", "FAILED"} /\ msg' = [msg EXCEPT ![i] = w] /\ w.at = msg[i].at
                /\ proc' = [proc EXCEPT ![p] = r] /\ r.now = proc[p].now /\ r.next = proc[p].next
                /\ \/ w.state = "FAILED" /\ r.pc = "send"
                   \/ w.state = "SENDING" /\ r.pc = "smtp" /\ r.row = i
<1>1. proc[p].pc = "send" /\ UNCHANGED <<clock, material, enabled, sent>> BY DEF Claim
<1>2. CASE ~proc[p].on \/ proc[p].left = 0 \/ Offered(p) = {} BY <1>1, <1>2 DEF Claim
<1>3. CASE ~(~proc[p].on \/ proc[p].left = 0 \/ Offered(p) = {})
  <2>1. PICK i \in Offered(p) :
          IF Expired(i, proc[p].now)
          THEN /\ msg' = [msg EXCEPT ![i].state = "FAILED", ![i].retryable = FALSE]
               /\ proc' = [proc EXCEPT ![p].left = @ - 1]
          ELSE /\ msg' = [msg EXCEPT ![i].state = "SENDING", ![i].attempts = @ + 1]
               /\ proc' = [proc EXCEPT ![p] = [proc[p] EXCEPT !.pc = "smtp", !.row = i, !.left = @ - 1]]
    BY <1>3 DEF Claim
  <2>2. i \in Present /\ i \in Ids /\ msg[i].state \in {"READY", "FAILED"} /\ msg[i].attempts < MaxAttempts
    BY DEF Offered, Present
  <2>3. msg[i] \in RowRecord /\ proc[p] \in ProcRecord /\ proc[p].left \in Nat /\ proc[p].left # 0
    BY <1>3, <2>2 DEF OutboxTypeOK, ProcRecord
  <2>4. proc[p].left - 1 \in Nat BY <2>3
  <2>5. msg[i].attempts + 1 \in 0..MaxAttempts
    <3>1. msg[i].attempts \in 0..MaxAttempts BY <2>3 DEF RowRecord
    <3>2. MaxAttempts \in Nat BY OutboxAssumption DEF OutboxBounds
    <3> QED BY <2>2, <3>1, <3>2
  <2>6. CASE Expired(i, proc[p].now)
    <3>1. PICK w : w = [msg[i] EXCEPT !.state = "FAILED", !.retryable = FALSE] OBVIOUS
    <3>2. PICK r : r = [proc[p] EXCEPT !.left = proc[p].left - 1] OBVIOUS
    <3>3. w \in RowRecord /\ w.state = "FAILED" /\ w.at = msg[i].at BY <2>3, <3>1 DEF RowRecord, RowStates
    <3>4. r \in ProcRecord /\ r.now = proc[p].now /\ r.next = proc[p].next /\ r.pc = "send"
      BY <1>1, <2>3, <2>4, <3>2 DEF ProcRecord
    <3>5. msg' = [msg EXCEPT ![i] = w] /\ proc' = [proc EXCEPT ![p] = r]
      BY <2>1, <2>2, <2>6, <3>1, <3>2 DEF OutboxTypeOK
    <3> QED BY <1>1, <2>2, <3>3, <3>4, <3>5
  <2>7. CASE ~Expired(i, proc[p].now)
    <3>1. PICK w : w = [msg[i] EXCEPT !.state = "SENDING", !.attempts = msg[i].attempts + 1] OBVIOUS
    <3>2. PICK r : r = [proc[p] EXCEPT !.pc = "smtp", !.row = i, !.left = proc[p].left - 1] OBVIOUS
    <3>3. w \in RowRecord /\ w.state = "SENDING" /\ w.at = msg[i].at BY <2>3, <2>5, <3>1 DEF RowRecord, RowStates
    <3>4. r \in ProcRecord /\ r.now = proc[p].now /\ r.next = proc[p].next /\ r.pc = "smtp" /\ r.row = i
      BY <2>2, <2>3, <2>4, <3>2 DEF ProcRecord
    <3>5. msg' = [msg EXCEPT ![i] = w]
      <4>1. msg' = [msg EXCEPT ![i].state = "SENDING", ![i].attempts = @ + 1] BY <2>1, <2>7
      <4>2. PICK m : m = [msg EXCEPT ![i].state = "SENDING"] OBVIOUS
      <4>3. m \in [Ids -> RowRecord] /\ m[i] = [msg[i] EXCEPT !.state = "SENDING"] /\ m[i].attempts = msg[i].attempts
        BY <2>2, <2>3, <4>2 DEF OutboxTypeOK, RowRecord, RowStates
      <4>4. msg' = [m EXCEPT ![i] = [m[i] EXCEPT !.attempts = msg[i].attempts + 1]] BY <4>1, <4>2, <4>3
      <4>5. [m[i] EXCEPT !.attempts = msg[i].attempts + 1] = w BY <2>3, <3>1, <4>3 DEF RowRecord
      <4> QED BY <2>2, <4>2, <4>4, <4>5 DEF OutboxTypeOK
    <3>6. proc' = [proc EXCEPT ![p] = r]
      <4>1. proc' = [proc EXCEPT ![p] = [proc[p] EXCEPT !.pc = "smtp", !.row = i, !.left = @ - 1]] BY <2>1, <2>7
      <4> QED BY <3>2, <4>1 DEF OutboxTypeOK
    <3> QED BY <1>1, <2>2, <3>3, <3>4, <3>5, <3>6
  <2> QED BY <2>6, <2>7
<1> QED BY <1>2, <1>3

\* The outcome of a handover, or of a process killed in it.
LEMMA SmtpOutcome ==
  ASSUME OutboxTypeOK, NEW p \in Procs, NEW o \in {"ACCEPTED", "refused", "deferred", "AMBIGUOUS"},
         NEW taken \in BOOLEAN, Smtp(p, o, taken), msg[proc[p].row].state # "ABSENT"
  PROVE /\ proc[p].pc = "smtp" /\ UNCHANGED <<clock, material, enabled>>
        /\ sent' = [sent EXCEPT ![proc[p].row] = IF taken THEN sent[proc[p].row] + 1 ELSE sent[proc[p].row]]
        /\ \E w \in RowRecord, r \in ProcRecord :
             /\ msg' = [msg EXCEPT ![proc[p].row] = w] /\ w.state \in {"ACCEPTED", "AMBIGUOUS", "FAILED"}
             /\ w.at = msg[proc[p].row].at /\ (w.state = "FAILED" => ~taken)
             /\ proc' = [proc EXCEPT ![p] = r] /\ r.pc = "send" /\ r.now = proc[p].now /\ r.next = proc[p].next
<1>1. PICK i \in Ids : i = proc[p].row BY DEF OutboxTypeOK, ProcRecord
<1>2. proc[p] \in ProcRecord /\ msg[i] \in RowRecord /\ proc[p].tried \subseteq Ids BY DEF OutboxTypeOK, ProcRecord
<1>3. PICK st : st = IF o \in {"refused", "deferred"} THEN "FAILED" ELSE o OBVIOUS
<1>4. PICK w : w = [msg[i] EXCEPT !.state = st, !.retryable = (o = "deferred")] OBVIOUS
<1>5. st \in {"ACCEPTED", "AMBIGUOUS", "FAILED"} /\ (st = "FAILED" => o \in {"refused", "deferred"}) BY <1>3
<1>6. w \in RowRecord /\ w.state = st /\ w.at = msg[i].at
  <2>1. (o = "deferred") \in BOOLEAN OBVIOUS
  <2> QED BY <1>2, <1>4, <1>5, <2>1 DEF RowRecord, RowStates
<1>7. PICK r : r = [proc[p] EXCEPT !.pc = "send", !.tried = proc[p].tried \cup {i}] OBVIOUS
<1>8. r \in ProcRecord /\ r.pc = "send" /\ r.now = proc[p].now /\ r.next = proc[p].next
  BY <1>2, <1>7 DEF ProcRecord
<1>9. proc' = [proc EXCEPT ![p] = r]
  <2>1. proc' = [proc EXCEPT ![p] = [proc[p] EXCEPT !.pc = "send", !.tried = @ \cup {i}]] BY <1>1 DEF Smtp
  <2> QED BY <1>7, <2>1 DEF OutboxTypeOK
<1>10. msg' = [msg EXCEPT ![i] = w]
  <2>1. msg' = [msg EXCEPT ![i].state = st, ![i].retryable = (o = "deferred")] BY <1>1, <1>3 DEF Smtp
  <2> QED BY <1>2, <1>4, <2>1 DEF OutboxTypeOK
<1>11. proc[p].pc = "smtp" /\ UNCHANGED <<clock, material, enabled>> /\ (o \in {"refused", "deferred"} => ~taken)
  BY DEF Smtp
<1>12. sent' = [sent EXCEPT ![i] = IF taken THEN sent[i] + 1 ELSE sent[i]] BY <1>1 DEF Smtp
<1> QED BY <1>1, <1>5, <1>6, <1>8, <1>9, <1>10, <1>11, <1>12

\* An interrupted send is marked; nothing else changes.
LEMMA RecoveredRows ==
  ASSUME OutboxTypeOK, msg' = msg \/ msg' = Recovered(msg)
  PROVE /\ msg' \in [Ids -> RowRecord] /\ Present' = Present /\ Cardinality(Present') <= MaxItems
        /\ \A i \in Ids : msg'[i].at = msg[i].at
        /\ \A i \in Ids : msg'[i].state = msg[i].state \/ (msg[i].state = "SENDING" /\ msg'[i].state = "AMBIGUOUS")
<1>1. msg \in [Ids -> RowRecord] BY DEF OutboxTypeOK
<1>2. CASE msg' = msg BY <1>1, <1>2 DEF OutboxTypeOK, Present
<1>3. CASE msg' = Recovered(msg)
  <2>1. ASSUME NEW i \in Ids
        PROVE /\ msg'[i] \in RowRecord /\ msg'[i].at = msg[i].at
              /\ msg'[i].state = msg[i].state \/ (msg[i].state = "SENDING" /\ msg'[i].state = "AMBIGUOUS")
    <3>1. msg[i] \in RowRecord BY <1>1
    <3>2. CASE msg[i].state = "SENDING"
      <4>1. msg'[i] = [msg[i] EXCEPT !.state = "AMBIGUOUS", !.retryable = FALSE] BY <1>3, <3>2 DEF Recovered
      <4>2. msg'[i] \in RowRecord /\ msg'[i].state = "AMBIGUOUS" /\ msg'[i].at = msg[i].at BY <3>1, <4>1 DEF RowRecord, RowStates
      <4> QED BY <3>2, <4>2
    <3>3. CASE msg[i].state # "SENDING" BY <1>3, <3>1, <3>3 DEF Recovered
    <3> QED BY <3>2, <3>3
  <2>2. msg' = [i \in Ids |-> msg'[i]] BY <1>3 DEF Recovered
  <2>3. msg' \in [Ids -> RowRecord] BY <2>1, <2>2
  <2>4. Present' = Present BY <2>1, SameRows
  <2> QED BY <2>1, <2>3, <2>4 DEF OutboxTypeOK
<1> QED BY <1>2, <1>3

\* A step of the environment leaves rows, processes and the server alone.
LEMMA AroundStep ==
  ASSUME OutboxTypeOK, MailTick \/ (\E s \in Slots, f \in {"good", "unfit", "unreadable"} : Deliver(s, f))
                       \/ \E on \in BOOLEAN : SetEnabled(on)
  PROVE /\ UNCHANGED <<msg, proc, sent>>
        /\ clock' \in 0..(MailDays * Ticks - 1) /\ enabled' \in BOOLEAN /\ material' \in [0..MailDays-1 -> [Slots -> Delivery]]
<1>1. UNCHANGED <<msg, proc, sent>> BY DEF MailTick, Deliver, SetEnabled
<1>2. clock \in 0..(MailDays * Ticks - 1) /\ enabled \in BOOLEAN /\ material \in [0..MailDays-1 -> [Slots -> Delivery]]
  BY DEF OutboxTypeOK
<1>3. CASE MailTick
  <2>1. MailDays * Ticks \in Nat BY OutboxAssumption DEF OutboxBounds
  <2>2. clock' = clock + 1 /\ clock + 1 < MailDays * Ticks /\ UNCHANGED <<enabled, material>> BY <1>3 DEF MailTick
  <2>3. clock' \in 0..(MailDays * Ticks - 1)
    <3>1. PICK n \in Nat : n = MailDays * Ticks BY <2>1
    <3> QED BY <1>2, <2>2, <3>1
  <2> QED BY <1>1, <1>2, <2>2, <2>3
<1>4. CASE \E s \in Slots, f \in {"good", "unfit", "unreadable"} : Deliver(s, f)
  <2>1. PICK s \in Slots, f \in {"good", "unfit", "unreadable"} : Deliver(s, f) BY <1>4
  <2>2. PICK d \in 0..MailDays-1 : d = Day(clock) BY <1>2, DayBound
  <2>3. clock \in Nat BY <1>2, DayBound
  <2>4. PICK m : m = [form |-> f, at |-> clock] OBVIOUS
  <2>5. m \in Delivery BY <2>3, <2>4 DEF Delivery
  <2>6. material' = [material EXCEPT ![d][s] = m] /\ UNCHANGED <<clock, enabled>> BY <2>1, <2>2, <2>4 DEF Deliver
  <2>7. material' \in [0..MailDays-1 -> [Slots -> Delivery]] BY <1>2, <2>5, <2>6
  <2> QED BY <1>1, <1>2, <2>6, <2>7
<1>5. CASE \E on \in BOOLEAN : SetEnabled(on) BY <1>1, <1>2, <1>5 DEF SetEnabled
<1> QED BY <1>3, <1>4, <1>5

\* A run starts, is refused the lock, goes on to send, or is killed: the rows stay.
LEMMA QuietStep ==
  ASSUME OutboxInv, NEW p \in Procs,
         StartRun(p) \/ Lock(p) \/ SlotsDone(p) \/ \E t \in BOOLEAN : Die(p, t)
  PROVE OutboxInv' /\ UNCHANGED msg
<1>1. OutboxTypeOK /\ proc[p] \in ProcRecord BY DEF OutboxInv, OutboxTypeOK
<1>2. msg \in [Ids -> RowRecord] /\ sent \in [Ids -> Nat] /\ Cardinality(Present) <= MaxItems BY <1>1 DEF OutboxTypeOK
<1>3. \A q \in Procs : proc[q].pc = "smtp" => msg[proc[q].row].state = "SENDING" BY DEF OutboxInv, SendingRows
<1>4. UNCHANGED <<clock, material, enabled, msg>> BY DEF StartRun, Lock, SlotsDone, Die
<1>5. Present' = Present BY <1>4 DEF Present
<1>6. CASE StartRun(p)
  <2>1. PICK r : r = [IdleProc EXCEPT !.pc = "started", !.now = clock, !.on = enabled, !.left = SendBudget] OBVIOUS
  <2>2. r \in ProcRecord /\ r.pc = "started"
    <3>1. SendBudget \in Nat BY OutboxAssumption DEF OutboxBounds
    <3>2. clock \in 0..(MailDays * Ticks - 1) /\ enabled \in BOOLEAN BY <1>1 DEF OutboxTypeOK
    <3> QED BY <2>1, <3>1, <3>2, IdleIsProc DEF ProcRecord
  <2>3. proc' = [proc EXCEPT ![p] = r] /\ UNCHANGED sent BY <1>6, <2>1 DEF StartRun
  <2> QED BY <1>2, <1>3, <1>4, <1>5, <2>2, <2>3, OutboxMoves
<1>7. CASE Lock(p)
  <2>1. CASE \E q \in Procs : Holds(q)
    <3>1. proc' = [proc EXCEPT ![p] = IdleProc] /\ UNCHANGED sent BY <1>7, <2>1 DEF Lock
    <3>2. PICK r \in ProcRecord : r = IdleProc /\ r.pc = "idle" BY IdleIsProc
    <3> QED BY <1>2, <1>3, <1>4, <1>5, <3>1, <3>2, OutboxMoves
  <2>2. CASE ~\E q \in Procs : Holds(q)
    <3>1. PICK r : r = [proc[p] EXCEPT !.pc = "slots"] OBVIOUS
    <3>2. r \in ProcRecord /\ r.pc = "slots" BY <1>1, <3>1 DEF ProcRecord
    <3>3. proc' = [proc EXCEPT ![p] = r] /\ UNCHANGED sent BY <1>7, <2>2, <3>1 DEF Lock
    <3> QED BY <1>2, <1>3, <1>4, <1>5, <2>2, <3>2, <3>3, OutboxMoves
  <2> QED BY <2>1, <2>2
<1>8. CASE SlotsDone(p)
  <2>1. PICK r : r = [proc[p] EXCEPT !.pc = "send"] OBVIOUS
  <2>2. r \in ProcRecord /\ r.pc = "send" BY <1>1, <2>1 DEF ProcRecord
  <2>3. proc' = [proc EXCEPT ![p] = r] /\ UNCHANGED sent /\ Holds(p) BY <1>8, <2>1 DEF SlotsDone, Holds
  <2> QED BY <1>2, <1>3, <1>4, <1>5, <2>2, <2>3, OthersWait, OutboxMoves
<1>9. CASE \E t \in BOOLEAN : Die(p, t)
  <2>1. proc' = [proc EXCEPT ![p] = IdleProc] BY <1>9 DEF Die
  <2>2. PICK r \in ProcRecord : r = IdleProc /\ r.pc = "idle" BY IdleIsProc
  <2>3. sent' \in [Ids -> Nat]
    <3>1. PICK i \in Ids : i = proc[p].row BY <1>1 DEF ProcRecord
    <3>2. sent' = sent \/ sent' = [sent EXCEPT ![i] = @ + 1] BY <1>9, <3>1 DEF Die
    <3> QED BY <1>2, <3>2
  <2> QED BY <1>2, <1>3, <1>4, <1>5, <2>1, <2>2, <2>3, OutboxMoves
<1> QED BY <1>4, <1>6, <1>7, <1>8, <1>9

\* Opening the queue marks interrupted sends only while nobody hands a row over.
LEMMA OpenStep ==
  ASSUME OutboxInv, NEW p \in Procs, Open(p)
  PROVE /\ OutboxInv' /\ Present' = Present
        /\ \A i \in Ids : msg'[i].state = msg[i].state \/ (msg[i].state = "SENDING" /\ msg'[i].state = "AMBIGUOUS")
<1>1. OutboxTypeOK /\ proc[p] \in ProcRecord /\ sent \in [Ids -> Nat] BY DEF OutboxInv, OutboxTypeOK
<1>2. msg' = msg \/ msg' = Recovered(msg) BY DEF Open
<1>3. /\ msg' \in [Ids -> RowRecord] /\ Present' = Present /\ Cardinality(Present') <= MaxItems
      /\ \A i \in Ids : msg'[i].state = msg[i].state \/ (msg[i].state = "SENDING" /\ msg'[i].state = "AMBIGUOUS")
  BY <1>1, <1>2, RecoveredRows
<1>4. \A q \in Procs : proc[q].pc = "smtp" => msg'[proc[q].row].state = "SENDING"
  <2>1. SUFFICES ASSUME NEW q \in Procs, proc[q].pc = "smtp" PROVE msg'[proc[q].row].state = "SENDING" OBVIOUS
  <2>2. msg' = msg BY <2>1 DEF Open
  <2> QED BY <2>1, <2>2 DEF OutboxInv, SendingRows
<1>5. PICK r : r = [proc[p] EXCEPT !.pc = "opened"] OBVIOUS
<1>6. r \in ProcRecord /\ r.pc = "opened" BY <1>1, <1>5 DEF ProcRecord
<1>7. proc' = [proc EXCEPT ![p] = r] /\ UNCHANGED <<clock, material, enabled, sent>> BY <1>5 DEF Open
<1>8. OutboxInv' BY <1>1, <1>3, <1>4, <1>6, <1>7, OutboxMoves
<1> QED BY <1>3, <1>8

\* A run that adds a row keeps the table within its capacity.
LEMMA ReportStep == ASSUME OutboxInv, NEW p \in Procs, Report(p) PROVE OutboxInv'
<1>1. OutboxTypeOK /\ proc[p] \in ProcRecord /\ sent' \in [Ids -> Nat] /\ msg \in [Ids -> RowRecord]
      /\ Cardinality(Present) <= MaxItems
  BY DEF OutboxInv, OutboxTypeOK, Report
<1>2. proc[p].pc = "slots" /\ Holds(p) /\ proc[p].next \in Slots /\ UNCHANGED <<clock, material, enabled, sent>>
  BY <1>1, ReportOutcome DEF Holds
<1>3. \A q \in Procs \ {p} : ~Holds(q) /\ proc[q].pc # "smtp" BY <1>2, OthersWait
<1>4. PICK r : r = [proc[p] EXCEPT !.next = proc[p].next + 1] OBVIOUS
<1>5. r \in ProcRecord /\ r.pc = "slots"
  <2>1. Slots = 1..Cardinality(Slots) /\ Cardinality(Slots) \in Nat BY IdleIsProc, OutboxAssumption DEF OutboxBounds
  <2>2. proc[p].next + 1 \in 1..(Cardinality(Slots) + 1) BY <1>2, <2>1
  <2> QED BY <1>1, <1>2, <1>4, <2>2 DEF ProcRecord
<1>6. CASE UNCHANGED msg
  <2>1. Present' = Present BY <1>6 DEF Present
  <2>2. CASE proc' = [proc EXCEPT ![p] = IdleProc]
    <3>1. PICK i \in ProcRecord : i = IdleProc /\ i.pc = "idle" BY IdleIsProc
    <3> QED BY <1>1, <1>2, <1>3, <1>6, <2>1, <2>2, <3>1, OutboxMoves
  <2>3. CASE proc' = [proc EXCEPT ![p] = r]
    <3> QED BY <1>1, <1>2, <1>3, <1>5, <1>6, <2>1, <2>3, OutboxMoves
  <2> QED BY <1>1, <1>4, <1>6, <2>2, <2>3, ReportOutcome
<1>7. CASE ~UNCHANGED msg
  <2>1. PICK id \in Ids, kept \in SUBSET Present, new \in RowRecord :
          /\ Cardinality(kept) < MaxItems
          /\ msg' = [i \in Ids |-> IF i = id THEN new ELSE IF i \in kept THEN msg[i] ELSE NoRow]
          /\ proc' = [proc EXCEPT ![p] = r]
    BY <1>1, <1>4, <1>7, ReportOutcome
  <2>2. NoRow \in RowRecord /\ NoRow.state = "ABSENT"
    <3>1. MaxAttempts \in Nat BY OutboxAssumption DEF OutboxBounds
    <3>2. 0 \in 0..MaxAttempts BY <3>1
    <3> QED BY <3>2 DEF NoRow, RowRecord, RowStates
  <2>3. msg' \in [Ids -> RowRecord] BY <1>1, <2>1, <2>2
  <2>4. Present' \subseteq kept \cup {id} BY <2>1, <2>2 DEF Present
  <2>5. PICK P2 : P2 = Present' OBVIOUS
  <2>6. Cardinality(P2) <= MaxItems
    <3>1. Present \subseteq Ids BY DEF Present
    <3>2. IsFiniteSet(kept) BY <2>1, <3>1, IdsFinite, FS_Subset
    <3>3. IsFiniteSet(kept \cup {id}) /\ Cardinality(kept \cup {id}) <= Cardinality(kept) + 1
      <4>1. Cardinality(kept) \in Nat BY <3>2, FS_CardinalityType
      <4>2. PICK k : k = kept OBVIOUS
      <4>3. IsFiniteSet(k \cup {id})
            /\ (Cardinality(k \cup {id}) = Cardinality(k) \/ Cardinality(k \cup {id}) = Cardinality(k) + 1)
        BY <3>2, <4>2, FS_AddElement
      <4> QED BY <4>1, <4>2, <4>3
    <3>4. IsFiniteSet(P2) /\ Cardinality(P2) <= Cardinality(kept \cup {id}) BY <2>4, <2>5, <3>3, FS_Subset
    <3>5. Cardinality(kept) \in Nat /\ Cardinality(P2) \in Nat /\ Cardinality(kept \cup {id}) \in Nat /\ MaxItems \in Nat
      BY <3>2, <3>3, <3>4, FS_CardinalityType, OutboxAssumption DEF OutboxBounds
    <3> QED BY <2>1, <3>3, <3>4, <3>5
  <2> QED BY <1>1, <1>2, <1>3, <1>5, <2>1, <2>3, <2>5, <2>6, OutboxMoves
<1> QED BY <1>6, <1>7

\* A row is claimed by the holder of the lock alone.
LEMMA ClaimStep == ASSUME OutboxInv, NEW p \in Procs, Claim(p) PROVE OutboxInv'
<1>1. OutboxTypeOK /\ proc[p] \in ProcRecord /\ sent' \in [Ids -> Nat] /\ msg \in [Ids -> RowRecord]
      /\ Cardinality(Present) <= MaxItems
  BY DEF OutboxInv, OutboxTypeOK, Claim
<1>2. proc[p].pc = "send" /\ Holds(p) /\ UNCHANGED <<clock, material, enabled, sent>> BY <1>1, ClaimOutcome DEF Holds
<1>3. \A q \in Procs \ {p} : ~Holds(q) /\ proc[q].pc # "smtp" BY <1>2, OthersWait
<1>4. CASE UNCHANGED msg /\ proc' = [proc EXCEPT ![p] = IdleProc]
  <2>1. PICK r \in ProcRecord : r = IdleProc /\ r.pc = "idle" BY IdleIsProc
  <2>2. Present' = Present BY <1>4 DEF Present
  <2> QED BY <1>1, <1>2, <1>3, <1>4, <2>1, <2>2, OutboxMoves
<1>5. CASE ~(UNCHANGED msg /\ proc' = [proc EXCEPT ![p] = IdleProc])
  <2>1. PICK i \in Present, w \in RowRecord, r \in ProcRecord :
          /\ msg[i].state \in {"READY", "FAILED"} /\ msg' = [msg EXCEPT ![i] = w]
          /\ proc' = [proc EXCEPT ![p] = r]
          /\ \/ w.state = "FAILED" /\ r.pc = "send"
             \/ w.state = "SENDING" /\ r.pc = "smtp" /\ r.row = i
    BY <1>1, <1>5, ClaimOutcome
  <2>2. i \in Ids BY DEF Present
  <2>3. /\ msg' \in [Ids -> RowRecord] /\ msg'[i] = w /\ \A j \in Ids \ {i} : msg'[j] = msg[j]
        /\ Present' = Present /\ Cardinality(Present') <= MaxItems
    BY <1>1, <2>1, <2>2, RowChanges
  <2> QED BY <1>1, <1>2, <1>3, <2>1, <2>3, OutboxMoves
<1> QED BY <1>4, <1>5

\* The answer of the server ends the handover.
LEMMA SmtpStep ==
  ASSUME OutboxInv, NEW p \in Procs, NEW o \in {"ACCEPTED", "refused", "deferred", "AMBIGUOUS"},
         NEW taken \in BOOLEAN, Smtp(p, o, taken)
  PROVE OutboxInv'
<1>1. OutboxTypeOK /\ proc[p] \in ProcRecord /\ sent \in [Ids -> Nat] BY DEF OutboxInv, OutboxTypeOK
<1>2. proc[p].pc = "smtp" /\ Holds(p) BY DEF Smtp, Holds
<1>3. msg[proc[p].row].state = "SENDING" BY <1>2 DEF OutboxInv, SendingRows
<1>4. \A q \in Procs \ {p} : ~Holds(q) /\ proc[q].pc # "smtp" BY <1>2, OthersWait
<1>5. PICK i \in Ids : i = proc[p].row BY <1>1 DEF ProcRecord
<1>6. UNCHANGED <<clock, material, enabled>>
      /\ sent' = [sent EXCEPT ![i] = IF taken THEN sent[i] + 1 ELSE sent[i]]
  BY <1>1, <1>3, <1>5, SmtpOutcome
<1>7. PICK w \in RowRecord, r \in ProcRecord :
        /\ msg' = [msg EXCEPT ![i] = w] /\ w.state \in {"ACCEPTED", "AMBIGUOUS", "FAILED"}
        /\ proc' = [proc EXCEPT ![p] = r] /\ r.pc = "send"
  BY <1>1, <1>3, <1>5, SmtpOutcome
<1>8. sent' \in [Ids -> Nat]
  <2>1. sent[i] \in Nat /\ sent[i] + 1 \in Nat BY <1>1
  <2> QED BY <1>1, <1>6, <2>1
<1>9. msg' \in [Ids -> RowRecord] /\ Cardinality(Present') <= MaxItems BY <1>1, <1>3, <1>5, <1>7, RowChanges
<1> QED BY <1>4, <1>6, <1>7, <1>8, <1>9, OutboxMoves

\* Every step of the outbox keeps its books.
LEMMA OutboxStep == OutboxInv /\ [MailNext]_mailVars => OutboxInv'
<1> SUFFICES ASSUME OutboxInv, [MailNext]_mailVars PROVE OutboxInv'
  OBVIOUS
<1>1. ASSUME UNCHANGED <<msg, proc, sent>>, clock' \in 0..(MailDays * Ticks - 1), enabled' \in BOOLEAN,
             material' \in [0..MailDays-1 -> [Slots -> Delivery]]
      PROVE OutboxInv'
  <2>1. Present' = Present BY <1>1 DEF Present
  <2>2. OutboxTypeOK' BY <1>1, <2>1 DEF OutboxInv, OutboxTypeOK
  <2>3. OneHolder' BY <1>1 DEF OutboxInv, OneHolder, Holds
  <2>4. SendingRows' BY <1>1 DEF OutboxInv, SendingRows
  <2> QED BY <2>2, <2>3, <2>4 DEF OutboxInv
<1>2. CASE UNCHANGED mailVars
  <2>1. UNCHANGED <<msg, proc, sent, clock, enabled, material>> BY <1>2 DEF mailVars
  <2> QED BY <1>1, <2>1 DEF OutboxInv, OutboxTypeOK
<1>3. CASE MailTick \/ (\E s \in Slots, f \in {"good", "unfit", "unreadable"} : Deliver(s, f))
           \/ \E on \in BOOLEAN : SetEnabled(on)
  <2>1. OutboxTypeOK BY DEF OutboxInv
  <2> QED BY <1>1, <1>3, <2>1, AroundStep
<1>4. CASE \E p \in Procs : Run(p) \/ \E t \in BOOLEAN : Die(p, t)
  <2>1. PICK p \in Procs : Run(p) \/ \E t \in BOOLEAN : Die(p, t) BY <1>4
  <2>2. CASE StartRun(p) \/ Lock(p) \/ SlotsDone(p) \/ \E t \in BOOLEAN : Die(p, t) BY <2>2, QuietStep
  <2>3. CASE Open(p) BY <2>3, OpenStep
  <2>4. CASE Report(p) BY <2>4, ReportStep
  <2>5. CASE Claim(p) BY <2>5, ClaimStep
  <2>6. CASE \E o \in {"ACCEPTED", "refused", "deferred", "AMBIGUOUS"}, t \in BOOLEAN : Smtp(p, o, t)
    BY <2>6, SmtpStep
  <2> QED BY <2>1, <2>2, <2>3, <2>4, <2>5, <2>6 DEF Run
<1> QED BY <1>2, <1>3, <1>4 DEF MailNext

\* An empty table satisfies them.
LEMMA OutboxStarts == MailInit => OutboxInv /\ Present = {}
<1> SUFFICES ASSUME MailInit PROVE OutboxInv /\ Present = {}
  OBVIOUS
<1>1. MaxAttempts \in Nat /\ MaxItems \in Nat BY OutboxAssumption DEF OutboxBounds
<1>2. Present = {} BY DEF MailInit, Present, NoRow
<1>3. Cardinality(Present) <= MaxItems BY <1>1, <1>2, FS_EmptySet
<1>4. IdleProc \in ProcRecord /\ IdleProc.pc = "idle" /\ MailDays * Ticks - 1 \in Nat BY IdleIsProc
<1>5. proc \in [Procs -> ProcRecord] /\ \A p \in Procs : proc[p].pc = "idle" BY <1>4 DEF MailInit
<1>6. NoRow \in RowRecord
  <2>1. 0 \in 0..MaxAttempts BY <1>1
  <2> QED BY <2>1 DEF NoRow, RowRecord, RowStates
<1>7. msg \in [Ids -> RowRecord] /\ sent \in [Ids -> Nat] BY <1>6 DEF MailInit
<1>8. material \in [0..MailDays-1 -> [Slots -> Delivery]] BY DEF MailInit, Delivery
<1>9. clock \in 0..(MailDays * Ticks - 1) /\ enabled \in BOOLEAN
  <2>1. PICK n \in Nat : n = MailDays * Ticks - 1 BY <1>4
  <2>2. clock = 0 /\ 0 \in 0..n /\ enabled = FALSE BY <2>1 DEF MailInit
  <2> QED BY <2>1, <2>2
<1>10. OutboxTypeOK BY <1>3, <1>5, <1>7, <1>8, <1>9 DEF OutboxTypeOK
<1>11. OneHolder /\ SendingRows BY <1>5 DEF OneHolder, SendingRows, Holds
<1> QED BY <1>2, <1>10, <1>11 DEF OutboxInv

\* Whatever is killed, refused or pruned: the table stays within its capacity, one process at a time
\* adds and hands over rows, and the row it hands over is marked.
THEOREM OutboxInvariant == MailSpec => []OutboxInv
<1>1. MailInit => OutboxInv BY OutboxStarts
<1>2. OutboxInv /\ [MailNext]_mailVars => OutboxInv' BY OutboxStep
<1> QED BY <1>1, <1>2, PTL DEF MailSpec

\* A step of one process that leaves the server alone and no message to be given up.
LEMMA SpokenMoves ==
  ASSUME OutboxInv, SlotsSpoken, NEW p \in Procs, NEW r \in ProcRecord, proc' = [proc EXCEPT ![p] = r],
         Present \subseteq Present', r.pc \in {"started", "opened"} => r.next = 1,
         \A s \in Slots : r.pc \in {"send", "smtp"} \/ (r.pc = "slots" /\ s < r.next) => Spoken(s, r.now)'
  PROVE SlotsSpoken'
<1>1. proc'[p] = r /\ \A q \in Procs \ {p} : proc'[q] = proc[q] BY ProcChanges DEF OutboxInv
<1>2. \A s \in Slots, now \in Nat : Spoken(s, now) => Spoken(s, now)' BY DEF Spoken
<1>3. ASSUME NEW q \in Procs \ {p}
      PROVE /\ proc'[q].pc \in {"started", "opened"} => proc'[q].next = 1
            /\ \A s \in Slots :
                 proc'[q].pc \in {"send", "smtp"} \/ (proc'[q].pc = "slots" /\ s < proc'[q].next)
                   => Spoken(s, proc[q].now)'
  <2>1. proc[q].now \in Nat BY DayBound DEF OutboxInv, OutboxTypeOK, ProcRecord
  <2>2. PICK now \in Nat : now = proc[q].now BY <2>1
  <2> QED BY <1>1, <1>2, <2>2 DEF SlotsSpoken
<1> QED BY <1>1, <1>3 DEF SlotsSpoken

\* The slots are numbered from 1.
LEMMA SlotNumbers == Cardinality(Slots) \in Nat /\ Slots = 1..Cardinality(Slots) /\ Slots \subseteq Nat
<1>1. Slots = 1..Cardinality(Slots) /\ Cardinality(Slots) \in Nat BY IdleIsProc, OutboxAssumption DEF OutboxBounds
<1> QED BY <1>1

\* A run starts, gets the lock, goes on to send, or is killed.
LEMMA QuietMail ==
  ASSUME MailInv, NEW p \in Procs,
         StartRun(p) \/ Lock(p) \/ SlotsDone(p) \/ \E t \in BOOLEAN : Die(p, t)
  PROVE SentBooks' /\ SlotsSpoken'
<1>1. OutboxInv /\ SentBooks /\ SlotsSpoken /\ proc[p] \in ProcRecord BY DEF MailInv, OutboxInv, OutboxTypeOK
<1>2. UNCHANGED msg BY DEF StartRun, Lock, SlotsDone, Die
<1>3. Present' = Present /\ \A s \in Slots, now \in Nat : Spoken(s, now)' <=> Spoken(s, now)
  BY <1>2 DEF Present, Spoken
<1>4. proc[p].now \in Nat BY <1>1, DayBound DEF ProcRecord
<1>5. ASSUME NEW r \in ProcRecord, proc' = [proc EXCEPT ![p] = r], UNCHANGED sent,
             r.pc # "smtp", r.pc \in {"started", "opened"} => r.next = 1,
             \A s \in Slots : r.pc = "send" \/ (r.pc = "slots" /\ s < r.next) => Spoken(s, r.now)'
      PROVE SentBooks' /\ SlotsSpoken'
  <2>1. proc'[p] = r /\ \A q \in Procs \ {p} : proc'[q] = proc[q] BY <1>1, <1>5, ProcChanges DEF OutboxInv
  <2>2. SlotsSpoken' BY <1>1, <1>3, <1>5, SpokenMoves
  <2>3. SentBooks' BY <1>1, <1>2, <1>5, <2>1 DEF SentBooks
  <2> QED BY <2>2, <2>3
<1>6. CASE StartRun(p)
  <2>1. PICK r : r = [IdleProc EXCEPT !.pc = "started", !.now = clock, !.on = enabled, !.left = SendBudget] OBVIOUS
  <2>2. r \in ProcRecord /\ r.pc = "started" /\ r.next = 1
    <3>1. SendBudget \in Nat BY OutboxAssumption DEF OutboxBounds
    <3>2. clock \in 0..(MailDays * Ticks - 1) /\ enabled \in BOOLEAN BY <1>1 DEF OutboxInv, OutboxTypeOK
    <3> QED BY <2>1, <3>1, <3>2, IdleIsProc DEF ProcRecord
  <2>3. proc' = [proc EXCEPT ![p] = r] /\ UNCHANGED sent BY <1>6, <2>1 DEF StartRun
  <2> QED BY <1>5, <2>2, <2>3
<1>7. CASE Lock(p)
  <2>1. PICK i \in ProcRecord : i = IdleProc /\ i.pc = "idle" BY IdleIsProc
  <2>2. PICK r : r = [proc[p] EXCEPT !.pc = "slots"] OBVIOUS
  <2>3. proc[p].next = 1 BY <1>1, <1>7 DEF Lock, SlotsSpoken
  <2>4. r \in ProcRecord /\ r.pc = "slots" /\ r.next = 1 BY <1>1, <2>2, <2>3 DEF ProcRecord
  <2>5. \A s \in Slots : ~(s < 1) BY SlotNumbers
  <2>6. UNCHANGED sent /\ (proc' = [proc EXCEPT ![p] = i] \/ proc' = [proc EXCEPT ![p] = r])
    BY <1>7, <2>1, <2>2 DEF Lock
  <2>7. CASE proc' = [proc EXCEPT ![p] = i]
    <3>1. i.pc # "smtp" /\ ~(i.pc \in {"started", "opened"}) /\ i.pc # "send" /\ i.pc # "slots" BY <2>1
    <3> QED BY <1>5, <2>6, <2>7, <3>1
  <2>8. CASE proc' = [proc EXCEPT ![p] = r] BY <1>5, <2>4, <2>5, <2>6, <2>8
  <2> QED BY <2>6, <2>7, <2>8
<1>8. CASE SlotsDone(p)
  <2>1. PICK r : r = [proc[p] EXCEPT !.pc = "send"] OBVIOUS
  <2>2. r \in ProcRecord /\ r.pc = "send" /\ r.now = proc[p].now BY <1>1, <2>1 DEF ProcRecord
  <2>3. proc' = [proc EXCEPT ![p] = r] /\ UNCHANGED sent /\ proc[p].pc = "slots" /\ proc[p].next \notin Slots
    BY <1>8, <2>1 DEF SlotsDone
  <2>4. proc[p].next \in 1..(Cardinality(Slots) + 1) BY <1>1 DEF ProcRecord
  <2>5. \A s \in Slots : s < proc[p].next BY <2>3, <2>4, SlotNumbers
  <2>6. \A s \in Slots : Spoken(s, proc[p].now) BY <1>1, <2>3, <2>5 DEF SlotsSpoken
  <2>7. \A s \in Slots : Spoken(s, r.now)'
    <3>1. PICK now \in Nat : now = proc[p].now BY <1>4
    <3>2. \A s \in Slots : Spoken(s, now)' BY <1>3, <2>6, <3>1
    <3>3. r.now = now BY <2>2, <3>1
    <3> QED BY <3>2, <3>3
  <2> QED BY <1>5, <2>2, <2>3, <2>7
<1>9. CASE \E t \in BOOLEAN : Die(p, t)
  <2>1. PICK t \in BOOLEAN : Die(p, t) BY <1>9
  <2>2. PICK r \in ProcRecord : r = IdleProc /\ r.pc = "idle" BY IdleIsProc
  <2>3. proc' = [proc EXCEPT ![p] = r] BY <2>1, <2>2 DEF Die
  <2>4. CASE ~t
    <3>1. UNCHANGED sent BY <2>1, <2>4 DEF Die
    <3> QED BY <1>5, <2>2, <2>3, <3>1
  <2>5. CASE t
    <3>1. PICK i \in Ids : i = proc[p].row BY <1>1 DEF ProcRecord
    <3>2. proc[p].pc = "smtp" /\ Holds(p) /\ sent' = [sent EXCEPT ![i] = @ + 1]
      BY <2>1, <2>5, <3>1 DEF Die, Holds
    <3>3. sent[i] = 0 /\ msg[i].state = "SENDING" BY <1>1, <3>1, <3>2 DEF SentBooks, OutboxInv, SendingRows
    <3>4. \A q \in Procs \ {p} : proc[q].pc # "smtp" BY <1>1, <3>2, OthersWait
    <3>5. proc'[p] = r /\ \A q \in Procs \ {p} : proc'[q] = proc[q] BY <1>1, <2>3, ProcChanges DEF OutboxInv
    <3>6. \A q \in Procs : proc'[q].pc # "smtp" BY <2>2, <3>4, <3>5
    <3>7. sent \in [Ids -> Nat] BY <1>1 DEF OutboxInv, OutboxTypeOK
    <3>8. sent'[i] = 1 /\ \A j \in Ids \ {i} : sent'[j] = sent[j] BY <3>2, <3>3, <3>7
    <3>9. SentBooks' BY <1>1, <1>2, <3>3, <3>6, <3>8 DEF SentBooks
    <3>10. SlotsSpoken' BY <1>1, <1>3, <2>2, <2>3, SpokenMoves
    <3> QED BY <3>9, <3>10
  <2> QED BY <2>4, <2>5
<1> QED BY <1>6, <1>7, <1>8, <1>9

\* Marking an interrupted send takes back nothing.
LEMMA OpenMail == ASSUME MailInv, NEW p \in Procs, Open(p) PROVE SentBooks' /\ SlotsSpoken'
<1>1. OutboxInv /\ SentBooks /\ SlotsSpoken /\ proc[p] \in ProcRecord BY DEF MailInv, OutboxInv, OutboxTypeOK
<1>2. /\ Present' = Present
      /\ \A i \in Ids : msg'[i].state = msg[i].state \/ (msg[i].state = "SENDING" /\ msg'[i].state = "AMBIGUOUS")
  BY <1>1, OpenStep
<1>3. PICK r : r = [proc[p] EXCEPT !.pc = "opened"] OBVIOUS
<1>4. r \in ProcRecord /\ r.pc = "opened" /\ r.next = proc[p].next BY <1>1, <1>3 DEF ProcRecord
<1>5. proc' = [proc EXCEPT ![p] = r] /\ UNCHANGED sent /\ r.next = 1 BY <1>1, <1>3, <1>4 DEF Open, SlotsSpoken
<1>6. proc'[p] = r /\ \A q \in Procs \ {p} : proc'[q] = proc[q] BY <1>1, <1>4, <1>5, ProcChanges DEF OutboxInv
<1>7. SlotsSpoken' BY <1>1, <1>2, <1>4, <1>5, SpokenMoves
<1>8. SentBooks' BY <1>1, <1>2, <1>4, <1>5, <1>6 DEF SentBooks
<1> QED BY <1>7, <1>8

\* The loop over the slots leaves a message behind for the slot it has gone through.
LEMMA ReportMail ==
  ASSUME MailInv, HasRoom, NEW p \in Procs, Report(p)
  PROVE SentBooks' /\ SlotsSpoken'
<1>1. OutboxInv /\ SentBooks /\ SlotsSpoken /\ proc[p] \in ProcRecord /\ OutboxTypeOK
  BY DEF MailInv, OutboxInv, OutboxTypeOK
<1>2. proc[p].pc = "slots" /\ Holds(p) /\ UNCHANGED sent BY <1>1, ReportOutcome DEF Holds
<1>3. PICK s \in Slots : s = proc[p].next BY <1>1, ReportOutcome
<1>4. PICK now \in 0..(MailDays * Ticks - 1) : now = proc[p].now BY <1>1 DEF ProcRecord
<1>5. \A q \in Procs \ {p} : proc[q].pc # "smtp" BY <1>1, <1>2, OthersWait
<1>6. PICK r : r = [proc[p] EXCEPT !.next = s + 1] OBVIOUS
<1>7. r \in ProcRecord /\ r.pc = "slots" /\ r.now = now /\ r.next = s + 1
  <2>1. s + 1 \in 1..(Cardinality(Slots) + 1) BY SlotNumbers
  <2> QED BY <1>1, <1>2, <1>4, <1>6, <2>1 DEF ProcRecord
<1>8. \A z \in Slots : z < s => Spoken(z, now) BY <1>1, <1>2, <1>3, <1>4 DEF SlotsSpoken
<1>9. \A z \in Slots : z < s + 1 => z < s \/ z = s BY SlotNumbers
<1>10. ASSUME Present \subseteq Present', proc' = [proc EXCEPT ![p] = r], Spoken(s, now)' PROVE SlotsSpoken'
  <2>1. \A z \in Slots : Spoken(z, now) => Spoken(z, now)' BY <1>10 DEF Spoken
  <2>2. \A z \in Slots : z < s + 1 => Spoken(z, now)' BY <1>8, <1>9, <1>10, <2>1
  <2>3. \A z \in Slots : z < r.next => Spoken(z, r.now)' BY <1>7, <2>2
  <2> QED BY <1>1, <1>7, <1>10, <2>3, SpokenMoves
<1>11. ASSUME NEW u \in ProcRecord, proc' = [proc EXCEPT ![p] = u], u.pc # "smtp",
              \A i \in Ids : msg'[i].state \in {"ABSENT", "READY", "FAILED"} => sent[i] = 0
       PROVE SentBooks'
  <2>1. proc'[p] = u /\ \A q \in Procs \ {p} : proc'[q] = proc[q] BY <1>1, <1>11, ProcChanges DEF OutboxInv
  <2>2. \A q \in Procs : proc'[q].pc # "smtp" BY <1>5, <1>11, <2>1
  <2> QED BY <1>1, <1>2, <1>11, <2>2 DEF SentBooks
<1>12. CASE UNCHANGED msg /\ proc' = [proc EXCEPT ![p] = IdleProc]
  <2>1. PICK u \in ProcRecord : u = IdleProc /\ u.pc = "idle" BY IdleIsProc
  <2>2. Present' = Present BY <1>12 DEF Present
  <2>3. SlotsSpoken'
    <3>1. u.pc # "send" /\ u.pc # "smtp" /\ u.pc # "slots" /\ ~(u.pc \in {"started", "opened"}) BY <2>1
    <3> QED BY <1>1, <1>12, <2>1, <2>2, <3>1, SpokenMoves
  <2>4. SentBooks' BY <1>1, <1>11, <1>12, <2>1 DEF SentBooks
  <2> QED BY <2>3, <2>4
<1>13. CASE UNCHANGED msg /\ Wanted(s, now) = {} /\ proc' = [proc EXCEPT ![p] = r]
  <2>1. Spoken(s, now) BY <1>13, NothingWanted
  <2>2. Present' = Present BY <1>13 DEF Present
  <2>3. Spoken(s, now)' BY <2>1, <2>2 DEF Spoken
  <2>4. SentBooks' BY <1>1, <1>7, <1>11, <1>13 DEF SentBooks
  <2> QED BY <1>10, <1>13, <2>2, <2>3, <2>4
<1>14. CASE \E id \in Ids, kept \in SUBSET Present, new \in RowRecord :
              /\ id \notin Present /\ \E k \in Kinds : id = <<Day(now), s, k>>
              /\ kept = Present /\ new.state = "READY"
              /\ msg' = [i \in Ids |-> IF i = id THEN new ELSE IF i \in kept THEN msg[i] ELSE NoRow]
              /\ proc' = [proc EXCEPT ![p] = r]
  <2>1. PICK id \in Ids, new \in RowRecord :
              /\ id \notin Present /\ \E k \in Kinds : id = <<Day(now), s, k>>
              /\ new.state = "READY"
              /\ msg' = [i \in Ids |-> IF i = id THEN new ELSE IF i \in Present THEN msg[i] ELSE NoRow]
              /\ proc' = [proc EXCEPT ![p] = r]
    BY <1>14
  <2>2. msg'[id] = new /\ \A i \in Present : msg'[i] = msg[i] BY <2>1 DEF Present
  <2>3. Present \subseteq Present' BY <2>2 DEF Present
  <2>4. id \in Present' BY <2>1, <2>2 DEF Present
  <2>5. Spoken(s, now)' BY <2>1, <2>4 DEF Spoken
  <2>6. \A i \in Ids \ Present : msg[i].state = "ABSENT" /\ sent[i] = 0 BY <1>1 DEF Present, SentBooks
  <2>7. \A i \in Ids : msg'[i].state \in {"ABSENT", "READY", "FAILED"} => sent[i] = 0
    BY <1>1, <2>2, <2>6 DEF SentBooks
  <2>8. SentBooks' BY <1>7, <1>11, <2>1, <2>7
  <2> QED BY <1>10, <2>1, <2>3, <2>5, <2>8
<1>15. \/ UNCHANGED msg /\ proc' = [proc EXCEPT ![p] = IdleProc]
       \/ UNCHANGED msg /\ Wanted(s, now) = {} /\ proc' = [proc EXCEPT ![p] = r]
       \/ \E id \in Ids, kept \in SUBSET Present, new \in RowRecord :
              /\ id \notin Present /\ \E k \in Kinds : id = <<Day(now), s, k>>
              /\ kept = Present /\ new.state = "READY"
              /\ msg' = [i \in Ids |-> IF i = id THEN new ELSE IF i \in kept THEN msg[i] ELSE NoRow]
              /\ proc' = [proc EXCEPT ![p] = r]
  <2>1. r = [proc[p] EXCEPT !.next = proc[p].next + 1] BY <1>3, <1>6
  <2>2. CASE UNCHANGED msg /\ proc' = [proc EXCEPT ![p] = IdleProc] BY <2>2
  <2>3. CASE /\ UNCHANGED msg /\ Wanted(proc[p].next, proc[p].now) = {}
             /\ proc' = [proc EXCEPT ![p] = [proc[p] EXCEPT !.next = proc[p].next + 1]]
    BY <1>3, <1>4, <2>1, <2>3
  <2>4. CASE /\ ~(UNCHANGED msg /\ proc' = [proc EXCEPT ![p] = IdleProc])
             /\ ~(/\ UNCHANGED msg /\ Wanted(proc[p].next, proc[p].now) = {}
                  /\ proc' = [proc EXCEPT ![p] = [proc[p] EXCEPT !.next = proc[p].next + 1]])
    <3>1. PICK id \in Ids, kept \in SUBSET Present, new \in RowRecord :
                /\ id \notin Present /\ \E k \in Kinds : id = <<Day(proc[p].now), proc[p].next, k>>
                /\ Cardinality(kept) < MaxItems /\ (HasRoom => kept = Present) /\ new.state = "READY"
                /\ msg' = [i \in Ids |-> IF i = id THEN new ELSE IF i \in kept THEN msg[i] ELSE NoRow]
                /\ proc' = [proc EXCEPT ![p] = [proc[p] EXCEPT !.next = proc[p].next + 1]]
      BY <1>1, <2>4, ReportOutcome
    <3>2. kept = Present BY <3>1
    <3>3. proc' = [proc EXCEPT ![p] = r] BY <2>1, <3>1
    <3>4. \E k \in Kinds : id = <<Day(now), s, k>> BY <1>3, <1>4, <3>1
    <3>5. id \notin Present /\ new.state = "READY"
          /\ msg' = [i \in Ids |-> IF i = id THEN new ELSE IF i \in kept THEN msg[i] ELSE NoRow]
      BY <3>1
    <3> QED BY <3>2, <3>3, <3>4, <3>5
  <2> QED BY <2>2, <2>3, <2>4
<1> QED BY <1>12, <1>13, <1>14, <1>15

\* Only a row the server has not taken is claimed.
LEMMA ClaimMail == ASSUME MailInv, NEW p \in Procs, Claim(p) PROVE SentBooks' /\ SlotsSpoken'
<1>1. OutboxInv /\ SentBooks /\ SlotsSpoken /\ proc[p] \in ProcRecord /\ OutboxTypeOK
  BY DEF MailInv, OutboxInv, OutboxTypeOK
<1>2. proc[p].pc = "send" /\ Holds(p) /\ UNCHANGED sent BY <1>1, ClaimOutcome DEF Holds
<1>3. \A q \in Procs \ {p} : proc[q].pc # "smtp" BY <1>1, <1>2, OthersWait
<1>4. PICK now \in Nat : now = proc[p].now BY <1>1, DayBound DEF ProcRecord
<1>5. \A s \in Slots : Spoken(s, now) BY <1>1, <1>2, <1>4 DEF SlotsSpoken
<1>6. CASE UNCHANGED msg /\ proc' = [proc EXCEPT ![p] = IdleProc]
  <2>1. PICK u \in ProcRecord : u = IdleProc /\ u.pc = "idle" BY IdleIsProc
  <2>2. Present' = Present BY <1>6 DEF Present
  <2>3. proc'[p] = u /\ \A q \in Procs \ {p} : proc'[q] = proc[q] BY <1>1, <1>6, <2>1, ProcChanges
  <2>4. SlotsSpoken'
    <3>1. u.pc # "send" /\ u.pc # "smtp" /\ u.pc # "slots" /\ ~(u.pc \in {"started", "opened"}) BY <2>1
    <3> QED BY <1>1, <1>6, <2>1, <2>2, <3>1, SpokenMoves
  <2>5. SentBooks' BY <1>1, <1>2, <1>3, <1>6, <2>1, <2>3 DEF SentBooks
  <2> QED BY <2>4, <2>5
<1>7. CASE ~(UNCHANGED msg /\ proc' = [proc EXCEPT ![p] = IdleProc])
  <2>1. PICK i \in Present, w \in RowRecord, r \in ProcRecord :
          /\ msg[i].state \in {"READY", "FAILED"} /\ msg' = [msg EXCEPT ![i] = w]
          /\ proc' = [proc EXCEPT ![p] = r] /\ r.now = now
          /\ \/ w.state = "FAILED" /\ r.pc = "send"
             \/ w.state = "SENDING" /\ r.pc = "smtp" /\ r.row = i
    BY <1>1, <1>4, <1>7, ClaimOutcome
  <2>2. i \in Ids BY DEF Present
  <2>3. msg'[i] = w /\ (\A j \in Ids \ {i} : msg'[j] = msg[j]) /\ Present' = Present
    BY <1>1, <2>1, <2>2, RowChanges
  <2>4. proc'[p] = r /\ \A q \in Procs \ {p} : proc'[q] = proc[q] BY <1>1, <2>1, ProcChanges
  <2>5. sent[i] = 0 BY <1>1, <2>1, <2>2 DEF SentBooks
  <2>6. SentBooks'
    <3>1. \A j \in Ids : sent'[j] <= 1 /\ (msg'[j].state \in {"ABSENT", "READY", "FAILED"} => sent'[j] = 0)
      BY <1>1, <1>2, <2>3, <2>5 DEF SentBooks
    <3>2. \A q \in Procs : proc'[q].pc = "smtp" => sent'[proc'[q].row] = 0
      BY <1>2, <1>3, <2>1, <2>4, <2>5
    <3> QED BY <3>1, <3>2 DEF SentBooks
  <2>7. SlotsSpoken'
    <3>1. \A s \in Slots : Spoken(s, now)' BY <1>5, <2>3 DEF Spoken
    <3>2. \A s \in Slots : Spoken(s, r.now)' BY <2>1, <3>1
    <3>3. ~(r.pc \in {"started", "opened"}) BY <2>1
    <3> QED BY <1>1, <2>1, <2>3, <3>2, <3>3, SpokenMoves
  <2> QED BY <2>6, <2>7
<1> QED BY <1>6, <1>7

\* A row is given back to be tried again only if the server did not take it.
LEMMA SmtpMail ==
  ASSUME MailInv, NEW p \in Procs, NEW o \in {"ACCEPTED", "refused", "deferred", "AMBIGUOUS"},
         NEW taken \in BOOLEAN, Smtp(p, o, taken)
  PROVE SentBooks' /\ SlotsSpoken'
<1>1. OutboxInv /\ SentBooks /\ SlotsSpoken /\ proc[p] \in ProcRecord /\ OutboxTypeOK
  BY DEF MailInv, OutboxInv, OutboxTypeOK
<1>2. proc[p].pc = "smtp" /\ Holds(p) BY DEF Smtp, Holds
<1>3. PICK i \in Ids : i = proc[p].row BY <1>1 DEF ProcRecord
<1>4. msg[i].state = "SENDING" /\ sent[i] = 0 BY <1>1, <1>2, <1>3 DEF OutboxInv, SendingRows, SentBooks
<1>5. \A q \in Procs \ {p} : proc[q].pc # "smtp" BY <1>1, <1>2, OthersWait
<1>6. PICK now \in Nat : now = proc[p].now BY <1>1, DayBound DEF ProcRecord
<1>7. sent' = [sent EXCEPT ![i] = IF taken THEN sent[i] + 1 ELSE sent[i]]
  BY <1>1, <1>3, <1>4, SmtpOutcome
<1>8. PICK w \in RowRecord, r \in ProcRecord :
        /\ msg' = [msg EXCEPT ![i] = w] /\ w.state \in {"ACCEPTED", "AMBIGUOUS", "FAILED"}
        /\ w.state = "FAILED" => ~taken
        /\ proc' = [proc EXCEPT ![p] = r] /\ r.pc = "send" /\ r.now = now
  BY <1>1, <1>3, <1>4, <1>6, SmtpOutcome
<1>9. msg'[i] = w /\ (\A j \in Ids \ {i} : msg'[j] = msg[j]) /\ Present' = Present
  BY <1>1, <1>4, <1>8, RowChanges
<1>10. proc'[p] = r /\ \A q \in Procs \ {p} : proc'[q] = proc[q] BY <1>1, <1>8, ProcChanges
<1>11. SentBooks'
  <2>1. sent'[i] = (IF taken THEN 1 ELSE 0) /\ \A j \in Ids \ {i} : sent'[j] = sent[j]
    BY <1>1, <1>4, <1>7 DEF OutboxTypeOK
  <2>2. \A j \in Ids : sent'[j] <= 1 /\ (msg'[j].state \in {"ABSENT", "READY", "FAILED"} => sent'[j] = 0)
    <3>1. sent'[i] <= 1 /\ (msg'[i].state \in {"ABSENT", "READY", "FAILED"} => sent'[i] = 0)
      BY <1>8, <1>9, <2>1
    <3> QED BY <1>1, <1>9, <2>1, <3>1 DEF SentBooks
  <2>3. \A q \in Procs : proc'[q].pc # "smtp" BY <1>5, <1>8, <1>10
  <2> QED BY <2>2, <2>3 DEF SentBooks
<1>12. SlotsSpoken'
  <2>1. \A s \in Slots : Spoken(s, now) BY <1>1, <1>2, <1>6 DEF SlotsSpoken
  <2>2. \A s \in Slots : Spoken(s, now)' BY <1>9, <2>1 DEF Spoken
  <2>3. \A s \in Slots : Spoken(s, r.now)' BY <1>8, <2>2
  <2>4. ~(r.pc \in {"started", "opened"}) BY <1>8
  <2> QED BY <1>1, <1>8, <1>9, <2>3, <2>4, SpokenMoves
<1> QED BY <1>11, <1>12

\* Every step keeps what was spoken and what was sent in agreement.
LEMMA MailStep == HasRoom /\ MailInv /\ [MailNext]_mailVars => MailInv'
<1> SUFFICES ASSUME HasRoom, MailInv, [MailNext]_mailVars PROVE MailInv'
  OBVIOUS
<1>1. OutboxInv' BY OutboxStep DEF MailInv
<1>2. ASSUME UNCHANGED <<msg, proc, sent>> PROVE SentBooks' /\ SlotsSpoken'
  <2>1. SentBooks' BY <1>2 DEF MailInv, SentBooks
  <2>2. SlotsSpoken' BY <1>2 DEF MailInv, SlotsSpoken, Spoken, Present
  <2> QED BY <2>1, <2>2
<1>3. CASE UNCHANGED mailVars BY <1>1, <1>2, <1>3 DEF mailVars, MailInv
<1>4. CASE MailTick \/ (\E s \in Slots, f \in {"good", "unfit", "unreadable"} : Deliver(s, f))
           \/ \E on \in BOOLEAN : SetEnabled(on)
  <2>1. UNCHANGED <<msg, proc, sent>> BY <1>4 DEF MailTick, Deliver, SetEnabled
  <2> QED BY <1>1, <1>2, <2>1 DEF MailInv
<1>5. CASE \E p \in Procs : Run(p) \/ \E t \in BOOLEAN : Die(p, t)
  <2>1. PICK p \in Procs : Run(p) \/ \E t \in BOOLEAN : Die(p, t) BY <1>5
  <2>2. CASE StartRun(p) \/ Lock(p) \/ SlotsDone(p) \/ \E t \in BOOLEAN : Die(p, t)
    BY <1>1, <2>2, QuietMail DEF MailInv
  <2>3. CASE Open(p) BY <1>1, <2>3, OpenMail DEF MailInv
  <2>4. CASE Report(p) BY <1>1, <2>4, ReportMail DEF MailInv
  <2>5. CASE Claim(p) BY <1>1, <2>5, ClaimMail DEF MailInv
  <2>6. CASE \E o \in {"ACCEPTED", "refused", "deferred", "AMBIGUOUS"}, t \in BOOLEAN : Smtp(p, o, t)
    BY <1>1, <2>6, SmtpMail DEF MailInv
  <2> QED BY <2>1, <2>2, <2>3, <2>4, <2>5, <2>6 DEF Run
<1> QED BY <1>3, <1>4, <1>5 DEF MailNext

\* At the start nothing was spoken and nothing sent.
LEMMA MailStarts == MailInit => MailInv
<1> SUFFICES ASSUME MailInit PROVE MailInv
  OBVIOUS
<1>1. \A i \in Ids : sent[i] = 0 BY DEF MailInit
<1>2. \A p \in Procs : proc[p].pc = "idle" BY IdleIsProc DEF MailInit
<1>3. SentBooks BY <1>1, <1>2 DEF SentBooks
<1>4. SlotsSpoken BY <1>2 DEF SlotsSpoken
<1> QED BY <1>3, <1>4, OutboxStarts DEF MailInv

\* "Repeated wake-ups or a restart do not send twice", and no slot of the day is silently missing:
\* for every number of processes, kills, rejections and retries, in a table that has room.
THEOREM NothingMailedTwice == ASSUME HasRoom PROVE MailSpec => []MailOnce
<1>1. MailInit => MailInv BY MailStarts
<1>2. MailInv /\ [MailNext]_mailVars => MailInv' BY MailStep
<1>3. MailInv => MailOnce
  <2> SUFFICES ASSUME MailInv PROVE MailOnce
    OBVIOUS
  <2>1. OutboxTypeOK /\ NeverTwice BY DEF MailInv, OutboxInv, SentBooks, NeverTwice
  <2>2. NoSilentSlot BY DEF MailInv, SlotsSpoken, Spoken, NoSilentSlot
  <2> QED BY <2>1, <2>2 DEF MailOnce
<1> QED BY <1>1, <1>2, <1>3, PTL DEF MailSpec

(***************************************************************************)
(* One digest of a slot, when runs follow each other.  A late digest was   *)
(* added after its slot's time, and no run goes back behind the rows that  *)
(* are there, so the digest in time is not wanted any more.  Two processes *)
(* that overlap may take the lock in the order opposite to their times.    *)
(***************************************************************************)

\* Dispatcher runs do not overlap.
OneDispatcher == \A p, q \in Procs : p = q

\* Rows are no newer than the clock and the time of the run that is under way.
RowsBehind ==
  /\ \A p \in Procs : proc[p].pc # "idle" => proc[p].now <= clock
  /\ \A i \in Present : /\ msg[i].at <= clock
                        /\ \A p \in Procs : proc[p].pc # "idle" => msg[i].at <= proc[p].now

\* The kind of a row tells its slot, and the late ones their time.
KindsFit ==
  \A i \in Present : /\ i[3] = "eod" => i[2] = Eod
                     /\ i[3] \in {"normal", "late"} => i[2] # Eod
                     /\ i[3] = "late" => Day(msg[i].at) = i[1] /\ msg[i].at % Ticks > Planned[i[2]] + 1

\* A slot has a digest in time or a late one, not both.
NormalOrLate ==
  \A d \in 0..MailDays-1, s \in Slots : ~(<<d, s, "normal">> \in Present /\ <<d, s, "late">> \in Present)

DigestInv == RowsBehind /\ KindsFit /\ NormalOrLate

\* Within a day, later is later in the day.
LEMMA DayOrder ==
  ASSUME NEW a \in Nat, NEW b \in Nat, a <= b, Day(a) = Day(b)
  PROVE  a % Ticks <= b % Ticks
<1>1. Ticks \in Nat \ {0} BY OutboxAssumption DEF OutboxBounds
<1>2. a = Ticks * (a \div Ticks) + (a % Ticks) /\ b = Ticks * (b \div Ticks) + (b % Ticks) BY <1>1
<1>3. PICK n \in Int : n = Ticks * (a \div Ticks) BY <1>1
<1>4. a % Ticks \in Int /\ b % Ticks \in Int BY <1>1
<1>5. b = n + (b % Ticks) /\ a = n + (a % Ticks) BY <1>2, <1>3 DEF Day
<1> QED BY <1>3, <1>4, <1>5

\* A run's slot leaves rows as they are, or removes them, and adds at most the one that is wanted, stamped
\* with the run's time (enqueue).
LEMMA ReportAdds ==
  ASSUME OutboxTypeOK, NEW p \in Procs, Report(p)
  PROVE  \E id \in Ids :
           /\ \A i \in Present' : i # id => i \in Present /\ msg'[i].at = msg[i].at
           /\ \/ id \in Present' => id \in Present /\ msg'[id].at = msg[id].at
              \/ id \in Wanted(proc[p].next, proc[p].now) /\ msg'[id].at = proc[p].now
<1>1. PICK s \in Slots : s = proc[p].next /\ proc[p].pc = "slots" BY DEF Report
<1>2. PICK now \in 0..(MailDays * Ticks - 1) : now = proc[p].now BY DEF OutboxTypeOK, ProcRecord
<1>3. CASE UNCHANGED msg
  <2>1. \A i \in Present' : i \in Present /\ msg'[i].at = msg[i].at BY <1>3 DEF Present
  <2>2. proc[p].row \in Ids BY DEF OutboxTypeOK, ProcRecord
  <2> QED BY <2>1, <2>2
<1>4. CASE ~UNCHANGED msg
  <2>1. PICK id \in Wanted(s, now), kept \in Kept(now) : Enqueue(p, id, kept) /\ kept \subseteq Present
    BY <1>1, <1>2, <1>4, KeptWasThere DEF Report
  <2>2. id \in Ids BY <2>1, WantedIsNew
  <2>3. PICK until :
          msg' = [i \in Ids |-> IF i = id THEN [state |-> "READY", attempts |-> 0, retryable |-> FALSE, at |-> now,
                                                until |-> until]
                                ELSE IF i \in kept THEN msg[i] ELSE NoRow]
    BY <1>2, <1>4, <2>1 DEF Enqueue
  <2>4. msg'[id].at = now BY <2>2, <2>3
  <2>5. \A i \in Present' : i # id => i \in Present /\ msg'[i].at = msg[i].at
    <3> SUFFICES ASSUME NEW i \in Ids, msg'[i].state # "ABSENT", i # id
                 PROVE  i \in Present /\ msg'[i].at = msg[i].at
      BY DEF Present
    <3>1. i \in kept BY <2>3 DEF NoRow
    <3> QED BY <2>1, <2>3, <3>1
  <2> QED BY <1>1, <1>2, <2>1, <2>2, <2>4, <2>5
<1> QED BY <1>3, <1>4

\* Every other step keeps the rows and their times.
LEMMA RowsStamped ==
  ASSUME OutboxInv, [MailNext]_mailVars, \A p \in Procs : ~Report(p)
  PROVE  \A i \in Present' : i \in Present /\ msg'[i].at = msg[i].at
<1>0. OutboxTypeOK /\ msg \in [Ids -> RowRecord] /\ proc \in [Procs -> ProcRecord] BY DEF OutboxInv, OutboxTypeOK
<1>1. CASE UNCHANGED msg BY <1>1 DEF Present
<1>2. ASSUME NEW p \in Procs, Open(p) PROVE \A i \in Present' : i \in Present /\ msg'[i].at = msg[i].at
  <2>1. msg' = msg \/ msg' = Recovered(msg) BY <1>2 DEF Open
  <2>2. Present' = Present /\ \A i \in Ids : msg'[i].at = msg[i].at BY <1>0, <2>1, RecoveredRows
  <2> QED BY <2>2 DEF Present
<1>3. ASSUME NEW p \in Procs, Claim(p) PROVE \A i \in Present' : i \in Present /\ msg'[i].at = msg[i].at
  <2>1. CASE ~UNCHANGED msg
    <3>1. PICK i \in Present, w \in RowRecord :
            msg' = [msg EXCEPT ![i] = w] /\ w.at = msg[i].at
      BY <1>0, <1>3, <2>1, ClaimOutcome
    <3>2. i \in Ids BY DEF Present
    <3>3. \A j \in Ids : msg'[j].at = msg[j].at /\ (j # i => msg'[j] = msg[j]) BY <1>0, <3>1, <3>2
    <3> QED BY <3>1, <3>3 DEF Present
  <2> QED BY <1>1, <2>1
<1>4. ASSUME NEW p \in Procs, NEW o \in {"ACCEPTED", "refused", "deferred", "AMBIGUOUS"}, NEW t \in BOOLEAN, Smtp(p, o, t)
      PROVE  \A i \in Present' : i \in Present /\ msg'[i].at = msg[i].at
  <2>1. proc[p].row \in Ids /\ msg[proc[p].row].state = "SENDING"
    BY <1>0, <1>4 DEF OutboxInv, SendingRows, Smtp, ProcRecord
  <2>2. PICK i \in Ids : i = proc[p].row BY <2>1
  <2>3. PICK w \in RowRecord : msg' = [msg EXCEPT ![i] = w] /\ w.at = msg[i].at
    BY <1>0, <1>4, <2>1, <2>2, SmtpOutcome
  <2>4. \A j \in Ids : msg'[j].at = msg[j].at /\ (j # i => msg'[j] = msg[j]) BY <1>0, <2>2, <2>3
  <2> QED BY <2>1, <2>2, <2>4 DEF Present
<1>5. CASE MailTick \/ (\E s \in Slots, f \in {"good", "unfit", "unreadable"} : Deliver(s, f))
           \/ (\E on \in BOOLEAN : SetEnabled(on)) \/ UNCHANGED mailVars
           \/ \E p \in Procs : StartRun(p) \/ Lock(p) \/ SlotsDone(p) \/ \E t \in BOOLEAN : Die(p, t)
  BY <1>1, <1>5 DEF MailTick, Deliver, SetEnabled, mailVars, StartRun, Lock, SlotsDone, Die
<1> QED BY <1>2, <1>3, <1>4, <1>5 DEF MailNext, Run

\* The clock goes on; a run keeps the time it took when it began.
LEMMA TimesGoOn ==
  ASSUME OutboxInv, [MailNext]_mailVars, NEW p \in Procs, proc'[p].pc # "idle"
  PROVE  \/ proc[p].pc # "idle" /\ proc'[p].now = proc[p].now
         \/ proc'[p].now = clock
<1>0. proc \in [Procs -> ProcRecord] BY DEF OutboxInv, OutboxTypeOK
<1>1. CASE UNCHANGED proc BY <1>1
<1>2. ASSUME NEW q \in Procs, Run(q) \/ \E t \in BOOLEAN : Die(q, t)
      PROVE  \/ proc[p].pc # "idle" /\ proc'[p].now = proc[p].now
             \/ proc'[p].now = clock
  <2>1. \E r \in ProcRecord :
          /\ proc' = [proc EXCEPT ![q] = r]
          /\ r.pc = "idle" \/ (proc[q].pc # "idle" /\ r.now = proc[q].now) \/ r.now = clock
    <3>0. proc[q] \in ProcRecord /\ OutboxTypeOK BY <1>0 DEF OutboxInv
    <3>1. CASE StartRun(q)
      <4>1. PICK r : r = [IdleProc EXCEPT !.pc = "started", !.now = clock, !.on = enabled, !.left = SendBudget] OBVIOUS
      <4>2. proc' = [proc EXCEPT ![q] = r] BY <3>1, <4>1 DEF StartRun
      <4>3. SendBudget \in Nat /\ clock \in 0..(MailDays * Ticks - 1) /\ enabled \in BOOLEAN
        BY <3>0, OutboxAssumption DEF OutboxBounds, OutboxTypeOK
      <4>4. r \in ProcRecord /\ r.now = clock BY <4>1, <4>3, IdleIsProc DEF ProcRecord
      <4> QED BY <4>2, <4>4
    <3>2. CASE Open(q) \/ SlotsDone(q)
      <4>1. PICK to \in {"opened", "send"} : proc' = [proc EXCEPT ![q].pc = to] /\ proc[q].pc # "idle"
        BY <3>2 DEF Open, SlotsDone
      <4>2. PICK r : r = [proc[q] EXCEPT !.pc = to] OBVIOUS
      <4>3. r \in ProcRecord /\ r.now = proc[q].now BY <3>0, <4>2 DEF ProcRecord
      <4> QED BY <4>1, <4>2, <4>3
    <3>3. CASE Lock(q)
      <4>1. PICK r : r = [proc[q] EXCEPT !.pc = "slots"] OBVIOUS
      <4>2. r \in ProcRecord /\ r.now = proc[q].now BY <3>0, <4>1 DEF ProcRecord
      <4>3. proc[q].pc # "idle" /\ (proc' = [proc EXCEPT ![q] = IdleProc] \/ proc' = [proc EXCEPT ![q] = r])
        BY <3>3, <4>1 DEF Lock
      <4> QED BY <4>2, <4>3, IdleIsProc
    <3>4. CASE Report(q)
      <4>1. PICK r : r = [proc[q] EXCEPT !.next = proc[q].next + 1] OBVIOUS
      <4>2. proc[q].pc = "slots" /\ proc[q].next \in Slots
            /\ (proc' = [proc EXCEPT ![q] = IdleProc] \/ proc' = [proc EXCEPT ![q] = r])
        BY <3>0, <3>4, <4>1, ReportOutcome
      <4>3. proc[q].next + 1 \in 1..(Cardinality(Slots) + 1)
        <5>1. Slots = 1..Cardinality(Slots) /\ Cardinality(Slots) \in Nat BY IdleIsProc, OutboxAssumption DEF OutboxBounds
        <5> QED BY <4>2, <5>1
      <4>4. r \in ProcRecord /\ r.now = proc[q].now BY <3>0, <4>1, <4>3 DEF ProcRecord
      <4> QED BY <4>2, <4>4, IdleIsProc
    <3>5. CASE Claim(q)
      <4>1. proc[q].pc = "send" BY <3>0, <3>5, ClaimOutcome
      <4>2. CASE proc' = [proc EXCEPT ![q] = IdleProc] BY <4>2, IdleIsProc
      <4>3. CASE proc' # [proc EXCEPT ![q] = IdleProc]
        <5>1. PICK r \in ProcRecord : proc' = [proc EXCEPT ![q] = r] /\ r.now = proc[q].now
          BY <3>0, <3>5, <4>3, ClaimOutcome
        <5> QED BY <4>1, <5>1
      <4> QED BY <4>2, <4>3
    <3>6. CASE \E o \in {"ACCEPTED", "refused", "deferred", "AMBIGUOUS"}, t \in BOOLEAN : Smtp(q, o, t)
      <4>1. PICK o \in {"ACCEPTED", "refused", "deferred", "AMBIGUOUS"}, t \in BOOLEAN : Smtp(q, o, t) BY <3>6
      <4>2. proc[q].pc = "smtp" /\ msg[proc[q].row].state # "ABSENT"
        BY <4>1 DEF Smtp, OutboxInv, SendingRows
      <4>3. PICK r \in ProcRecord : proc' = [proc EXCEPT ![q] = r] /\ r.now = proc[q].now
        BY <3>0, <4>1, <4>2, SmtpOutcome
      <4> QED BY <4>2, <4>3
    <3>7. CASE \E t \in BOOLEAN : Die(q, t) BY <3>7, IdleIsProc DEF Die
    <3> QED BY <1>2, <3>1, <3>2, <3>3, <3>4, <3>5, <3>6, <3>7 DEF Run
  <2>2. PICK r \in ProcRecord :
          /\ proc' = [proc EXCEPT ![q] = r]
          /\ r.pc = "idle" \/ (proc[q].pc # "idle" /\ r.now = proc[q].now) \/ r.now = clock
    BY <2>1
  <2>3. proc'[q] = r /\ (p # q => proc'[p] = proc[p]) BY <1>0, <2>2
  <2> QED BY <2>2, <2>3
<1>3. CASE MailTick \/ (\E s \in Slots, f \in {"good", "unfit", "unreadable"} : Deliver(s, f))
           \/ (\E on \in BOOLEAN : SetEnabled(on)) \/ UNCHANGED mailVars
  BY <1>1, <1>3 DEF MailTick, Deliver, SetEnabled, mailVars
<1> QED BY <1>2, <1>3 DEF MailNext

\* What is wanted fits its slot, and a digest in time is wanted in time only.
LEMMA WantedFits ==
  ASSUME OutboxTypeOK, NEW s \in Slots, NEW now \in 0..(MailDays * Ticks - 1), NEW id \in Wanted(s, now)
  PROVE  /\ id[1] = Day(now) /\ id[2] = s
         /\ id[3] = "eod" => s = Eod
         /\ id[3] \in {"normal", "late"} => s # Eod
         /\ id[3] = "late" => now % Ticks > Planned[s] + 1 /\ <<Day(now), s, "normal">> \notin Present
         /\ id[3] = "normal" => ~(now % Ticks > Planned[s] + 1)
<1>1. \/ id = <<Day(now), s, "status">>
      \/ id = <<Day(now), s, DigestKind(s, now)>> /\ <<Day(now), s, BaseKind(s)>> \notin Present
  BY DEF Wanted
<1>2. CASE id = <<Day(now), s, "status">> BY <1>2
<1>3. CASE id = <<Day(now), s, DigestKind(s, now)>> /\ <<Day(now), s, BaseKind(s)>> \notin Present
  <2>1. id[3] = DigestKind(s, now) /\ id[1] = Day(now) /\ id[2] = s BY <1>3
  <2> QED BY <1>3, <2>1 DEF DigestKind, BaseKind
<1> QED BY <1>1, <1>2, <1>3

\* Without overlapping runs, every step keeps the digests of a slot in order: in time, or late without one in time.
LEMMA DigestStep == ASSUME OneDispatcher PROVE OutboxInv /\ DigestInv /\ [MailNext]_mailVars => DigestInv'
<1> SUFFICES ASSUME OutboxInv, DigestInv, [MailNext]_mailVars PROVE DigestInv'
  OBVIOUS
<1>0. /\ OutboxTypeOK /\ OutboxTypeOK'
      /\ clock \in Nat /\ clock' \in Nat /\ clock <= clock'
      /\ \A p \in Procs : proc[p].now \in Nat /\ proc'[p].now \in Nat
      /\ \A i \in Present : i \in Ids /\ msg[i].at \in Nat
  <2>1. OutboxTypeOK /\ OutboxTypeOK' BY OutboxStep DEF OutboxInv
  <2>2. clock \in Nat /\ clock' \in Nat BY <2>1, DayBound DEF OutboxTypeOK
  <2>3. clock' = clock \/ clock' = clock + 1
    <3>1. \A p \in Procs : Run(p) => clock' = clock
      BY DEF Run, StartRun, Open, Lock, Report, SlotsDone, Claim, Smtp
    <3>2. \A p \in Procs, t \in BOOLEAN : Die(p, t) => clock' = clock BY DEF Die
    <3> QED BY <3>1, <3>2 DEF MailNext, MailTick, Deliver, SetEnabled, mailVars
  <2>4. \A p \in Procs : proc[p].now \in Nat /\ proc'[p].now \in Nat
    BY <2>1, DayBound DEF OutboxTypeOK, ProcRecord
  <2>5. \A i \in Present : i \in Ids /\ msg[i].at \in Nat BY <2>1 DEF OutboxTypeOK, RowRecord, Present
  <2> QED BY <2>1, <2>2, <2>3, <2>4, <2>5
<1>1. \A p \in Procs : proc'[p].pc # "idle" =>
        /\ proc'[p].now <= clock'
        /\ \A i \in Present : msg[i].at <= proc'[p].now
  BY <1>0, TimesGoOn DEF DigestInv, RowsBehind
<1>2. CASE \A p \in Procs : ~Report(p)
  <2>1. \A i \in Present' : i \in Present /\ msg'[i].at = msg[i].at BY <1>2, RowsStamped
  <2>2. RowsBehind' BY <1>0, <1>1, <2>1 DEF DigestInv, RowsBehind
  <2>3. KindsFit' BY <2>1 DEF DigestInv, KindsFit
  <2>4. NormalOrLate' BY <2>1, Zenon DEF DigestInv, NormalOrLate
  <2> QED BY <2>2, <2>3, <2>4 DEF DigestInv
<1>3. ASSUME NEW p \in Procs, Report(p) PROVE DigestInv'
  <2>1. PICK s \in Slots : s = proc[p].next /\ proc[p].pc = "slots" BY <1>3 DEF Report
  <2>2. PICK now \in 0..(MailDays * Ticks - 1) : now = proc[p].now BY <1>0 DEF OutboxTypeOK, ProcRecord
  <2>3. now \in Nat /\ now <= clock /\ \A i \in Present : msg[i].at <= now
    BY <1>0, <2>1, <2>2 DEF DigestInv, RowsBehind
  <2>4. PICK id \in Ids :
           /\ \A i \in Present' : i # id => i \in Present /\ msg'[i].at = msg[i].at
           /\ \/ id \in Present' => id \in Present /\ msg'[id].at = msg[id].at
              \/ id \in Wanted(s, now) /\ msg'[id].at = now
    BY <1>0, <1>3, <2>1, <2>2, ReportAdds
  <2>5. CASE id \in Present' => id \in Present /\ msg'[id].at = msg[id].at
    <3>1. \A i \in Present' : i \in Present /\ msg'[i].at = msg[i].at BY <2>4, <2>5
    <3>2. RowsBehind' BY <1>0, <1>1, <3>1 DEF DigestInv, RowsBehind
    <3>3. KindsFit' BY <3>1 DEF DigestInv, KindsFit
    <3>4. NormalOrLate' BY <3>1, Zenon DEF DigestInv, NormalOrLate
    <3> QED BY <3>2, <3>3, <3>4 DEF DigestInv
  <2>6. CASE id \in Wanted(s, now) /\ msg'[id].at = now
    <3>1. /\ id[1] = Day(now) /\ id[2] = s
          /\ id[3] = "eod" => s = Eod
          /\ id[3] \in {"normal", "late"} => s # Eod
          /\ id[3] = "late" => now % Ticks > Planned[s] + 1 /\ <<Day(now), s, "normal">> \notin Present
          /\ id[3] = "normal" => ~(now % Ticks > Planned[s] + 1)
      BY <1>0, <2>6, WantedFits
    <3>2. RowsBehind'
      <4>1. \A i \in Present' : msg'[i].at <= clock' BY <1>0, <2>3, <2>4, <2>6 DEF DigestInv, RowsBehind
      <4>2. \A i \in Present', q \in Procs : proc'[q].pc # "idle" => msg'[i].at <= proc'[q].now
        <5> SUFFICES ASSUME NEW i \in Present', NEW q \in Procs, proc'[q].pc # "idle" PROVE msg'[i].at <= proc'[q].now
          OBVIOUS
        <5>1. CASE i # id BY <1>1, <2>4, <5>1
        <5>2. CASE i = id
          <6>1. q = p BY DEF OneDispatcher
          <6>2. proc'[q].now = now \/ proc'[q].now = clock BY <2>2, <6>1, TimesGoOn
          <6> QED BY <1>0, <2>3, <2>6, <5>2, <6>2
        <5> QED BY <5>1, <5>2
      <4> QED BY <1>1, <4>1, <4>2 DEF RowsBehind
    <3>3. KindsFit'
      <4> SUFFICES ASSUME NEW i \in Present'
                   PROVE  /\ i[3] = "eod" => i[2] = Eod
                          /\ i[3] \in {"normal", "late"} => i[2] # Eod
                          /\ i[3] = "late" => Day(msg'[i].at) = i[1] /\ msg'[i].at % Ticks > Planned[i[2]] + 1
        BY DEF KindsFit, Day
      <4>1. CASE i # id BY <2>4, <4>1 DEF DigestInv, KindsFit
      <4>2. CASE i = id BY <2>6, <3>1, <4>2
      <4> QED BY <4>1, <4>2
    <3>4. NormalOrLate'
      <4> SUFFICES ASSUME NEW d \in 0..MailDays-1, NEW t \in Slots,
                          <<d, t, "normal">> \in Present', <<d, t, "late">> \in Present'
                   PROVE  FALSE
        BY DEF NormalOrLate
      <4>1. CASE id = <<d, t, "late">>
        <5>1. <<d, t, "normal">> \in Present BY <2>4, <4>1
        <5> QED BY <3>1, <4>1, <5>1
      <4>2. CASE id = <<d, t, "normal">>
        <5>1. PICK j : j = <<d, t, "late">> OBVIOUS
        <5>2. j \in Present /\ j[1] = d /\ j[2] = t /\ j[3] = "late" BY <2>4, <4>2, <5>1
        <5>3. Day(msg[j].at) = d /\ msg[j].at % Ticks > Planned[t] + 1 BY <5>2 DEF DigestInv, KindsFit
        <5>4. d = Day(now) /\ t = s /\ ~(now % Ticks > Planned[s] + 1) BY <3>1, <4>2
        <5>5. msg[j].at % Ticks <= now % Ticks BY <1>0, <2>3, <5>2, <5>3, <5>4, DayOrder
        <5>6. Planned[s] \in Int /\ msg[j].at % Ticks \in Int /\ now % Ticks \in Int
          <6>1. Planned[s] \in 0..Ticks /\ Ticks \in Nat \ {0} BY OutboxAssumption DEF OutboxBounds
          <6> QED BY <1>0, <2>3, <5>2, <6>1
        <5> QED BY <5>3, <5>4, <5>5, <5>6
      <4>3. CASE id # <<d, t, "late">> /\ id # <<d, t, "normal">>
        BY <2>4, <4>3, Zenon DEF DigestInv, NormalOrLate
      <4> QED BY <4>1, <4>2, <4>3
    <3> QED BY <3>2, <3>3, <3>4 DEF DigestInv
  <2> QED BY <2>4, <2>5, <2>6
<1> QED BY <1>2, <1>3

\* If dispatcher runs do not overlap, a slot gets one digest at most, in time or late, whatever is
\* pruned, killed, delivered late or sent (build_digest and the loop over MAIL_SLOTS).
THEOREM OneDigestEach == ASSUME OneDispatcher PROVE MailSpec => []OneDigestPerSlot
<1>1. MailInit => OutboxInv /\ DigestInv
  <2> SUFFICES ASSUME MailInit PROVE OutboxInv /\ DigestInv
    OBVIOUS
  <2>1. OutboxInv /\ Present = {} BY OutboxStarts
  <2>2. \A p \in Procs : proc[p].pc = "idle" BY DEF MailInit, IdleProc
  <2> QED BY <2>1, <2>2 DEF DigestInv, RowsBehind, KindsFit, NormalOrLate
<1>2. OutboxInv /\ DigestInv /\ [MailNext]_mailVars => OutboxInv' /\ DigestInv'
  BY DigestStep, OutboxStep
<1>3. DigestInv => OneDigestPerSlot
  <2> SUFFICES ASSUME DigestInv, NEW d \in 0..MailDays-1, NEW s \in Slots
               PROVE  Cardinality({k \in Kinds \ {"status"} : <<d, s, k>> \in Present}) <= 1
    BY DEF OneDigestPerSlot
  <2>1. PICK K : K = {k \in Kinds \ {"status"} : <<d, s, k>> \in Present} OBVIOUS
  <2>2. \A k \in K : k \in {"normal", "late", "eod"} /\ <<d, s, k>> \in Present BY <2>1 DEF Kinds
  <2>3. \A k \in K : (k = "eod" => s = Eod) /\ (k \in {"normal", "late"} => s # Eod)
    <3> TAKE k \in K
    <3>1. PICK i : i = <<d, s, k>> OBVIOUS
    <3>2. i \in Present /\ i[2] = s /\ i[3] = k BY <2>2, <3>1
    <3> QED BY <3>2 DEF DigestInv, KindsFit
  <2>4. \A k, l \in K : k = l BY <2>2, <2>3 DEF DigestInv, NormalOrLate
  <2>5. K = {} \/ \E k \in K : K = {k}
    <3>1. SUFFICES ASSUME NEW k \in K PROVE K = {k} OBVIOUS
    <3>2. \A l : l \in K <=> l = k BY <2>4
    <3> QED BY <3>2
  <2>6. Cardinality(K) = 0 \/ Cardinality(K) = 1 BY <2>5, FS_EmptySet, FS_Singleton
  <2> QED BY <2>1, <2>6
<1> QED BY <1>1, <1>2, <1>3, PTL DEF MailSpec

(***************************************************************************)
(* The settled pipeline.                                                   *)
(***************************************************************************)

Ended == {"succeeded", "partial"}
RunRecords == [status : {"succeeded", "partial", "failed"}, target : 0..NDays, full : BOOLEAN]

\* What a stage's row says of its inputs, as long as no bootstrap rewrote them: an input that ended
\* well and did not finish later is the one the stage saw, over the same instruments.
InputsSeen ==
  \A t \in Stages : \A d \in Deps[t] :
    d \notin outdated[t] /\ last[d].status \in Ended =>
      /\ boots = 0 /\ last[t].status = "succeeded" => d \in seen[t]
      /\ current[d] /\ last[t].status # "none" => current[t]

\* Where a stage stands in the order of a tick.
Place(s) == CHOOSE i \in 1..7 : Order[i] = s

\* A tick that nobody disturbed: what it has run and has yet to run is closed under derivation, it
\* runs in order, and what a run left behind is still to come.
TickInOrder ==
  calm => /\ \A d \in ran \cup plan, s \in Stages : d \in Deps[s] => s \in ran \cup plan
          /\ \A r \in ran, p \in plan : Place(r) < Place(p)
          /\ \A s \in Stages : outdated[s] \cap ran # {} => s \in plan

SettledInv == SettledTypeOK /\ boots \in Nat /\ InputsSeen /\ TickInOrder

-----------------------------------------------------------------------------
\* The stages, their places and their inputs.
LEMMA StagesAre ==
  /\ DOMAIN Order = 1..7
  /\ Stages = {"bars", "indicators", "forecasts", "signals", "sectors", "board", "report"}
  /\ \A i \in 1..7 : Order[i] \in Stages
<1>1. DOMAIN Order = 1..7
  BY DEF Order
<1>2. /\ Order[1] = "bars" /\ Order[2] = "indicators" /\ Order[3] = "forecasts" /\ Order[4] = "signals"
      /\ Order[5] = "sectors" /\ Order[6] = "board" /\ Order[7] = "report"
  BY DEF Order
<1>3. 1..7 = {1, 2, 3, 4, 5, 6, 7}
  OBVIOUS
<1>4. \A s : s \in Stages <=> \E i \in {1, 2, 3, 4, 5, 6, 7} : s = Order[i]
  BY <1>1, <1>3 DEF Stages
<1>5. Stages = {"bars", "indicators", "forecasts", "signals", "sectors", "board", "report"}
  BY <1>2, <1>4
<1> QED
  BY <1>1, <1>3, <1>4, <1>5

\* A stage stands at one place.
LEMMA PlacesAre ==
  /\ \A s \in Stages : Place(s) \in 1..7 /\ Order[Place(s)] = s
  /\ \A i \in 1..7 : Place(Order[i]) = i
<1>1. \A s \in Stages : \E i \in 1..7 : Order[i] = s
  BY StagesAre DEF Stages
<1>2. \A s \in Stages : Place(s) \in 1..7 /\ Order[Place(s)] = s
  BY <1>1 DEF Place
<1>3. \A i, j \in 1..7 : Order[i] = Order[j] => i = j
  <2>1. /\ Order[1] = "bars" /\ Order[2] = "indicators" /\ Order[3] = "forecasts" /\ Order[4] = "signals"
        /\ Order[5] = "sectors" /\ Order[6] = "board" /\ Order[7] = "report"
    BY DEF Order
  <2>2. 1..7 = {1, 2, 3, 4, 5, 6, 7}
    OBVIOUS
  <2> QED
    BY <2>1, <2>2
<1>4. \A i \in 1..7 : Place(Order[i]) = i
  <2> TAKE i \in 1..7
  <2>1. Order[i] \in Stages
    BY StagesAre
  <2>2. Place(Order[i]) \in 1..7 /\ Order[Place(Order[i])] = Order[i]
    BY <1>2, <2>1
  <2> QED
    BY <1>3, <2>2
<1> QED
  BY <1>2, <1>4

\* A stage runs after what it is computed from.
LEMMA InputsComeFirst ==
  \A s \in Stages : /\ Deps[s] \subseteq Stages
                    /\ \A d \in Deps[s] : Place(d) < Place(s)
<1>1. /\ Order[1] = "bars" /\ Order[2] = "indicators" /\ Order[3] = "forecasts" /\ Order[4] = "signals"
      /\ Order[5] = "sectors" /\ Order[6] = "board" /\ Order[7] = "report"
  BY DEF Order
<1>2. /\ Place("bars") = 1 /\ Place("indicators") = 2 /\ Place("forecasts") = 3 /\ Place("signals") = 4
      /\ Place("sectors") = 5 /\ Place("board") = 6 /\ Place("report") = 7
  BY <1>1, PlacesAre
<1>3. /\ Deps["bars"] = {} /\ Deps["indicators"] = {"bars"} /\ Deps["forecasts"] = {"bars", "indicators"}
      /\ Deps["signals"] = {"bars", "indicators", "forecasts"} /\ Deps["sectors"] = {}
      /\ Deps["board"] = {"bars", "indicators", "forecasts", "signals", "sectors"} /\ Deps["report"] = {"board"}
  BY DEF Deps
<1> QED
  BY <1>2, <1>3, StagesAre

\* The recursion over the inputs has a solution, so that Upstream is it.
LEMMA UpstreamIs == \A s \in Stages : Upstream[s] = Deps[s] \cup UNION {Upstream[d] : d \in Deps[s]}
<1> DEFINE Solves(f) == f = [s \in Stages |-> Deps[s] \cup UNION {f[d] : d \in Deps[s]}]
           below(s) == CASE s = "bars" -> {} [] s = "indicators" -> {"bars"} [] s = "forecasts" -> {"bars", "indicators"}
                         [] s = "signals" -> {"bars", "indicators", "forecasts"} [] s = "sectors" -> {}
                         [] s = "board" -> {"bars", "indicators", "forecasts", "signals", "sectors"}
                         [] OTHER -> {"bars", "indicators", "forecasts", "signals", "sectors", "board"}
           g == [s \in Stages |-> below(s)]
<1>1. /\ Deps["bars"] = {} /\ Deps["indicators"] = {"bars"} /\ Deps["forecasts"] = {"bars", "indicators"}
      /\ Deps["signals"] = {"bars", "indicators", "forecasts"} /\ Deps["sectors"] = {}
      /\ Deps["board"] = {"bars", "indicators", "forecasts", "signals", "sectors"} /\ Deps["report"] = {"board"}
  BY DEF Deps
<1>2. /\ g["bars"] = {} /\ g["indicators"] = {"bars"} /\ g["forecasts"] = {"bars", "indicators"}
      /\ g["signals"] = {"bars", "indicators", "forecasts"} /\ g["sectors"] = {}
      /\ g["board"] = {"bars", "indicators", "forecasts", "signals", "sectors"}
      /\ g["report"] = {"bars", "indicators", "forecasts", "signals", "sectors", "board"}
  BY StagesAre
<1>3. g = [s \in Stages |-> g[s]]
  OBVIOUS
<1> HIDE DEF g
<1>4. \A s \in Stages : g[s] = Deps[s] \cup UNION {g[d] : d \in Deps[s]}
  <2> SUFFICES ASSUME NEW s \in Stages, NEW x
               PROVE  x \in g[s] <=> x \in Deps[s] \/ \E d \in Deps[s] : x \in g[d]
    OBVIOUS
  <2> QED
    BY <1>1, <1>2, StagesAre
<1>5. Solves(g)
  BY <1>3, <1>4
<1>6. \E f : Solves(f)
  BY <1>5
<1> HIDE DEF Solves
<1>7. Upstream = CHOOSE f : Solves(f)
  BY DEF Upstream, Solves
<1>8. Solves(Upstream)
  BY <1>6, <1>7
<1> QED
  BY <1>8 DEF Solves

\* What is derived from a planned stage is planned.
LEMMA PlanIsClosed ==
  \A d \in PlannedStages, s \in Stages : d \in Deps[s] => s \in PlannedStages
<1> SUFFICES ASSUME NEW d \in PlannedStages, NEW s \in Stages, d \in Deps[s]
             PROVE  s \in PlannedStages
  OBVIOUS
<1> DEFINE due == {x \in Stages : Due(x)}
<1>1. ~open
  BY DEF PlannedStages
<1>2. PlannedStages = {x \in Stages : x \in due \/ Upstream[x] \cap due # {}}
  BY <1>1 DEF PlannedStages
<1>3. d \in Stages /\ due \subseteq Stages
  BY <1>2
<1> HIDE DEF due
<1>4. d \in Upstream[s] /\ Upstream[d] \subseteq Upstream[s]
  BY UpstreamIs
<1> QED
  BY <1>2, <1>4

\* The next stage of a plan is the first one of the order that is in it.
LEMMA NextIsFirst ==
  ASSUME plan \subseteq Stages, plan # {}
  PROVE  /\ NextPlanned \in plan
         /\ \A p \in plan : p = NextPlanned \/ Place(NextPlanned) < Place(p)
<1> DEFINE First(i) == i \in 1..7 /\ Order[i] \in plan /\ \A j \in 1..(i - 1) : Order[j] \notin plan
<1>1. \E i : First(i)
  <2>1. \E i \in 1..7 : Order[i] \in plan
    BY PlacesAre
  <2>2. 1..7 = {1, 2, 3, 4, 5, 6, 7}
    OBVIOUS
  <2>3. /\ 1..(1 - 1) = {} /\ 1..(2 - 1) = {1} /\ 1..(3 - 1) = {1, 2} /\ 1..(4 - 1) = {1, 2, 3}
        /\ 1..(5 - 1) = {1, 2, 3, 4} /\ 1..(6 - 1) = {1, 2, 3, 4, 5} /\ 1..(7 - 1) = {1, 2, 3, 4, 5, 6}
    OBVIOUS
  <2> DEFINE In(i) == Order[i] \in plan
  <2>4. In(1) \/ In(2) \/ In(3) \/ In(4) \/ In(5) \/ In(6) \/ In(7)
    BY <2>1, <2>2
  <2>5. CASE In(1)
    BY <2>2, <2>3, <2>5
  <2>6. CASE ~In(1) /\ In(2)
    BY <2>2, <2>3, <2>6
  <2>7. CASE ~In(1) /\ ~In(2) /\ In(3)
    BY <2>2, <2>3, <2>7
  <2>8. CASE ~In(1) /\ ~In(2) /\ ~In(3) /\ In(4)
    BY <2>2, <2>3, <2>8
  <2>9. CASE ~In(1) /\ ~In(2) /\ ~In(3) /\ ~In(4) /\ In(5)
    BY <2>2, <2>3, <2>9
  <2>10. CASE ~In(1) /\ ~In(2) /\ ~In(3) /\ ~In(4) /\ ~In(5) /\ In(6)
    BY <2>2, <2>3, <2>10
  <2>11. CASE ~In(1) /\ ~In(2) /\ ~In(3) /\ ~In(4) /\ ~In(5) /\ ~In(6) /\ In(7)
    BY <2>2, <2>3, <2>11
  <2> HIDE DEF In, First
  <2> QED
    BY <2>4, <2>5, <2>6, <2>7, <2>8, <2>9, <2>10, <2>11
<1>2. PICK i : i = CHOOSE k \in DOMAIN Order : Order[k] \in plan /\ \A j \in 1..(k - 1) : Order[j] \notin plan
  OBVIOUS
<1>3. First(i) /\ NextPlanned = Order[i]
  BY <1>1, <1>2, StagesAre DEF NextPlanned
<1>4. Place(NextPlanned) = i
  BY <1>3, PlacesAre
<1>5. \A p \in plan : p = NextPlanned \/ Place(NextPlanned) < Place(p)
  <2> TAKE p \in plan
  <2>1. Place(p) \in 1..7 /\ Order[Place(p)] = p
    BY PlacesAre
  <2>2. ~(Place(p) \in 1..(i - 1))
    BY <1>3, <2>1
  <2>3. Place(p) >= i
    BY <1>3, <2>1, <2>2
  <2>4. Place(p) = i => p = NextPlanned
    BY <1>3, <2>1
  <2> QED
    BY <1>3, <1>4, <2>1, <2>3, <2>4
<1> QED
  BY <1>3, <1>5

\* A run leaves one record; a run that ended well has written its data.
LEMMA RunsRecord ==
  ASSUME SettledTypeOK, NEW s \in Stages, NEW full \in BOOLEAN, RunStage(s, full)
  PROVE  \E r \in RunRecords, wrote \in BOOLEAN : Record(s, r, wrote) /\ (r.status \in Ended => wrote)
<1> DEFINE row(status, target, whole) == [status |-> status, target |-> target, full |-> whole]
           Ends(r, wrote) == Record(s, r, wrote) /\ (r.status \in Ended => wrote)
<1>1. Target \in 0..NDays /\ 0 \in 0..NDays
  BY SettledAssumed DEF SettledAssumption, SettledTypeOK, Target
<1>2. /\ row("succeeded", Target, full) \in RunRecords /\ row("partial", Target, full) \in RunRecords
      /\ row("failed", Target, full) \in RunRecords /\ row("failed", 0, TRUE) \in RunRecords
      /\ row("failed", Target, full).status \notin Ended /\ row("failed", 0, TRUE).status \notin Ended
  BY <1>1 DEF RunRecords, Ended
<1>3. \/ Record(s, row("succeeded", Target, full), TRUE) \/ Record(s, row("partial", Target, full), TRUE)
      \/ \E wrote \in BOOLEAN : Record(s, row("failed", Target, full), wrote)
      \/ Record(s, row("failed", 0, TRUE), FALSE)
  BY DEF RunStage
<1> HIDE DEF row
<1>4. CASE Record(s, row("succeeded", Target, full), TRUE)
  <2>1. Ends(row("succeeded", Target, full), TRUE)
    BY <1>4
  <2> QED
    BY <1>2, <2>1
<1>5. CASE Record(s, row("partial", Target, full), TRUE)
  <2>1. Ends(row("partial", Target, full), TRUE)
    BY <1>5
  <2> QED
    BY <1>2, <2>1
<1>6. ASSUME NEW wrote \in BOOLEAN, Record(s, row("failed", Target, full), wrote)
      PROVE  \E r \in RunRecords, w \in BOOLEAN : Ends(r, w)
  <2>1. Ends(row("failed", Target, full), wrote)
    BY <1>2, <1>6
  <2> QED
    BY <1>2, <2>1
<1>7. CASE Record(s, row("failed", 0, TRUE), FALSE)
  <2>1. Ends(row("failed", 0, TRUE), FALSE)
    BY <1>2, <1>7
  <2> QED
    BY <1>2, <2>1
<1> QED
  BY <1>3, <1>4, <1>5, <1>6, <1>7

\* A run keeps the rows typed and true of their inputs.
LEMMA RunsKeepInputs ==
  ASSUME SettledTypeOK, InputsSeen, NEW s \in Stages, NEW full \in BOOLEAN, RunStage(s, full), UNCHANGED boots
  PROVE  /\ InputsSeen'
         /\ last' \in [Stages -> [status : {"none", "succeeded", "partial", "failed"}, target : 0..NDays, full : BOOLEAN]]
         /\ backoff' \in [Stages -> BOOLEAN] /\ current' \in [Stages -> BOOLEAN]
         /\ \A t \in Stages : outdated'[t] \subseteq Deps[t] /\ seen'[t] \subseteq Deps[t]
         /\ outdated'[s] = {} /\ \A t \in Stages : outdated'[t] \subseteq outdated[t] \cup {s}
<1>1. PICK r \in RunRecords, wrote \in BOOLEAN : Record(s, r, wrote) /\ (r.status \in Ended => wrote)
  BY RunsRecord
<1>2. /\ r.status \in {"succeeded", "partial", "failed"}
      /\ r \in [status : {"none", "succeeded", "partial", "failed"}, target : 0..NDays, full : BOOLEAN]
  BY DEF RunRecords
<1>3. /\ last' = [last EXCEPT ![s] = r] /\ backoff' = [backoff EXCEPT ![s] = TRUE]
      /\ current' = [current EXCEPT ![s] = TRUE]
  BY <1>1 DEF Record
<1>4. \A t \in Stages :
        /\ outdated'[t] = IF t = s THEN {}
                          ELSE IF s \in Deps[t] /\ last[t].status # "none" /\ r.status \in {"succeeded", "partial"}
                          THEN outdated[t] \cup {s} ELSE outdated[t]
        /\ seen'[t] = IF ~wrote THEN seen[t] ELSE IF t = s THEN Deps[s] ELSE seen[t] \ {s}
  BY <1>1 DEF Record
<1>5. last' \in [Stages -> [status : {"none", "succeeded", "partial", "failed"}, target : 0..NDays, full : BOOLEAN]]
  BY <1>2, <1>3 DEF SettledTypeOK
<1>6. backoff' \in [Stages -> BOOLEAN] /\ current' \in [Stages -> BOOLEAN]
  BY <1>3 DEF SettledTypeOK
<1>7. \A t \in Stages : outdated'[t] \subseteq Deps[t] /\ seen'[t] \subseteq Deps[t]
  <2> TAKE t \in Stages
  <2>1. outdated[t] \subseteq Deps[t] /\ seen[t] \subseteq Deps[t]
    BY DEF SettledTypeOK
  <2>2. outdated'[t] \subseteq Deps[t]
    BY <1>4, <2>1
  <2>3. seen'[t] \subseteq Deps[t]
    BY <1>4, <2>1
  <2> QED
    BY <2>2, <2>3
<1>8. outdated'[s] = {} /\ \A t \in Stages : outdated'[t] \subseteq outdated[t] \cup {s}
  BY <1>4
<1>9. /\ last'[s] = r /\ current'[s] = TRUE
      /\ \A t \in Stages : t # s => last'[t] = last[t] /\ current'[t] = current[t]
  BY <1>3 DEF SettledTypeOK
<1>10. InputsSeen'
  <2> SUFFICES ASSUME NEW t \in Stages, NEW d \in Deps[t], d \notin outdated'[t], last'[d].status \in Ended
               PROVE  /\ boots = 0 /\ last'[t].status = "succeeded" => d \in seen'[t]
                      /\ current'[d] /\ last'[t].status # "none" => current'[t]
    BY DEF InputsSeen
  <2>1. d \in Stages /\ d # t
    BY InputsComeFirst, PlacesAre
  <2>2. CASE t = s
    <3>1. r.status = "succeeded" => wrote
      BY <1>1 DEF Ended
    <3>2. r.status = "succeeded" => d \in seen'[t]
      BY <1>4, <2>2, <3>1
    <3> QED
      BY <1>9, <2>2, <3>2
  <2>3. CASE t # s /\ d = s
    <3>1. r.status \in {"succeeded", "partial"}
      BY <1>9, <2>3 DEF Ended
    <3>2. last[t].status = "none"
      BY <1>4, <2>3, <3>1
    <3> QED
      BY <1>9, <2>3, <3>2
  <2>4. CASE t # s /\ d # s
    <3>1. d \notin outdated[t] /\ last[d].status \in Ended
      BY <1>4, <1>9, <2>1, <2>4
    <3>2. /\ boots = 0 /\ last[t].status = "succeeded" => d \in seen[t]
          /\ current[d] /\ last[t].status # "none" => current[t]
      BY <3>1 DEF InputsSeen
    <3>3. d \in seen[t] => d \in seen'[t]
      BY <1>4, <2>4
    <3> QED
      BY <1>9, <2>1, <2>4, <3>2, <3>3
  <2> QED
    BY <2>2, <2>3, <2>4
<1> QED
  BY <1>5, <1>6, <1>7, <1>8, <1>10

\* Every step of the evening keeps the invariant.
LEMMA SettledStep == SettledInv /\ [SettledNext]_settledVars => SettledInv'
<1> SUFFICES ASSUME SettledInv, [SettledNext]_settledVars PROVE SettledInv'
  OBVIOUS
<1> USE DEF SettledInv
<1>1. CASE Tick
  <2>1. SettledTypeOK' /\ boots' \in Nat /\ InputsSeen'
    BY <1>1 DEF Tick, SettledTypeOK, InputsSeen, PlannedStages
  <2>2. ran' = {} /\ plan' = PlannedStages
    BY <1>1 DEF Tick
  <2>3. TickInOrder'
    BY <2>2, PlanIsClosed DEF TickInOrder
  <2> QED
    BY <2>1, <2>3
<1>2. CASE RunPlanned
  <2> DEFINE n == NextPlanned
  <2>1. n \in plan /\ \A p \in plan : p = n \/ Place(n) < Place(p)
    BY <1>2, NextIsFirst DEF RunPlanned, SettledTypeOK
  <2>2. n \in Stages /\ RunStage(n, TRUE)
    BY <1>2, <2>1 DEF RunPlanned, SettledTypeOK
  <2>3. plan' = plan \ {n} /\ ran' = ran \cup {n} /\ UNCHANGED <<day, open, calm, boots>>
    BY <1>2 DEF RunPlanned
  <2> HIDE DEF n
  <2>4. /\ InputsSeen'
        /\ last' \in [Stages -> [status : {"none", "succeeded", "partial", "failed"}, target : 0..NDays, full : BOOLEAN]]
        /\ backoff' \in [Stages -> BOOLEAN] /\ current' \in [Stages -> BOOLEAN]
        /\ \A t \in Stages : outdated'[t] \subseteq Deps[t] /\ seen'[t] \subseteq Deps[t]
        /\ outdated'[n] = {} /\ \A t \in Stages : outdated'[t] \subseteq outdated[t] \cup {n}
    BY <2>2, <2>3, RunsKeepInputs
  <2>5. SettledTypeOK' /\ boots' \in Nat
    BY <2>2, <2>3, <2>4 DEF SettledTypeOK
  <2>6. TickInOrder'
    <3> SUFFICES ASSUME calm'
                 PROVE  /\ \A d \in ran' \cup plan', s \in Stages : d \in Deps[s] => s \in ran' \cup plan'
                        /\ \A r \in ran', p \in plan' : Place(r) < Place(p)
                        /\ \A s \in Stages : outdated'[s] \cap ran' # {} => s \in plan'
      BY DEF TickInOrder
    <3>1. /\ \A d \in ran \cup plan, s \in Stages : d \in Deps[s] => s \in ran \cup plan
          /\ \A r \in ran, p \in plan : Place(r) < Place(p)
          /\ \A s \in Stages : outdated[s] \cap ran # {} => s \in plan
      BY <2>3 DEF TickInOrder
    <3>2. ran' \cup plan' = ran \cup plan
      BY <2>1, <2>3
    <3>3. \A r \in ran', p \in plan' : Place(r) < Place(p)
      BY <2>1, <2>3, <3>1
    <3>4. ASSUME NEW s \in Stages, NEW d \in outdated'[s], d \in ran' PROVE s \in plan'
      <4>1. s # n
        BY <2>4, <3>4
      <4>2. CASE d = n
        <5>1. n \in Deps[s]
          BY <2>4, <3>4, <4>2
        <5>2. s \in ran \cup plan
          BY <2>1, <3>1, <5>1
        <5>3. s \in ran => Place(s) < Place(n)
          BY <2>1, <3>1
        <5>4. Place(n) < Place(s) /\ Place(n) \in 1..7 /\ Place(s) \in 1..7
          BY <2>2, <5>1, InputsComeFirst, PlacesAre
        <5> QED
          BY <2>3, <4>1, <5>2, <5>3, <5>4
      <4>3. CASE d # n
        BY <2>3, <2>4, <3>1, <3>4, <4>1, <4>3
      <4> QED
        BY <4>2, <4>3
    <3> QED
      BY <3>1, <3>2, <3>3, <3>4
  <2> QED
    BY <2>4, <2>5, <2>6
<1>3. CASE AbandonTick
  BY <1>3 DEF AbandonTick, SettledTypeOK, InputsSeen, TickInOrder
<1>4. ASSUME NEW s \in Stages, NEW full \in BOOLEAN, RunManually(s, full) PROVE SettledInv'
  <2>1. RunStage(s, full) /\ UNCHANGED <<day, open, plan, ran, boots>> /\ calm' = FALSE
    BY <1>4 DEF RunManually
  <2>2. /\ InputsSeen'
        /\ last' \in [Stages -> [status : {"none", "succeeded", "partial", "failed"}, target : 0..NDays, full : BOOLEAN]]
        /\ backoff' \in [Stages -> BOOLEAN] /\ current' \in [Stages -> BOOLEAN]
        /\ \A t \in Stages : outdated'[t] \subseteq Deps[t] /\ seen'[t] \subseteq Deps[t]
    BY <2>1, RunsKeepInputs
  <2> QED
    BY <2>1, <2>2 DEF SettledTypeOK, TickInOrder
<1>5. CASE Bootstrap
  <2>1. /\ \A t \in Stages : seen'[t] \subseteq Deps[t]
        /\ boots' = boots + 1 /\ calm' = FALSE
        /\ UNCHANGED <<day, open, last, outdated, backoff, current, plan, ran>>
    BY <1>5 DEF Bootstrap
  <2>2. boots' \in Nat /\ boots' # 0
    BY <2>1
  <2> QED
    BY <2>1, <2>2 DEF SettledTypeOK, InputsSeen, TickInOrder
<1>6. CASE ChangeUniverse
  <2>1. /\ current' = [s \in Stages |-> FALSE] /\ calm' = FALSE
        /\ UNCHANGED <<day, open, last, outdated, backoff, seen, plan, ran, boots>>
    BY <1>6 DEF ChangeUniverse
  <2>2. InputsSeen'
    BY <2>1, InputsComeFirst DEF InputsSeen
  <2> QED
    BY <2>1, <2>2 DEF SettledTypeOK, TickInOrder
<1>7. CASE Wait
  BY <1>7 DEF Wait, SettledTypeOK, InputsSeen, TickInOrder
<1>8. CASE NextPhase
  <2>1. day' \in 1..NDays /\ open' \in BOOLEAN
    BY <1>8, SettledAssumed DEF NextPhase, SettledTypeOK, SettledAssumption
  <2> QED
    BY <1>8, <2>1 DEF NextPhase, SettledTypeOK, InputsSeen, TickInOrder
<1>9. CASE UNCHANGED settledVars
  BY <1>9 DEF settledVars, SettledTypeOK, InputsSeen, TickInOrder
<1> QED
  BY <1>1, <1>2, <1>3, <1>4, <1>5, <1>6, <1>7, <1>8, <1>9 DEF SettledNext

\* The rows of task_runs stay true of their inputs and every tick runs in order, for any number of
\* days, failures, manual runs, bootstraps and changes of the universe.
THEOREM SettledInvariant == SettledSpec => []SettledInv
<1>1. SettledInit => SettledInv
  <2> SUFFICES ASSUME SettledInit PROVE SettledInv
    OBVIOUS
  <2>1. NoRun \in [status : {"none", "succeeded", "partial", "failed"}, target : 0..NDays, full : BOOLEAN]
    BY SettledAssumed DEF NoRun, SettledAssumption
  <2>2. SettledTypeOK /\ boots \in Nat
    BY <2>1, SettledAssumed DEF SettledInit, SettledTypeOK, SettledAssumption
  <2>3. InputsSeen
    BY InputsComeFirst DEF SettledInit, InputsSeen, NoRun, Ended
  <2>4. TickInOrder
    BY DEF SettledInit, TickInOrder
  <2> QED
    BY <2>2, <2>3, <2>4 DEF SettledInv
<1> QED
  BY <1>1, SettledStep, PTL DEF SettledSpec

\* What the invariant says of a day on which every stage counts as complete.
LEMMA FreshUnlessBootstrapped == SettledInv => TickClosed /\ (boots = 0 => CompleteIsFresh)
<1> SUFFICES ASSUME SettledInv PROVE TickClosed /\ (boots = 0 => CompleteIsFresh)
  OBVIOUS
<1>1. TickClosed
  BY DEF SettledInv, TickInOrder, TickClosed
<1>2. ASSUME boots = 0, AllComplete, NEW s \in Stages PROVE seen[s] = Deps[s] /\ current[s]
  <2>1. \A t \in Stages : last[t].status = "succeeded" /\ outdated[t] = {}
    BY <1>2 DEF AllComplete, Complete
  <2>2. Deps[s] \subseteq Stages
    BY InputsComeFirst
  <2>3. \A d \in Deps[s] : d \in seen[s] /\ (current[d] => current[s])
    BY <1>2, <2>1, <2>2 DEF SettledInv, InputsSeen, Ended
  <2>4. current["bars"]
    BY <1>2, StagesAre DEF AllComplete, Complete
  <2>5. current[s]
    <3>1. CASE s \in OUTPUT_STAGES \cup {"bars"}
      BY <1>2, <3>1 DEF AllComplete, Complete
    <3>2. CASE s \notin OUTPUT_STAGES \cup {"bars"}
      <4>1. "bars" \in Deps[s]
        BY <3>2, StagesAre DEF OUTPUT_STAGES, Deps
      <4> QED
        BY <2>3, <2>4, <4>1
    <3> QED
      BY <3>1, <3>2
  <2> QED
    BY <2>3, <2>5 DEF SettledInv, SettledTypeOK
<1> QED
  BY <1>1, <1>2 DEF CompleteIsFresh

\* What counts as complete was computed from the present data of its inputs over the present
\* instruments, unless the bootstrap task ran, and an undisturbed tick leaves no layer behind an input it
\* has recomputed (scheduler.py, settled_pipeline_tasks; settlement.py).
THEOREM SettledIsSound == SettledSpec => []SettledSound
<1>1. SettledInv => SettledSound
  BY FreshUnlessBootstrapped DEF SettledSound
<1> QED
  BY <1>1, SettledInvariant, PTL

(***************************************************************************)
(* Splits.                                                                 *)
(***************************************************************************)

\* What a session stores: one value and one adjustment per session, splits up to the last one.
ActionsInv == /\ truth \in Seq(Worth) /\ adjust \in Seq({"none", "qfq"}) /\ Len(adjust) = Len(truth)
              /\ Len(truth) <= MaxTradeDay
              /\ splits \subseteq 1..Len(truth) /\ notices \subseteq TradeDays

\* Sessions and notices keep the rows in step with the values.
LEMMA ActionsStep == ActionsInv /\ [ActionsNext]_actionVars => ActionsInv'
<1> SUFFICES ASSUME ActionsInv, [ActionsNext]_actionVars PROVE ActionsInv'
  OBVIOUS
<1>0. MaxTradeDay \in Nat
  BY ActionsAssumed DEF ActionsAssumption
<1>1. ASSUME NEW w \in Worth, NEW split \in BOOLEAN, NEW adj \in {"none", "qfq"}, Session(w, split, adj)
      PROVE  ActionsInv'
  <2>1. /\ truth' = Append(truth, w) /\ adjust' = Append(adjust, adj) /\ notices' = notices
        /\ splits' \subseteq splits \cup {Len(truth) + 1} /\ Len(truth) < MaxTradeDay
    BY <1>1 DEF Session, Now
  <2>2. /\ truth' \in Seq(Worth) /\ adjust' \in Seq({"none", "qfq"})
        /\ Len(truth') = Len(truth) + 1 /\ Len(adjust') = Len(adjust) + 1 /\ Len(truth) \in Nat
    BY <2>1 DEF ActionsInv
  <2>3. splits' \subseteq 1..Len(truth')
    BY <2>1, <2>2 DEF ActionsInv
  <2> QED
    BY <1>0, <2>1, <2>2, <2>3 DEF ActionsInv
<1>2. ASSUME NEW e \in TradeDays, Notice(e) PROVE ActionsInv'
  BY <1>2 DEF Notice, ActionsInv
<1>3. ASSUME NEW d \in TradeDays, NEW w \in Worth, Restate(d, w) PROVE ActionsInv'
  <2>1. truth' = [truth EXCEPT ![d] = w] /\ UNCHANGED <<splits, notices, adjust>>
    BY <1>3 DEF Restate
  <2>2. d \in 1..Len(truth) /\ truth \in Seq(Worth)
    BY <1>3 DEF Restate, Now, ActionsInv
  <2>3. truth' \in Seq(Worth) /\ Len(truth') = Len(truth)
    BY <2>1, <2>2, ExceptSeq
  <2> QED
    BY <2>1, <2>3 DEF ActionsInv
<1>4. CASE UNCHANGED actionVars
  BY <1>4 DEF actionVars, ActionsInv
<1> QED
  BY <1>1, <1>2, <1>3, <1>4 DEF ActionsNext

\* What an as-of reader sees of one session, from the stored rows and the notices effective for it.
LEMMA SettledSeries ==
  ASSUME ActionsInv, [ActionsNext]_actionVars, NEW T \in 1..Now, PriceBasis(T) = PriceBasis(T)', NEW d \in Rows(T),
         truth'[d] = truth[d]
  PROVE  Research(T, d)' = Research(T, d)
<1>0. MaxTradeDay \in Nat /\ Now \in Nat /\ Now <= MaxTradeDay /\ T # Ever
  BY ActionsAssumed DEF ActionsAssumption, ActionsInv, Now, Ever
<1>1. Rows(T) = 1..T /\ T \in Nat /\ d \in 1..T /\ d \in 1..Now
  BY <1>0 DEF Rows
<1>2. ASSUME NEW w \in Worth, NEW split \in BOOLEAN, NEW adj \in {"none", "qfq"}, Session(w, split, adj)
      PROVE  Research(T, d)' = Research(T, d)
  <2>1. /\ truth' = Append(truth, w) /\ adjust' = Append(adjust, adj) /\ notices' = notices
        /\ splits' = splits \/ splits' = splits \cup {Now + 1}
    BY <1>2 DEF Session
  <2>2. \A x \in 1..Now : truth'[x] = truth[x] /\ adjust'[x] = adjust[x]
    BY <2>1 DEF ActionsInv, Now
  <2>3. Now' = Now + 1
    BY <2>1 DEF ActionsInv, Now
  <2>4. Rows(T)' = Rows(T)
    BY <1>0, <1>1, <2>3 DEF Rows
  <2>5. Adjusts(T)' = Adjusts(T)
    BY <1>0, <1>1, <2>2, <2>4 DEF Adjusts
  <2>6. {s \in splits' : s <= d} = {s \in splits : s <= d}
    BY <1>0, <1>1, <2>1
  <2>7. Stored(d)' = Stored(d)
    BY <1>1, <2>2, <2>6 DEF Stored
  <2> QED
    BY <2>1, <2>5, <2>7 DEF Research, Effective
<1>3. ASSUME NEW e \in TradeDays, Notice(e) PROVE Research(T, d)' = Research(T, d)
  <2>1. /\ notices' = notices \cup {e} /\ e \notin notices
        /\ UNCHANGED <<truth, splits, adjust>>
    BY <1>3 DEF Notice
  <2>2. Adjusts(T)' = Adjusts(T) /\ Stored(d)' = Stored(d)
    BY <2>1 DEF Adjusts, Rows, Now, Stored
  <2>3. CASE Adjusts(T) # {"none"}
    BY <2>2, <2>3 DEF Research
  <2>4. CASE Adjusts(T) = {"none"}
    <3>1. PriceBasis(T) = {x \in notices : x <= T} /\ PriceBasis(T)' = {x \in notices' : x <= T}
      BY <1>0, <2>2, <2>4 DEF PriceBasis
    <3>2. Effective(T)' = Effective(T)
      BY <3>1 DEF Effective
    <3> QED
      BY <2>2, <3>2 DEF Research
  <2> QED
    BY <2>3, <2>4
<1>4. ASSUME NEW c \in TradeDays, NEW w \in Worth, Restate(c, w) PROVE Research(T, d)' = Research(T, d)
  <2>1. UNCHANGED <<splits, notices, adjust>> /\ Len(truth') = Len(truth)
    BY <1>4 DEF Restate, ActionsInv
  <2>2. Adjusts(T)' = Adjusts(T) /\ Effective(T)' = Effective(T)
    BY <2>1 DEF Adjusts, Rows, Now, Effective
  <2>3. Stored(d)' = Stored(d)
    BY <2>1 DEF Stored
  <2> QED
    BY <2>2, <2>3 DEF Research
<1>5. CASE UNCHANGED actionVars
  BY <1>5 DEF actionVars, Research, Effective, Adjusts, Rows, Now, Stored
<1> QED
  BY <1>2, <1>3, <1>4, <1>5 DEF ActionsNext

\* The stored rows and the program's notices in every state.
THEOREM ActionsInvariant == ActionsSpec => []ActionsInv
<1>1. ActionsInit => ActionsInv
  <2> SUFFICES ASSUME ActionsInit PROVE ActionsInv
    OBVIOUS
  <2>1. truth = <<>> /\ adjust = <<>> /\ splits = {} /\ notices = {} /\ MaxTradeDay \in Nat
    BY ActionsAssumed DEF ActionsInit, ActionsAssumption
  <2>2. truth \in Seq(Worth) /\ adjust \in Seq({"none", "qfq"}) /\ Len(truth) = 0 /\ Len(adjust) = 0
    BY <2>1
  <2> QED
    BY <2>1, <2>2 DEF ActionsInv
<1> QED
  BY <1>1, ActionsStep, PTL DEF ActionsSpec

\* A row of an as-of series changes only when it is stored anew or with the basis identity of the
\* series, however many sessions, splits, notices and rewritten rows follow
\* (corporate_action_contract.py, research_history_rows and research_price_basis).
THEOREM AsOfSeriesAreSettled == ActionsSpec => AsOfSettled
<1>1. ActionsInv /\ [ActionsNext]_actionVars => [\A T \in 1..Now : Settles(T)]_actionVars
  BY SettledSeries DEF Settles
<1> QED
  BY <1>1, ActionsInvariant, PTL DEF ActionsSpec, AsOfSettled

(***************************************************************************)
(* The chain of providers.                                                 *)
(***************************************************************************)

\* p is called before q.
Before(p, q) == \/ p \notin degradedOnly /\ q \in degradedOnly
                \/ (p \in degradedOnly <=> q \in degradedOnly) /\ p < q

\* The first of a set of providers, 0 for none.
IsFirst(x, S) == IF S = {} THEN x = 0 ELSE x \in S /\ \A q \in S : x <= q

Statuses == {"none", "unsupported", "failed", "empty", "partial", "fallback_partial", "ok", "fallback_used",
             "skipped", "candidate", "quality_fallback", "superseded"}
Sources == {"ok", "fallback_used", "partial", "fallback_partial"}

WalkTypeOK ==
  /\ capability \in {"quotes", "daily", "single"}
  /\ answer \in [Providers -> Answers(capability)] /\ degradedOnly \subseteq Providers /\ called \subseteq Providers
  /\ capability # "quotes" => degradedOnly = {}
  /\ selected \in [Requested -> Nat] /\ degraded \in [Requested -> Nat] /\ daily \in [Requested -> Nat]
  /\ best \subseteq Providers /\ trace \in [Providers -> Statuses]
  /\ result \in [kind : {"idle", "pending", "contract", "quotes", "failed", "unsupported"}]
                  \cup [kind : {"batch", "single"}, from : Providers]

Untouched == /\ called = {} /\ selected = Nothing /\ degraded = Nothing /\ daily = Nothing /\ best = {}
             /\ \A p \in Providers : trace[p] = "none"

\* What a walk under way has: of the providers called so far, the first qualified row of each code,
\* and while there is none the first degraded row and the first daily close.
QuotesSoFar ==
  /\ \A p \in called : Failed(p) \/ ~BreaksContract(p)
  /\ \A c \in Requested :
       /\ IsFirst(selected[c], (Offers(c, "qualified") \ degradedOnly) \cap called)
       /\ selected[c] = 0 => /\ IsFirst(degraded[c], Offers(c, "degraded") \cap called)
                             /\ IsFirst(daily[c], Offers(c, "daily") \cap called)

DailySoFar == best = {p \in called : ~Failed(p)} /\ \A p \in called : trace[p] \in {"candidate", "unsupported", "failed"}
SingleSoFar == \A p \in called : trace[p] \in {"unsupported", "failed"}

WalkInv ==
  /\ WalkTypeOK
  /\ result.kind = "idle" => Untouched
  /\ \A p \in called, q \in Uncalled : Before(p, q)
  /\ result.kind = "pending" =>
       /\ \A p \in Providers : trace[p] = "none" <=> p \notin called
       /\ capability = "quotes" => QuotesSoFar
       /\ capability = "daily" => DailySoFar
       /\ capability = "single" => SingleSoFar
  /\ Done => ChainRanked

-----------------------------------------------------------------------------
\* A set of numbers has a least one.
LEMMA LeastNumber ==
  ASSUME NEW Q, Q \subseteq Nat, Q # {}
  PROVE  Min(Q) \in Q /\ \A y \in Q : Min(Q) <= y
<1> DEFINE L == OpToRel(<, Nat)
<1>1. IsWellFoundedOn(L, Nat)
  BY NatLessThanWellFounded
<1>2. \A i, j \in Nat : i < j => <<i, j>> \in L
  BY DEF OpToRel
<1> HIDE DEF L
<1>3. PICK x \in Q : \A y \in Q : <<y, x>> \notin L
  BY <1>1, WFMin
<1>4. \A y \in Q : x <= y
  <2> TAKE y \in Q
  <2>1. x \in Nat /\ y \in Nat
    OBVIOUS
  <2>2. ~(y < x)
    BY <1>2, <1>3, <2>1
  <2> QED
    BY <2>1, <2>2
<1> QED
  BY <1>4 DEF Min

\* A bounded set of numbers has a greatest one.
LEMMA GreatestNumber ==
  ASSUME NEW n \in Nat, NEW Q, Q \subseteq 0..n, Q # {}
  PROVE  \E x \in Q : \A y \in Q : y <= x
<1> DEFINE back == {n - d : d \in Q}
<1>1. back \subseteq Nat /\ back # {}
  <2>1. \A d \in Q : n - d \in Nat
    OBVIOUS
  <2> QED
    BY <2>1
<1>2. \A b \in back : \E d \in Q : b = n - d
  OBVIOUS
<1>3. \A d \in Q : n - d \in back
  OBVIOUS
<1> HIDE DEF back
<1>4. Min(back) \in back /\ \A y \in back : Min(back) <= y
  BY <1>1, LeastNumber
<1>5. PICK x \in Q : Min(back) = n - x
  BY <1>2, <1>4
<1>6. \A d \in Q : d <= x
  <2> TAKE d \in Q
  <2>1. x \in 0..n /\ d \in 0..n
    OBVIOUS
  <2>2. n - x <= n - d
    BY <1>3, <1>4, <1>5
  <2> QED
    BY <2>1, <2>2
<1> QED
  BY <1>6

\* The first of a set is its minimum.
LEMMA FirstIsMin ==
  ASSUME NEW S, S \subseteq Providers, NEW x, IsFirst(x, S)
  PROVE  /\ S # {} => x = Min(S) /\ x # 0
         /\ S = {} => x = 0
<1>1. S \subseteq Nat /\ \A p \in S : p # 0
  BY DEF Providers
<1>2. CASE S # {}
  <2>1. Min(S) \in S /\ \A y \in S : Min(S) <= y
    BY <1>1, <1>2, LeastNumber
  <2>2. x \in S /\ x <= Min(S) /\ Min(S) <= x
    BY <1>2, <2>1 DEF IsFirst
  <2> HIDE DEF IsFirst
  <2>3. x \in Nat /\ Min(S) \in Nat
    BY <1>1, <2>1, <2>2
  <2> QED
    BY <1>1, <1>2, <2>2, <2>3
<1>3. CASE S = {}
  BY <1>3 DEF IsFirst
<1> QED
  BY <1>2, <1>3

\* The first of the providers with one more.
LEMMA FirstOfMore ==
  ASSUME NEW S, S \subseteq Providers, NEW x, IsFirst(x, S), NEW p \in Providers
  PROVE  IsFirst(IF x = 0 \/ p < x THEN p ELSE x, S \cup {p})
<1>1. S \subseteq Nat /\ p \in Nat /\ p # 0 /\ \A q \in S : q # 0
  BY DEF Providers
<1>2. CASE S = {}
  BY <1>1, <1>2 DEF IsFirst
<1>3. CASE S # {}
  <2>1. x \in S /\ x \in Nat /\ x # 0 /\ \A q \in S : x <= q
    BY <1>1, <1>3 DEF IsFirst
  <2>2. CASE p < x
    <3>1. \A q \in S : p <= q
      BY <1>1, <2>1, <2>2
    <3> QED
      BY <1>1, <2>1, <2>2, <3>1 DEF IsFirst
  <2>3. CASE ~(p < x)
    BY <1>1, <2>1, <2>3 DEF IsFirst
  <2> QED
    BY <2>2, <2>3
<1> QED
  BY <1>2, <1>3

\* The provider that is called next precedes the rest.
LEMMA NextIsNext ==
  ASSUME WalkInv, Uncalled # {}
  PROVE  /\ NextProvider \in Providers \ called
         /\ \A q \in Uncalled : q = NextProvider \/ Before(NextProvider, q)
<1>1. Uncalled \subseteq Nat /\ Uncalled \subseteq Providers \ called
  BY DEF Uncalled, Providers
<1>2. CASE Uncalled \ degradedOnly # {}
  <2>1. NextProvider = Min(Uncalled \ degradedOnly)
    BY <1>2 DEF NextProvider
  <2>2. Uncalled \ degradedOnly \subseteq Nat
    BY <1>1
  <2>3. NextProvider \in Uncalled \ degradedOnly /\ \A q \in Uncalled \ degradedOnly : NextProvider <= q
    BY <1>2, <2>1, <2>2, LeastNumber
  <2>4. \A q \in Uncalled : q = NextProvider \/ Before(NextProvider, q)
    <3> TAKE q \in Uncalled
    <3>1. q \in Nat /\ NextProvider \in Nat
      BY <1>1, <2>3
    <3> QED
      BY <2>3, <3>1 DEF Before
  <2> QED
    BY <1>1, <2>3, <2>4
<1>3. CASE Uncalled \ degradedOnly = {}
  <2>1. NextProvider = Min(Uncalled) /\ Uncalled \subseteq degradedOnly
    BY <1>3 DEF NextProvider
  <2>2. NextProvider \in Uncalled /\ \A q \in Uncalled : NextProvider <= q
    BY <1>1, <2>1, LeastNumber
  <2>3. \A q \in Uncalled : q = NextProvider \/ Before(NextProvider, q)
    <3> TAKE q \in Uncalled
    <3>1. q \in Nat /\ NextProvider \in Nat
      BY <1>1, <2>2
    <3> QED
      BY <2>1, <2>2, <3>1 DEF Before
  <2> QED
    BY <1>1, <2>2, <2>3
<1> QED
  BY <1>2, <1>3

\* The order of the walk after a call.
LEMMA CallsInOrder ==
  ASSUME WalkInv, Uncalled # {}, called' = called \cup {NextProvider}, UNCHANGED degradedOnly
  PROVE  /\ called' \subseteq Providers
         /\ \A p \in called', q \in Uncalled' : Before(p, q)'
<1>1. /\ NextProvider \in Providers \ called
      /\ \A q \in Uncalled : q = NextProvider \/ Before(NextProvider, q)
  BY NextIsNext
<1>2. Uncalled' = Uncalled \ {NextProvider}
  BY DEF Uncalled
<1>3. \A p \in called, q \in Uncalled : Before(p, q)
  BY DEF WalkInv
<1>4. \A p \in called', q \in Uncalled' : Before(p, q)
  BY <1>1, <1>2, <1>3
<1> QED
  BY <1>1, <1>4 DEF Before, WalkInv, WalkTypeOK

\* What a provider can answer, by the kind of the call.
LEMMA AnswersAre ==
  ASSUME WalkInv, NEW p \in Providers
  PROVE  /\ capability = "quotes" /\ ~Failed(p) => answer[p].kind = "rows" /\ answer[p].rows \in [Requested -> QuoteRows]
         /\ capability = "daily" /\ ~Failed(p) =>
              \/ answer[p].kind = "rows" /\ answer[p].batch \in Batches /\ answer[p].covers \in BOOLEAN
                   /\ answer[p].count \in 1..MaxRows
              \/ answer[p].kind = "empty"
         /\ answer[p].kind \in {"rows", "empty"} \cup Refusals
<1>1. answer[p] \in Answers(capability)
  BY DEF WalkInv, WalkTypeOK
<1>2. CASE capability = "quotes"
  BY <1>1, <1>2 DEF Answers, Failed
<1>3. CASE capability = "daily"
  BY <1>1, <1>3 DEF Answers, Failed
<1>4. CASE capability = "single"
  BY <1>1, <1>4 DEF Answers, Failed
<1> QED
  BY <1>2, <1>3, <1>4 DEF WalkInv, WalkTypeOK

\* A walk starts with nothing called.
LEMMA BeginStep ==
  ASSUME WalkInv, Begin
  PROVE  WalkInv'
<1>1. result.kind = "idle" /\ Untouched
  BY DEF Begin, WalkInv
<1>2. /\ called' = {} /\ best' = {} /\ result' = Pending /\ result'.kind = "pending"
      /\ selected' = Nothing /\ degraded' = Nothing /\ daily' = Nothing /\ trace' = trace
  BY <1>1 DEF Begin, Untouched, Pending
<1>3. WalkTypeOK'
  <2>1. degradedOnly' \subseteq Providers /\ (capability # "quotes" => degradedOnly' = {})
    BY DEF Begin
  <2>2. capability' = capability /\ capability \in {"quotes", "daily", "single"}
    BY DEF Begin, WalkInv, WalkTypeOK
  <2>3. answer' \in [Providers -> Answers(capability)] /\ trace' \in [Providers -> Statuses]
    BY <1>2 DEF Begin, WalkInv, WalkTypeOK
  <2>4. Nothing \in [Requested -> Nat]
    BY DEF Nothing
  <2>5. Pending \in [kind : {"idle", "pending", "contract", "quotes", "failed", "unsupported"}]
    BY DEF Pending
  <2> HIDE DEF Begin
  <2> QED
    BY <1>2, <2>1, <2>2, <2>3, <2>4, <2>5 DEF WalkTypeOK
<1>4. QuotesSoFar'
  BY <1>2 DEF QuotesSoFar, IsFirst, Nothing
<1>5. DailySoFar' /\ SingleSoFar'
  BY <1>2 DEF DailySoFar, SingleSoFar
<1>6. \A p \in Providers : trace'[p] = "none"
  BY <1>1, <1>2 DEF Untouched
<1>7. ~Done'
  BY <1>2 DEF Done
<1> QED
  BY <1>2, <1>3, <1>4, <1>5, <1>6, <1>7 DEF WalkInv

\* What a qualified row of the next provider does to the first qualified row.
LEMMA FirstQualified ==
  ASSUME WalkInv, result = Pending, capability = "quotes", Uncalled # {}, NEW c \in Requested,
         NEW p, p = NextProvider, ~Failed(p), ~BreaksContract(p)
  PROVE  IsFirst(Take(p)[c], (Offers(c, "qualified") \ degradedOnly) \cap (called \cup {p}))
<1> DEFINE Good == Offers(c, "qualified") \ degradedOnly
<1>1. p \in Providers \ called
  BY NextIsNext
<1>2. IsFirst(selected[c], Good \cap called) /\ selected[c] \in Nat
  BY DEF WalkInv, WalkTypeOK, QuotesSoFar, Pending
<1>3. Good \subseteq Providers
  BY DEF Offers
<1>4. Take(p)[c] = IF selected[c] = 0 /\ answer[p].rows[c] = "qualified" THEN p ELSE selected[c]
  BY DEF Take, Missing
<1>5. p \in Good <=> answer[p].rows[c] = "qualified"
  BY <1>1 DEF Offers, BreaksContract
<1>6. \A q \in Good \cap called : p \in Good => q < p
  <2> TAKE q \in Good \cap called
  <2>1. Before(q, p)
    BY <1>1 DEF WalkInv, Uncalled
  <2> QED
    BY <2>1 DEF Before
<1> SUFFICES IsFirst(Take(p)[c], Good \cap (called \cup {p}))
  OBVIOUS
<1> HIDE DEF Good
<1>7. p \in Nat /\ p # 0 /\ \A q \in Good : q \in Nat /\ q # 0
  BY <1>1, <1>3 DEF Providers
<1>8. CASE p \notin Good
  BY <1>2, <1>4, <1>5, <1>8 DEF IsFirst
<1>9. CASE p \in Good /\ selected[c] = 0
  <2>1. Good \cap called = {}
    BY <1>2, <1>7, <1>9 DEF IsFirst
  <2>2. Good \cap (called \cup {p}) = {p}
    BY <1>9, <2>1
  <2> QED
    BY <1>4, <1>5, <1>7, <1>9, <2>2 DEF IsFirst
<1>10. CASE p \in Good /\ selected[c] # 0
  <2>1. selected[c] \in Good \cap called /\ \A q \in Good \cap called : selected[c] <= q
    BY <1>2, <1>10 DEF IsFirst
  <2>2. selected[c] < p
    BY <1>6, <1>10, <2>1
  <2>3. \A q \in Good \cap (called \cup {p}) : selected[c] <= q
    BY <1>2, <1>7, <2>1, <2>2
  <2> QED
    BY <1>4, <1>10, <2>1, <2>3 DEF IsFirst
<1> QED
  BY <1>8, <1>9, <1>10

\* The same for the rows that are kept in reserve, while the code has no qualified row.
LEMMA FirstReserve ==
  ASSUME NEW c \in Requested, NEW row, NEW d, selected[c] = 0, NEW p \in Providers, ~Failed(p),
         IsFirst(d[c], Offers(c, row) \cap called)
  PROVE  IsFirst(EarlierRow(d, p, row)[c], Offers(c, row) \cap (called \cup {p}))
<1> DEFINE RowsOf == Offers(c, row)
<1>1. EarlierRow(d, p, row)[c] = IF answer[p].rows[c] = row /\ (d[c] = 0 \/ p < d[c]) THEN p ELSE d[c]
  BY DEF EarlierRow, Missing
<1>2. p \in RowsOf <=> answer[p].rows[c] = row
  BY DEF Offers
<1>3. RowsOf \subseteq Providers
  BY DEF Offers
<1>6. IsFirst(d[c], RowsOf \cap called)
  OBVIOUS
<1> SUFFICES IsFirst(EarlierRow(d, p, row)[c], RowsOf \cap (called \cup {p}))
  OBVIOUS
<1> HIDE DEF RowsOf
<1>4. CASE p \notin RowsOf
  <2>1. RowsOf \cap (called \cup {p}) = RowsOf \cap called
    BY <1>4
  <2> QED
    BY <1>1, <1>2, <1>4, <2>1, <1>6
<1>5. CASE p \in RowsOf
  <2>1. RowsOf \cap (called \cup {p}) = (RowsOf \cap called) \cup {p}
    BY <1>5
  <2>2. EarlierRow(d, p, row)[c] = IF d[c] = 0 \/ p < d[c] THEN p ELSE d[c]
    BY <1>1, <1>2, <1>5
  <2>3. IsFirst(IF d[c] = 0 \/ p < d[c] THEN p ELSE d[c], (RowsOf \cap called) \cup {p})
    BY <1>3, <1>5, <1>6, FirstOfMore
  <2> QED
    BY <2>1, <2>2, <2>3
<1> QED
  BY <1>4, <1>5
\* The call of the next provider for quotes.
LEMMA QuotesStep ==
  ASSUME WalkInv, CallForQuotes
  PROVE  WalkInv'
<1> DEFINE p == NextProvider
<1>1. /\ capability = "quotes" /\ result = Pending /\ result.kind = "pending" /\ Uncalled # {}
      /\ called' = called \cup {p} /\ UNCHANGED <<best, capability, answer, degradedOnly, allowEmpty>>
  BY DEF CallForQuotes, inputs, Pending
<1>2. p \in Providers /\ p \notin called
  BY <1>1, NextIsNext
<1>3. /\ called' \subseteq Providers
      /\ \A x \in called', y \in Uncalled' : Before(x, y)'
  BY <1>1, CallsInOrder
<1>4. /\ \A x \in Providers : trace[x] = "none" <=> x \notin called
      /\ QuotesSoFar /\ WalkTypeOK
  BY <1>1 DEF WalkInv
<1>5. /\ \A x \in Providers : Failed(x)' <=> Failed(x)
      /\ \A x \in Providers : BreaksContract(x)' <=> BreaksContract(x)
      /\ \A c \in Requested, k \in QuoteRows : Offers(c, k)' = Offers(c, k)
  BY <1>1 DEF Failed, BreaksContract, Offers
<1>6. CASE Failed(p) \/ BreaksContract(p)
  <2>1. /\ trace' = [trace EXCEPT ![p] = IF Failed(p) THEN answer[p].kind ELSE "failed"]
        /\ result' = IF ~Failed(p) /\ BreaksContract(p) THEN [kind |-> "contract"] ELSE result
        /\ UNCHANGED <<selected, degraded, daily>>
    BY <1>6 DEF CallForQuotes
  <2>2. (IF Failed(p) THEN answer[p].kind ELSE "failed") \in {"unsupported", "failed"}
    BY DEF Failed, Refusals
  <2>3. /\ trace' \in [Providers -> Statuses]
        /\ \A x \in Providers : trace'[x] = "none" <=> x \notin called'
    <3> HIDE DEF p
    <3> QED
      BY <1>1, <1>2, <1>4, <2>1, <2>2 DEF WalkTypeOK, Statuses
  <2>4. WalkTypeOK'
    BY <1>1, <1>3, <1>4, <2>1, <2>3 DEF WalkTypeOK, Answers
  <2> HIDE DEF p
  <2>5. CASE ~Failed(p)
    <3>1. result' = [kind |-> "contract"] /\ result'.kind = "contract"
      BY <1>6, <2>1, <2>5
    <3>2. ChainRanked'
      BY <1>1, <2>3, <3>1 DEF ChainRanked, QuotesRanked, DailyBest, TraceTellsSource, UnsupportedMeansAll
    <3> QED
      BY <1>3, <2>4, <3>1, <3>2 DEF WalkInv
  <2>6. CASE Failed(p)
    <3>1. result' = Pending /\ result'.kind = "pending"
      BY <1>1, <2>1, <2>6
    <3>2. \A c \in Requested, k \in QuoteRows : Offers(c, k) \cap called' = Offers(c, k) \cap called
      BY <1>1, <1>2, <2>6 DEF Offers
    <3>3. QuotesSoFar'
      <4>1. \A x \in called' : (Failed(x) \/ ~BreaksContract(x))'
        BY <1>1, <1>2, <1>3, <1>4, <1>5, <2>6 DEF QuotesSoFar, WalkTypeOK
      <4>2. \A c \in Requested :
              /\ IsFirst(selected'[c], (Offers(c, "qualified")' \ degradedOnly') \cap called')
              /\ selected'[c] = 0 => /\ IsFirst(degraded'[c], Offers(c, "degraded")' \cap called')
                                    /\ IsFirst(daily'[c], Offers(c, "daily")' \cap called')
        <5> TAKE c \in Requested
        <5>1. /\ (Offers(c, "qualified") \ degradedOnly) \cap called' = (Offers(c, "qualified") \ degradedOnly) \cap called
              /\ Offers(c, "degraded") \cap called' = Offers(c, "degraded") \cap called
              /\ Offers(c, "daily") \cap called' = Offers(c, "daily") \cap called
          BY <3>2 DEF QuoteRows
        <5>2. /\ Offers(c, "qualified")' = Offers(c, "qualified") /\ Offers(c, "degraded")' = Offers(c, "degraded")
              /\ Offers(c, "daily")' = Offers(c, "daily")
          BY <1>5 DEF QuoteRows
        <5> QED
          BY <1>1, <1>4, <2>1, <5>1, <5>2 DEF QuotesSoFar
      <4> QED
        BY <4>1, <4>2 DEF QuotesSoFar, IsFirst
    <3>4. ~Done'
      BY <3>1 DEF Done
    <3> QED
      BY <1>1, <1>3, <2>3, <2>4, <3>1, <3>3, <3>4 DEF WalkInv
  <2> QED
    BY <2>5, <2>6
<1>7. CASE ~Failed(p) /\ ~BreaksContract(p)
  <2>1. /\ selected' = Take(p) /\ degraded' = EarlierRow(degraded, p, "degraded") /\ daily' = EarlierRow(daily, p, "daily")
        /\ trace' = [trace EXCEPT ![p] = QuoteStatus(p)] /\ result' = result
    BY <1>7 DEF CallForQuotes
  <2>2. QuoteStatus(p) \in Statuses /\ QuoteStatus(p) # "none"
    BY DEF QuoteStatus, Statuses
  <2>3. \A c \in Requested : IsFirst(selected'[c], (Offers(c, "qualified") \ degradedOnly) \cap called')
    BY <1>1, <1>7, <2>1, FirstQualified
  <2>4. \A c \in Requested : selected'[c] = 0 => selected[c] = 0
    BY <1>2, <1>4, <2>1 DEF Take, Providers
  <2> HIDE DEF p
  <2>5. \A c \in Requested : selected'[c] = 0 => /\ IsFirst(degraded'[c], Offers(c, "degraded") \cap called')
                                                 /\ IsFirst(daily'[c], Offers(c, "daily") \cap called')
    <3> TAKE c \in Requested
    <3> HAVE selected'[c] = 0
    <3>1. selected[c] = 0 /\ IsFirst(degraded[c], Offers(c, "degraded") \cap called)
            /\ IsFirst(daily[c], Offers(c, "daily") \cap called)
      BY <1>4, <2>4 DEF QuotesSoFar
    <3>2. IsFirst(EarlierRow(degraded, p, "degraded")[c], Offers(c, "degraded") \cap (called \cup {p}))
      BY <1>2, <1>7, <3>1, FirstReserve
    <3>3. IsFirst(EarlierRow(daily, p, "daily")[c], Offers(c, "daily") \cap (called \cup {p}))
      BY <1>2, <1>7, <3>1, FirstReserve
    <3> QED
      BY <1>1, <2>1, <3>2, <3>3
  <2>6. QuotesSoFar'
    <3>1. \A x \in called' : (Failed(x) \/ ~BreaksContract(x))'
      BY <1>1, <1>2, <1>3, <1>4, <1>5, <1>7 DEF QuotesSoFar, WalkTypeOK
    <3>2. \A c \in Requested :
            /\ Offers(c, "qualified")' = Offers(c, "qualified") /\ Offers(c, "degraded")' = Offers(c, "degraded")
            /\ Offers(c, "daily")' = Offers(c, "daily")
      BY <1>5 DEF QuoteRows
    <3> QED
      BY <1>1, <2>3, <2>5, <3>1, <3>2 DEF QuotesSoFar, IsFirst
  <2>7. /\ trace' \in [Providers -> Statuses]
        /\ \A x \in Providers : trace'[x] = "none" <=> x \notin called'
    <3>1. PICK s \in Statuses : s = QuoteStatus(p)
      BY <2>2
    <3>2. trace' = [trace EXCEPT ![p] = s] /\ s # "none"
      BY <2>1, <2>2, <3>1
    <3> QED
      BY <1>1, <1>2, <1>4, <3>2 DEF WalkTypeOK
  <2>8. selected' \in [Requested -> Nat] /\ degraded' \in [Requested -> Nat] /\ daily' \in [Requested -> Nat]
    <3>1. p \in Nat
      BY <1>2 DEF Providers
    <3> QED
      BY <1>4, <2>1, <3>1 DEF WalkTypeOK, Take, EarlierRow
  <2>9. WalkTypeOK'
    BY <1>1, <1>3, <1>4, <2>1, <2>7, <2>8 DEF WalkTypeOK, Answers
  <2>10. result' = Pending /\ result'.kind = "pending" /\ ~Done'
    BY <1>1, <2>1 DEF Done
  <2> QED
    BY <1>1, <1>3, <2>6, <2>7, <2>9, <2>10 DEF WalkInv
<1> QED
  BY <1>6, <1>7

\* The quotes a walk ends with are those the whole chain would rank first.
LEMMA FilledIsRanked ==
  ASSUME WalkInv, result = Pending, capability = "quotes", Uncalled = {} \/ Missing = {}, NEW c \in Requested
  PROVE  Filled[c] = Ranked(c)
<1> DEFINE Good == Offers(c, "qualified") \ degradedOnly
<1>1. /\ IsFirst(selected[c], Good \cap called)
      /\ selected[c] = 0 => /\ IsFirst(degraded[c], Offers(c, "degraded") \cap called)
                            /\ IsFirst(daily[c], Offers(c, "daily") \cap called)
  BY DEF WalkInv, QuotesSoFar, Pending
<1>2. Good \subseteq Providers /\ Offers(c, "degraded") \subseteq Providers /\ Offers(c, "daily") \subseteq Providers
  BY DEF Offers
<1>3. Filled[c] = CASE selected[c] # 0 -> selected[c]
                    [] selected[c] = 0 /\ degraded[c] # 0 -> degraded[c]
                    [] OTHER -> daily[c]
  BY DEF Filled
<1>4. Ranked(c) = CASE Good # {} -> Min(Good)
                    [] Good = {} /\ Offers(c, "degraded") # {} -> Min(Offers(c, "degraded"))
                    [] Good = {} /\ Offers(c, "degraded") = {} /\ Offers(c, "daily") # {} -> Min(Offers(c, "daily"))
                    [] OTHER -> 0
  BY DEF Ranked
<1>5. \A q \in Good : q \notin called /\ selected[c] # 0 => selected[c] <= q
  <2> TAKE q \in Good
  <2> HAVE q \notin called /\ selected[c] # 0
  <2>1. selected[c] \in Good \cap called
    BY <1>1 DEF IsFirst
  <2>2. Before(selected[c], q)
    BY <1>2, <2>1 DEF WalkInv, Uncalled
  <2>3. selected[c] < q
    BY <2>1, <2>2 DEF Before
  <2> QED
    BY <1>2, <2>1, <2>3 DEF Providers
<1> HIDE DEF Good
<1>6. CASE selected[c] # 0
  <2>1. selected[c] \in Good /\ \A q \in Good : selected[c] <= q
    BY <1>1, <1>5, <1>6 DEF IsFirst
  <2>2. IsFirst(selected[c], Good)
    BY <2>1 DEF IsFirst
  <2>3. Good # {} /\ selected[c] = Min(Good)
    BY <1>2, <2>1, <2>2, FirstIsMin
  <2> QED
    BY <1>3, <1>4, <1>6, <2>3
<1>7. CASE selected[c] = 0
  <2>1. called = Providers
    <3>1. Uncalled = {}
      BY <1>7 DEF Missing
    <3> QED
      BY <3>1 DEF Uncalled, WalkInv, WalkTypeOK
  <2>2. IsFirst(selected[c], Good) /\ IsFirst(degraded[c], Offers(c, "degraded")) /\ IsFirst(daily[c], Offers(c, "daily"))
    <3>1. Good \cap called = Good /\ Offers(c, "degraded") \cap called = Offers(c, "degraded")
            /\ Offers(c, "daily") \cap called = Offers(c, "daily")
      BY <1>2, <2>1
    <3> QED
      BY <1>1, <1>7, <3>1
  <2>3. Good = {}
    BY <1>2, <1>7, <2>2, FirstIsMin
  <2>4. /\ Offers(c, "degraded") # {} => degraded[c] = Min(Offers(c, "degraded")) /\ degraded[c] # 0
        /\ Offers(c, "degraded") = {} => degraded[c] = 0
    BY <1>2, <2>2, FirstIsMin
  <2>5. /\ Offers(c, "daily") # {} => daily[c] = Min(Offers(c, "daily")) /\ daily[c] # 0
        /\ Offers(c, "daily") = {} => daily[c] = 0
    BY <1>2, <2>2, FirstIsMin
  <2> QED
    BY <1>3, <1>4, <1>7, <2>3, <2>4, <2>5
<1> QED
  BY <1>6, <1>7

\* The walk for quotes ends.
LEMMA EndQuotesStep ==
  ASSUME WalkInv, EndQuotes
  PROVE  WalkInv'
<1>1. /\ capability = "quotes" /\ result = Pending /\ result.kind = "pending"
      /\ Uncalled = {} \/ Missing = {}
      /\ trace' = [p \in Providers |-> IF p \in degradedOnly \ called THEN "skipped" ELSE trace[p]]
      /\ selected' = Filled
      /\ result' = IF Filled # Nothing THEN [kind |-> "quotes"] ELSE NoResult
      /\ UNCHANGED <<called, degraded, daily, best, capability, answer, degradedOnly, allowEmpty>>
  BY DEF EndQuotes, inputs, Pending
<1>2. /\ \A x \in Providers : trace[x] = "none" <=> x \notin called
      /\ WalkTypeOK /\ \A x \in called, y \in Uncalled : Before(x, y)
  BY <1>1 DEF WalkInv
<1>3. /\ result' \in [kind : {"quotes", "failed", "unsupported"}]
      /\ result'.kind \in {"quotes", "failed", "unsupported"}
      /\ result'.kind = "unsupported" => \A x \in Providers : answer[x].kind = "unsupported"
  BY <1>1 DEF NoResult
<1>4. /\ trace' \in [Providers -> Statuses]
      /\ \A x \in Providers : trace'[x] = "none" <=> x \notin called /\ x \notin degradedOnly
  BY <1>1, <1>2 DEF WalkTypeOK, Statuses
<1>5. Filled \in [Requested -> Nat]
  BY <1>2 DEF Filled, WalkTypeOK
<1>6. WalkTypeOK'
  BY <1>1, <1>2, <1>3, <1>4, <1>5 DEF WalkTypeOK, Answers
<1>7. \A x \in called', y \in Uncalled' : Before(x, y)'
  BY <1>1, <1>2 DEF Before, Uncalled
<1>8. \A c \in Requested : selected'[c] = Ranked(c)'
  <2> TAKE c \in Requested
  <2>1. Filled[c] = Ranked(c)
    BY <1>1, FilledIsRanked
  <2>2. Ranked(c)' = Ranked(c)
    BY <1>1 DEF Ranked, Offers, Failed
  <2> QED
    BY <1>1, <2>1, <2>2
<1>9. ChainRanked'
  BY <1>1, <1>3, <1>4, <1>8 DEF ChainRanked, QuotesRanked, DailyBest, TraceTellsSource, UnsupportedMeansAll
<1> QED
  BY <1>3, <1>6, <1>7, <1>9 DEF WalkInv

\* The call of the next provider for daily bars.
LEMMA DailyStep ==
  ASSUME WalkInv, CallForDaily
  PROVE  WalkInv'
<1> DEFINE p == NextProvider
<1>1. /\ capability = "daily" /\ result = Pending /\ result.kind = "pending" /\ Uncalled # {}
      /\ called' = called \cup {p} /\ UNCHANGED <<selected, degraded, daily, result, capability, answer, degradedOnly, allowEmpty>>
      /\ best' = IF Failed(p) THEN best ELSE best \cup {p}
      /\ trace' = [trace EXCEPT ![p] = IF Failed(p) THEN answer[p].kind ELSE "candidate"]
  BY DEF CallForDaily, inputs, Pending
<1>2. p \in Providers /\ p \notin called
  BY <1>1, NextIsNext
<1>3. /\ called' \subseteq Providers
      /\ \A x \in called', y \in Uncalled' : Before(x, y)'
  BY <1>1, CallsInOrder
<1>4. /\ \A x \in Providers : trace[x] = "none" <=> x \notin called
      /\ DailySoFar /\ WalkTypeOK
  BY <1>1 DEF WalkInv
<1>5. \A x \in Providers : Failed(x)' <=> Failed(x)
  BY <1>1 DEF Failed
<1>6. (IF Failed(p) THEN answer[p].kind ELSE "candidate") \in {"unsupported", "failed", "candidate"}
  BY DEF Failed, Refusals
<1> HIDE DEF p
<1>7. /\ trace' \in [Providers -> Statuses]
      /\ \A x \in Providers : trace'[x] = "none" <=> x \notin called'
      /\ \A x \in called' : trace'[x] \in {"candidate", "unsupported", "failed"}
  <2>1. PICK s \in {"unsupported", "failed", "candidate"} :
          s = IF Failed(p) THEN answer[p].kind ELSE "candidate"
    BY <1>6
  <2>2. trace' = [trace EXCEPT ![p] = s]
    BY <1>1, <2>1
  <2>3. \A x \in called : trace[x] \in {"candidate", "unsupported", "failed"}
    BY <1>4 DEF DailySoFar
  <2> HIDE DEF DailySoFar
  <2> QED
    BY <1>1, <1>2, <1>4, <2>2, <2>3 DEF WalkTypeOK, Statuses
<1>8. best' = {x \in called' : ~Failed(x)'}
  BY <1>1, <1>2, <1>3, <1>4, <1>5 DEF DailySoFar, WalkTypeOK
<1>9. WalkTypeOK'
  BY <1>1, <1>2, <1>3, <1>4, <1>7 DEF WalkTypeOK, Answers
<1>10. DailySoFar'
  BY <1>7, <1>8 DEF DailySoFar
<1>11. ~Done' /\ result'.kind = "pending"
  BY <1>1 DEF Done
<1> QED
  BY <1>1, <1>3, <1>7, <1>9, <1>10, <1>11 DEF WalkInv

\* The call of the next provider of any other capability.
LEMMA SingleStep ==
  ASSUME WalkInv, CallSingle
  PROVE  WalkInv'
<1> DEFINE p == NextProvider
           good == answer[p].kind = "rows" \/ (answer[p].kind = "empty" /\ allowEmpty)
           status == CASE good /\ p = 1 -> "ok" [] good /\ p # 1 -> "fallback_used"
                       [] answer[p].kind = "unsupported" -> "unsupported" [] OTHER -> "failed"
<1>1. /\ capability = "single" /\ result = Pending /\ result.kind = "pending" /\ Uncalled # {}
      /\ called' = called \cup {p} /\ UNCHANGED <<selected, degraded, daily, best, capability, answer, degradedOnly, allowEmpty>>
      /\ trace' = [trace EXCEPT ![p] = status]
      /\ result' = IF good THEN [kind |-> "single", from |-> p] ELSE Pending
  BY DEF CallSingle, inputs, Pending
<1>2. p \in Providers /\ p \notin called
  BY <1>1, NextIsNext
<1>3. /\ called' \subseteq Providers
      /\ \A x \in called', y \in Uncalled' : Before(x, y)'
  BY <1>1, CallsInOrder
<1>4. /\ \A x \in Providers : trace[x] = "none" <=> x \notin called
      /\ SingleSoFar /\ WalkTypeOK /\ degradedOnly = {}
  BY <1>1 DEF WalkInv, WalkTypeOK
<1>5. status \in {"ok", "fallback_used", "unsupported", "failed"}
  <2>1. answer[p].kind = "unsupported" => ~good
    OBVIOUS
  <2> QED
    BY <2>1
<1>6. good => status \in {"ok", "fallback_used"}
  <2>1. answer[p].kind = "unsupported" => ~good
    OBVIOUS
  <2> HIDE DEF good
  <2> QED
    BY <2>1
<1>7. ~good => status \in {"unsupported", "failed"}
  OBVIOUS
<1> HIDE DEF p, good, status
<1>8. /\ trace' \in [Providers -> Statuses]
      /\ \A x \in Providers : trace'[x] = "none" <=> x \notin called'
      /\ trace'[p] = status
      /\ \A x \in called : trace'[x] \in {"unsupported", "failed"}
  <2>1. \A x \in called : trace[x] \in {"unsupported", "failed"}
    BY <1>4 DEF SingleSoFar
  <2> QED
    BY <1>1, <1>2, <1>4, <1>5, <2>1 DEF WalkTypeOK, Statuses
<1>9. WalkTypeOK'
  <2>1. result' \in [kind : {"idle", "pending", "contract", "quotes", "failed", "unsupported"}]
                      \cup [kind : {"batch", "single"}, from : Providers]
    BY <1>1, <1>2 DEF Pending
  <2> QED
    BY <1>1, <1>2, <1>3, <1>4, <1>8, <2>1 DEF WalkTypeOK, Answers
<1>10. CASE good
  <2>1. result' = [kind |-> "single", from |-> p] /\ result'.kind = "single" /\ result'.from = p
    BY <1>1, <1>10
  <2>2. {x \in Providers : trace'[x] \in {"ok", "fallback_used", "partial", "fallback_partial"}} = {p}
    <3>1. trace'[p] \in {"ok", "fallback_used"}
      BY <1>6, <1>8, <1>10
    <3>2. \A x \in Providers : x # p => trace'[x] \in {"none", "unsupported", "failed"}
      BY <1>1, <1>8
    <3> QED
      BY <1>2, <3>1, <3>2
  <2>3. Cardinality({p}) = 1
    BY FS_Singleton
  <2>4. trace'[result'.from] \in {"ok", "fallback_used", "partial", "fallback_partial"}
    BY <1>6, <1>8, <1>10, <2>1
  <2>5. TraceTellsSource'
    BY <1>1, <1>4, <1>8, <2>1, <2>2, <2>3, <2>4 DEF TraceTellsSource
  <2>6. ChainRanked'
    BY <1>1, <2>1, <2>5, CompositeAssumed DEF ChainRanked, QuotesRanked, DailyBest, UnsupportedMeansAll
  <2> QED
    BY <1>3, <1>9, <2>1, <2>6 DEF WalkInv
<1>11. CASE ~good
  <2>1. result' = Pending /\ result'.kind = "pending" /\ ~Done'
    BY <1>1, <1>11 DEF Done, Pending
  <2>2. SingleSoFar'
    BY <1>1, <1>7, <1>8, <1>11 DEF SingleSoFar
  <2> QED
    BY <1>1, <1>3, <1>8, <1>9, <2>1, <2>2 DEF WalkInv
<1> QED
  BY <1>10, <1>11

\* A chain without a result says so.
LEMMA EmptyHanded ==
  ASSUME WalkInv, capability \in {"daily", "single"}, result = Pending, result' = NoResult,
         UNCHANGED <<called, selected, degraded, daily, best, trace, inputs>>
  PROVE  WalkInv'
<1>1. result.kind = "pending"
  BY DEF Pending
<1>2. /\ \A x \in Providers : trace[x] = "none" <=> x \notin called
      /\ WalkTypeOK /\ \A x \in called, y \in Uncalled : Before(x, y)
      /\ degradedOnly = {}
  BY <1>1 DEF WalkInv, WalkTypeOK
<1>3. /\ result' \in [kind : {"failed", "unsupported"}] /\ result'.kind \in {"failed", "unsupported"}
      /\ result'.kind = "unsupported" => \A x \in Providers : answer[x].kind = "unsupported"
  BY DEF NoResult
<1>4. WalkTypeOK'
  BY <1>2, <1>3 DEF WalkTypeOK, Answers, inputs
<1>5. \A x \in called', y \in Uncalled' : Before(x, y)'
  BY <1>2 DEF Before, Uncalled, inputs
<1>6. ChainRanked'
  BY <1>2, <1>3 DEF ChainRanked, QuotesRanked, DailyBest, TraceTellsSource, UnsupportedMeansAll, inputs
<1> QED
  BY <1>3, <1>4, <1>5, <1>6 DEF WalkInv

\* The parts of a candidate's sort key are numbers within bounds.
LEMMA KeysAre ==
  ASSUME WalkInv, capability = "daily", NEW p \in Providers, ~Failed(p)
  PROVE  Quality(answer[p]) \in 0..3 /\ RowCount(answer[p]) \in 0..MaxRows /\ Covers(answer[p]) \in BOOLEAN
<1>1. \/ answer[p].kind = "rows" /\ answer[p].batch \in Batches /\ answer[p].covers \in BOOLEAN
           /\ answer[p].count \in 1..MaxRows
      \/ answer[p].kind = "empty"
  BY AnswersAre
<1>2. MaxRows \in Nat
  BY CompositeAssumed DEF CompositeAssumption
<1>3. Quality(answer[p]) \in 0..3
  BY DEF Quality
<1>4. RowCount(answer[p]) \in 0..MaxRows
  <2>1. CASE answer[p].kind = "rows"
    BY <1>1, <1>2, <2>1 DEF RowCount
  <2>2. CASE answer[p].kind # "rows"
    BY <1>2, <2>2 DEF RowCount
  <2> QED
    BY <2>1, <2>2
<1> QED
  BY <1>3, <1>4 DEF Covers

\* There is a candidate that beats the others: of the best quality, of those one that covers the date
\* if any does, of those one with the most rows, of those the first.
LEMMA BestExists ==
  ASSUME WalkInv, capability = "daily", best \subseteq Providers, best # {}, \A p \in best : ~Failed(p)
  PROVE  \E p \in best : \A q \in best \ {p} : Beats(p, q)
<1> DEFINE Q(p) == Quality(answer[p])
           C(p) == Covers(answer[p])
           R(p) == RowCount(answer[p])
<1>1. \A p \in best : Q(p) \in 0..3 /\ R(p) \in 0..MaxRows /\ C(p) \in BOOLEAN
  BY KeysAre
<1>2. MaxRows \in Nat
  BY CompositeAssumed DEF CompositeAssumption
<1>3. \A p, q \in best :
        Beats(p, q) <=> \/ Q(p) > Q(q)
                        \/ Q(p) = Q(q) /\ (C(p) /\ ~C(q))
                        \/ Q(p) = Q(q) /\ (C(p) <=> C(q)) /\ R(p) > R(q)
                        \/ Q(p) = Q(q) /\ (C(p) <=> C(q)) /\ R(p) = R(q) /\ p < q
  BY DEF Beats
<1> HIDE DEF Q, C, R
<1>4. PICK x \in best : \A q \in best : Q(q) <= Q(x)
  <2> DEFINE levels == {Q(p) : p \in best}
  <2>1. levels \subseteq 0..3 /\ levels # {}
    BY <1>1
  <2>2. \A p \in best : Q(p) \in levels
    OBVIOUS
  <2>3. \A l \in levels : \E p \in best : l = Q(p)
    OBVIOUS
  <2> HIDE DEF levels
  <2>4. PICK l \in levels : \A y \in levels : y <= l
    BY <2>1, GreatestNumber
  <2> QED
    BY <2>2, <2>3, <2>4
<1>5. PICK y \in best : Q(y) = Q(x) /\ \A q \in best : Q(q) = Q(x) /\ C(q) => C(y)
  <2>1. CASE \E q \in best : Q(q) = Q(x) /\ C(q)
    BY <2>1
  <2>2. CASE ~\E q \in best : Q(q) = Q(x) /\ C(q)
    BY <2>2
  <2> QED
    BY <2>1, <2>2
<1> DEFINE equals == {q \in best : Q(q) = Q(x) /\ (C(q) <=> C(y))}
<1>6. PICK z \in equals : \A q \in equals : R(q) <= R(z)
  <2> DEFINE counts == {R(p) : p \in equals}
  <2>1. counts \subseteq 0..MaxRows /\ counts # {}
    BY <1>1, <1>5
  <2>2. \A p \in equals : R(p) \in counts
    OBVIOUS
  <2>3. \A l \in counts : \E p \in equals : l = R(p)
    OBVIOUS
  <2> HIDE DEF counts, equals
  <2>4. PICK l \in counts : \A w \in counts : w <= l
    BY <1>2, <2>1, GreatestNumber
  <2> QED
    BY <2>2, <2>3, <2>4
<1> DEFINE firsts == {q \in equals : R(q) = R(z)}
<1>7. Min(firsts) \in firsts /\ \A q \in firsts : Min(firsts) <= q
  <2>1. firsts \subseteq Nat
    <3>1. firsts \subseteq equals /\ equals \subseteq best
      OBVIOUS
    <3>2. Providers \subseteq Nat
      BY DEF Providers
    <3> HIDE DEF firsts, equals
    <3> QED
      BY <3>1, <3>2
  <2>2. z \in firsts
    BY <1>6
  <2> HIDE DEF firsts
  <2> QED
    BY <2>1, <2>2, LeastNumber
<1>8. PICK top \in firsts : \A q \in firsts : top <= q
  BY <1>7
<1>9. \A q \in best \ {top} : Beats(top, q)
  <2> TAKE q \in best \ {top}
  <2>1. top \in best /\ Q(top) = Q(x) /\ (C(top) <=> C(y)) /\ R(top) = R(z)
    BY <1>8
  <2>2. Q(q) \in 0..3 /\ R(q) \in 0..MaxRows /\ Q(x) \in 0..3 /\ R(z) \in 0..MaxRows /\ q \in Nat /\ top \in Nat
    BY <1>1, <1>4, <1>6, <2>1 DEF Providers
  <2>3. CASE Q(q) # Q(x)
    <3>1. Q(q) < Q(x)
      BY <1>4, <2>2, <2>3
    <3> QED
      BY <1>3, <2>1, <2>2, <3>1
  <2>4. CASE Q(q) = Q(x) /\ ~(C(q) <=> C(y))
    <3>1. C(y) /\ ~C(q)
      BY <1>5, <2>4
    <3> QED
      BY <1>3, <2>1, <2>4, <3>1
  <2>5. CASE Q(q) = Q(x) /\ (C(q) <=> C(y)) /\ R(q) # R(z)
    <3>1. R(q) < R(z)
      BY <1>6, <2>2, <2>5
    <3> QED
      BY <1>3, <2>1, <2>2, <2>5, <3>1
  <2>6. CASE Q(q) = Q(x) /\ (C(q) <=> C(y)) /\ R(q) = R(z)
    <3>1. q \in firsts
      BY <2>6
    <3>2. top < q
      BY <1>8, <2>2, <3>1
    <3> QED
      BY <1>3, <2>1, <2>6, <3>2
  <2> QED
    BY <2>3, <2>4, <2>5, <2>6
<1> QED
  BY <1>8, <1>9

\* The walk for daily bars ends.
LEMMA EndDailyStep ==
  ASSUME WalkInv, EndDaily
  PROVE  WalkInv'
<1>1. /\ capability = "daily" /\ result = Pending /\ result.kind = "pending"
      /\ Uncalled = {} \/ \E p \in best : Perfect(p)
      /\ UNCHANGED <<called, selected, degraded, daily, best, capability, answer, degradedOnly, allowEmpty>>
  BY DEF EndDaily, inputs, Pending
<1>2. CASE best = {}
  <2>1. result' = NoResult /\ UNCHANGED trace
    BY <1>2 DEF EndDaily
  <2> QED
    BY <1>1, <2>1, EmptyHanded DEF inputs
<1>3. CASE best # {}
  <2> DEFINE top == CHOOSE p \in best : \A q \in best \ {p} : Beats(p, q)
  <2>1. /\ \A x \in Providers : trace[x] = "none" <=> x \notin called
        /\ WalkTypeOK /\ \A x \in called, y \in Uncalled : Before(x, y)
        /\ degradedOnly = {} /\ best = {x \in called : ~Failed(x)}
        /\ \A x \in called : trace[x] \in {"candidate", "unsupported", "failed"}
    BY <1>1 DEF WalkInv, WalkTypeOK, DailySoFar
  <2>2. best \subseteq Providers /\ \A x \in best : ~Failed(x)
    BY <2>1 DEF WalkTypeOK
  <2>3. \E p \in best : \A q \in best \ {p} : Beats(p, q)
    BY <1>1, <1>3, <2>2, BestExists
  <2>4. top \in best /\ \A q \in best \ {top} : Beats(top, q)
    BY <2>3
  <2>5. /\ trace' = [p \in Providers |-> IF p \in best THEN DailyStatus(p, top) ELSE trace[p]]
        /\ result' = [kind |-> "batch", from |-> top]
    BY <1>3 DEF EndDaily
  <2>6. \A p \in best : /\ DailyStatus(p, top) \in Statuses \ {"none"}
                        /\ p = top => DailyStatus(p, top) \in Sources
                        /\ p # top => DailyStatus(p, top) \in {"quality_fallback", "superseded"}
    BY DEF DailyStatus, Statuses, Sources
  <2> HIDE DEF top
  <2>7. top \in Providers /\ result'.kind = "batch" /\ result'.from = top
    BY <2>2, <2>4, <2>5
  <2>8. /\ trace' \in [Providers -> Statuses]
        /\ \A x \in Providers : trace'[x] = "none" <=> x \notin called
    BY <2>1, <2>5, <2>6 DEF WalkTypeOK, Statuses
  <2>9. WalkTypeOK'
    BY <1>1, <2>1, <2>5, <2>7, <2>8 DEF WalkTypeOK, Answers
  <2>10. {x \in Providers : trace'[x] \in Sources} = {top}
    <3>1. \A x \in Providers : x \notin best => trace'[x] \in {"none", "unsupported", "failed", "candidate"}
      BY <2>1, <2>5
    <3>2. \A x \in best : x # top => trace'[x] \notin Sources
      BY <2>2, <2>5, <2>6 DEF Sources
    <3>3. trace'[top] \in Sources
      BY <2>2, <2>4, <2>5, <2>6
    <3> QED
      BY <2>7, <3>1, <3>2, <3>3 DEF Sources
  <2>11. Cardinality({top}) = 1
    BY FS_Singleton
  <2>12. TraceTellsSource'
    <3>1. trace'[result'.from] \in Sources
      BY <2>7, <2>10
    <3> QED
      BY <1>1, <2>1, <2>7, <2>8, <2>10, <2>11, <3>1 DEF TraceTellsSource, Sources
  <2>13. \A p \in Providers : ~Failed(p) =>
            /\ Quality(answer[p]) <= Quality(answer[top])
            /\ Quality(answer[p]) = Quality(answer[top]) => (Covers(answer[p]) => Covers(answer[top]))
    <3> TAKE p \in Providers
    <3> HAVE ~Failed(p)
    <3>1. Quality(answer[p]) \in 0..3 /\ Quality(answer[top]) \in 0..3
      BY <1>1, <2>2, <2>4, <2>7, KeysAre
    <3>2. CASE p \in best
      <4>1. p = top \/ Beats(top, p)
        BY <2>4, <3>2
      <4> QED
        BY <3>1, <4>1 DEF Beats
    <3>3. CASE p \notin best
      <4>1. p \in Uncalled
        BY <2>1, <3>3 DEF Uncalled
      <4>2. PICK b \in best : Perfect(b)
        BY <1>1, <4>1
      <4>3. Quality(answer[b]) = 3 /\ Covers(answer[b])
        BY <4>2 DEF Perfect
      <4>4. b = top \/ Beats(top, b)
        BY <2>4
      <4>5. Quality(answer[top]) = 3 /\ Covers(answer[top])
        BY <3>1, <4>3, <4>4 DEF Beats
      <4> QED
        BY <3>1, <4>5
    <3> QED
      BY <3>2, <3>3
  <2>14. ChainRanked'
    <3>1. DailyBest'
      BY <1>1, <2>7, <2>13 DEF DailyBest, Failed
    <3> QED
      BY <1>1, <2>7, <2>12, <3>1 DEF ChainRanked, QuotesRanked, UnsupportedMeansAll
  <2>15. \A x \in called', y \in Uncalled' : Before(x, y)'
    BY <1>1, <2>1 DEF Before, Uncalled
  <2> QED
    BY <2>7, <2>9, <2>14, <2>15 DEF WalkInv
<1> QED
  BY <1>2, <1>3

\* Every step keeps the invariant.
LEMMA WalkStep == WalkInv /\ [WalkNext]_chainVars => WalkInv'
<1> SUFFICES ASSUME WalkInv, [WalkNext]_chainVars
             PROVE  WalkInv'
  OBVIOUS
<1>1. CASE EndSingle
  BY <1>1, EmptyHanded DEF EndSingle
<1>2. CASE UNCHANGED chainVars
  <2>1. UNCHANGED <<capability, answer, degradedOnly, allowEmpty, called, selected, degraded, daily, best, trace, result>>
    BY <1>2 DEF chainVars
  <2>2. WalkTypeOK' /\ (result'.kind = "idle" => Untouched')
    BY <2>1 DEF WalkInv, WalkTypeOK, Untouched, Answers
  <2>3. \A p \in called', q \in Uncalled' : Before(p, q)'
    BY <2>1 DEF WalkInv, Uncalled, Before
  <2>4. result'.kind = "pending" =>
          /\ \A p \in Providers : trace'[p] = "none" <=> p \notin called'
          /\ capability = "quotes" => QuotesSoFar'
          /\ capability = "daily" => DailySoFar'
          /\ capability = "single" => SingleSoFar'
    BY <2>1 DEF WalkInv, QuotesSoFar, DailySoFar, SingleSoFar, IsFirst, Offers, Failed, BreaksContract
  <2>5. Done' => ChainRanked'
    <3>1. (\A c \in Requested : Ranked(c)' = Ranked(c)) /\ (Done' <=> Done) /\ (\A p \in Providers : Failed(p)' <=> Failed(p))
      BY <2>1 DEF Ranked, Offers, Failed, Done
    <3>2. Done => ChainRanked
      BY DEF WalkInv
    <3> QED
      BY <2>1, <3>1, <3>2 DEF ChainRanked, QuotesRanked, DailyBest, TraceTellsSource, UnsupportedMeansAll
  <2> QED
    BY <2>1, <2>2, <2>3, <2>4, <2>5 DEF WalkInv
<1> QED
  BY <1>1, <1>2, BeginStep, QuotesStep, EndQuotesStep, DailyStep, EndDailyStep, SingleStep DEF WalkNext

\* The inductive invariant of a walk: what it has collected is what the providers called so far would
\* be ranked as, and the providers not called yet come later.
THEOREM WalkInvariant == WalkSpec => []WalkInv
<1>1. WalkInit => WalkInv
  <2> SUFFICES ASSUME WalkInit
               PROVE  WalkInv
    OBVIOUS
  <2>1. result.kind = "idle" /\ ~Done /\ called = {} /\ Untouched
    BY DEF WalkInit, Done, Untouched
  <2>2. [kind |-> "failed"] \in Answers(capability)
    BY DEF WalkInit, Answers, Refusals
  <2>3. Nothing \in [Requested -> Nat]
    BY DEF Nothing
  <2>4. WalkTypeOK
    BY <2>2, <2>3 DEF WalkInit, WalkTypeOK, Statuses
  <2> QED
    BY <2>1, <2>4 DEF WalkInv
<1> QED
  BY <1>1, WalkStep, PTL DEF WalkSpec

\* Whatever the providers of a chain of any length answer, a walk that stops early or asks later
\* providers only for what is missing returns what the whole chain would rank first, and its trace
\* names the source (composite.py, _invoke_by_requested_code and _fetch_daily_bars_quality_aware).
THEOREM ChainIsRanked == WalkSpec => []ChainRanked
<1>1. WalkInv => ChainRanked
  <2> SUFFICES ASSUME WalkInv
               PROVE  ChainRanked
    OBVIOUS
  <2>1. ~Done => ChainRanked
    BY DEF Done, ChainRanked, QuotesRanked, DailyBest, TraceTellsSource, UnsupportedMeansAll
  <2> QED
    BY <2>1 DEF WalkInv
<1> QED
  BY <1>1, WalkInvariant, PTL

(***************************************************************************)
(* The row of a board (BoardRow).                                          *)
(***************************************************************************)

\* What the variables of a row hold.  The properties are about Row, which is computed from them, so
\* no step of a refresh matters beyond the kinds of what it stores.
RowInv ==
  /\ minute \in Instants /\ strategy \in Cfgs
  /\ saved \in [Days -> {"none", "verified", "unverified"}]
  /\ indicator # NoValue => indicator \in [asOf : Days, cfg : Cfgs]
  /\ forecast # NoValue => forecast \in [asOf : Days, cfg : Cfgs]
  /\ quote # NoValue => quote \in [t : Instants, trusted : {"yes", "no"}, complete : BOOLEAN]
  /\ provisional # NoValue => provisional \in [t : Instants, trusted : {"yes", "no"}, complete : BOOLEAN]

\* A non-empty set of days has a last one, and Max is it.
LEMMA MaxOfDays ==
  ASSUME NEW n \in Nat, NEW Q, Q \subseteq 0..n, Q # {}
  PROVE  Max(Q) \in Q /\ \A y \in Q : Max(Q) >= y
<1>1. PICK x \in Q : \A y \in Q : y <= x
  BY GreatestNumber
<1>2. \A y \in Q : x >= y
  BY <1>1
<1> QED
  BY <1>2 DEF Max

\* With an unverified tail, the qualified history ends before the first unverified bar.
LEMMA TailCutsHistory ==
  ASSUME Trailing
  PROVE  QualifiedThrough \in Days /\ \A d \in Unverified : QualifiedThrough < d
<1> DEFINE first == Min(Unverified)
           kept == {d \in StoredDays : d < first} \cup {0}
<1>1. MaxDay \in Nat
  BY RowAssumption DEF RowBounds
<1>2. Unverified \subseteq 0..MaxDay /\ StoredDays \subseteq 0..MaxDay
  BY DEF Unverified, StoredDays, Days
<1>3. Unverified # {} /\ \E d \in StoredDays : d < first
  BY DEF Trailing
<1>4. Unverified \subseteq Nat
  BY <1>1, <1>2
<1>5. first \in Unverified /\ \A d \in Unverified : first <= d
  BY <1>3, <1>4, LeastNumber
<1>6. QualifiedThrough = Max(kept)
  BY DEF QualifiedThrough
<1> HIDE DEF first
<1>7. first \in Nat /\ 0 < first
  <2>1. PICK d \in StoredDays : d < first
    BY <1>3
  <2>2. d \in 0..MaxDay /\ first \in 0..MaxDay
    BY <1>2, <1>5
  <2> QED
    BY <1>1, <2>1, <2>2
<1>8. kept \subseteq 0..MaxDay /\ kept # {}
  <2>1. 0 \in 0..MaxDay
    BY <1>1
  <2>2. \A x \in kept : x \in 0..MaxDay
    BY <1>2, <2>1
  <2>3. 0 \in kept
    OBVIOUS
  <2> QED
    BY <2>2, <2>3
<1>9. \A d \in kept : d < first
  BY <1>7
<1> HIDE DEF kept
<1>10. QualifiedThrough \in kept
  BY <1>1, <1>6, <1>8, MaxOfDays
<1>11. QualifiedThrough \in 0..MaxDay /\ QualifiedThrough < first
  BY <1>8, <1>9, <1>10
<1> QED
  <2> SUFFICES ASSUME NEW d \in Unverified
               PROVE  QualifiedThrough < d
    BY <1>11 DEF Days
  <2>1. first <= d /\ d \in 0..MaxDay
    BY <1>2, <1>5
  <2> QED
    BY <1>1, <1>7, <1>11, <2>1

\* The days up to which a saved snapshot may be used: none after the qualified history.
LEMMA UsableDay ==
  ASSUME StoredDays # {}, Blocked => Trailing
  PROVE  Usable \in Days
<1>1. MaxDay \in Nat
  BY RowAssumption DEF RowBounds
<1>2. CASE Unverified = {}
  <2>1. StoredDays \subseteq 0..MaxDay
    BY DEF StoredDays, Days
  <2>2. Usable = Max(StoredDays)
    BY <1>2 DEF Usable
  <2> QED
    BY <1>1, <2>1, <2>2, MaxOfDays DEF Days
<1>3. CASE Unverified # {}
  BY <1>3, TailCutsHistory DEF Usable, Blocked
<1> QED
  BY <1>2, <1>3

\* A snapshot a row may use rests on verified bars, unless the contract refuses the instrument outright.
LEMMA UsableSnapshot ==
  ASSUME NEW s, SnapshotUsable(s), s # NoValue => s \in [asOf : Days, cfg : Cfgs],
         Blocked => Trailing, saved \in [Days -> {"none", "verified", "unverified"}]
  PROVE  s.asOf \in Days /\ \A d \in 0..s.asOf : saved[d] # "unverified"
<1>1. MaxDay \in Nat
  BY RowAssumption DEF RowBounds
<1>2. s.asOf \in 0..MaxDay
  BY DEF SnapshotUsable, Days
<1> SUFFICES ASSUME NEW d \in 0..s.asOf, saved[d] = "unverified"
             PROVE  FALSE
  BY <1>2 DEF Days
<1>3. d \in Days
  BY <1>1, <1>2 DEF Days
<1>4. d \in Unverified
  BY <1>3 DEF Unverified
<1>5. Blocked /\ Trailing
  BY <1>4 DEF Blocked
<1>6. s.asOf <= QualifiedThrough
  BY <1>5 DEF SnapshotUsable
<1>7. QualifiedThrough < d /\ QualifiedThrough \in 0..MaxDay
  BY <1>4, <1>5, TailCutsHistory DEF Days
<1> QED
  BY <1>1, <1>2, <1>6, <1>7

\* Every step stores values of their kind.
LEMMA RowStep ==
  ASSUME RowInv, [RowNext]_rowVars
  PROVE  RowInv'
<1> USE DEF RowInv
<1>1. CASE RowTick
  <2> DEFINE later == {t \in Instants : t > minute}
  <2>1. Instants \subseteq 0..(1440 * MaxDay + 1439) /\ MaxDay \in Nat
    BY RowAssumption DEF RowBounds
  <2>2. later \subseteq Nat /\ later # {}
    <3>1. Instants \subseteq Nat
      BY <2>1
    <3>2. \A t \in later : t \in Nat
      BY <3>1
    <3>3. \E t \in Instants : t > minute
      BY <1>1 DEF RowTick
    <3>4. \E t \in Instants : t \in later
      BY <3>3
    <3> QED
      BY <3>2, <3>4
  <2>3. minute' = Min(later)
    BY <1>1 DEF RowTick
  <2>4. later \subseteq Instants
    OBVIOUS
  <2> HIDE DEF later
  <2>5. minute' \in Instants
    BY <2>2, <2>3, <2>4, LeastNumber
  <2> QED
    BY <1>1, <2>5 DEF RowTick
<1>2. CASE ComputeIndicator
  BY <1>2, UsableDay DEF ComputeIndicator, Snapshot
<1>3. CASE ComputeForecast
  BY <1>3, UsableDay DEF ComputeForecast, Snapshot
<1>4. CASE CaptureLatestQuotes
  BY <1>4 DEF CaptureLatestQuotes
<1>5. CASE ReconfigureRow
  BY <1>5 DEF ReconfigureRow
<1>6. ASSUME NEW d \in Days, NEW s \in {"verified", "unverified"}, StoreBar(d, s)
      PROVE  RowInv'
  BY <1>6 DEF StoreBar
<1>7. ASSUME NEW t \in Instants, NEW trusted \in {"yes", "no"}, NEW complete \in BOOLEAN,
             StoreQuote(t, trusted, complete)
      PROVE  RowInv'
  BY <1>7 DEF StoreQuote
<1>8. CASE UNCHANGED rowVars
  BY <1>8 DEF rowVars
<1> QED
  BY <1>1, <1>2, <1>3, <1>4, <1>5, <1>6, <1>7, <1>8 DEF RowNext

\* What is stored for a row has its kind (decision_board_service.py).
THEOREM RowInvariant == RowSpec => []RowInv
<1>1. RowInit => RowInv
  <2> SUFFICES ASSUME RowInit
               PROVE  RowInv
    OBVIOUS
  <2>1. Instants \subseteq 0..(1440 * MaxDay + 1439) /\ MaxDay \in Nat /\ Instants # {}
    BY RowAssumption DEF RowBounds
  <2>2. Instants \subseteq Nat
    BY <2>1
  <2>3. minute \in Instants
    <3>1. Instants # {}
      BY <2>1
    <3>2. Min(Instants) \in Instants
      BY <2>2, <3>1, LeastNumber
    <3> QED
      BY <3>2 DEF RowInit
  <2> QED
    BY <2>3 DEF RowInit, RowInv
<1> QED
  BY <1>1, RowStep, PTL DEF RowSpec

\* Whatever was stored again since the indicator or the forecast was computed, a row rests on verified
\* bars of its own strategy, and one called fresh on the settled session and a quote of the day
\* (decision_board_service.py, _row).
THEOREM RowsAreEarned == RowSpec => []RowEarned
<1>1. RowInv => RowEarned
  <2> SUFFICES ASSUME RowInv
               PROVE  RowEarned
    OBVIOUS
  <2> DEFINE ind == SnapshotUsable(indicator)
             display == (Blocked /\ ~Trailing) \/ ~ind
             intra == provisional # NoValue /\ ProvisionalUsed(provisional)
  <2>1. /\ Row.basis = (IF intra THEN "provisional" ELSE IF display THEN "anomaly" ELSE "persisted")
        /\ Row.asOf = (IF intra THEN DayOf(provisional.t) ELSE IF display THEN 0 ELSE indicator.asOf)
        /\ Row.fresh = (IF intra \/ display \/ (Blocked /\ Trailing) THEN "stale" ELSE Status(ind))
        /\ Row.forecast = (IF ForecastShown(display) THEN forecast.asOf ELSE -1)
    BY DEF Row
  <2>2. saved \in [Days -> {"none", "verified", "unverified"}]
    BY DEF RowInv
  <2>3. ~display => /\ ind /\ (Blocked => Trailing)
                    /\ \A d \in 0..indicator.asOf : saved[d] # "unverified"
    BY <2>2, UsableSnapshot DEF RowInv
  <2>4. ~Blocked => \A d \in Days : saved[d] # "unverified"
    BY DEF Blocked, Unverified
  <2>5. intra => ~Blocked
    BY DEF ProvisionalUsed
  <2>6. ForecastShown(display) => /\ SnapshotUsable(forecast) /\ (Blocked => Trailing)
    BY DEF ForecastShown
  <2>7. ForecastShown(display) => \A d \in 0..forecast.asOf : saved[d] # "unverified"
    BY <2>2, <2>6, UsableSnapshot DEF RowInv
  <2> HIDE DEF intra, display
  <2>8. GradeEarned
    BY <2>1, <2>3, <2>4, <2>5 DEF GradeEarned
  <2>9. ForecastEarned
    <3> SUFFICES ASSUME Row.forecast >= 0
                 PROVE  ForecastEarned
      BY DEF ForecastEarned
    <3>1. ForecastShown(display)
      BY <2>1
    <3>2. Row.forecast = forecast.asOf /\ forecast.cfg = strategy
      BY <2>1, <2>6, <3>1 DEF SnapshotUsable
    <3> QED
      BY <2>7, <3>1, <3>2 DEF ForecastEarned
  <2>10. FreshIsCurrent
    <3> SUFFICES ASSUME Row.fresh = "fresh"
                 PROVE  FreshIsCurrent
      BY DEF FreshIsCurrent
    <3>1. ~intra /\ ~display /\ ~(Blocked /\ Trailing) /\ Status(ind) = "fresh"
      BY <2>1
    <3>2. ind /\ ~Blocked
      BY <2>3, <3>1
    <3>3. indicator.cfg = strategy /\ indicator.asOf = SettledSession(minute)
      BY <3>2 DEF SnapshotUsable
    <3>4. quote # NoValue /\ InWindow(quote.t, minute) /\ quote.trusted = "yes"
      BY <3>1, <3>2 DEF Status
    <3>5. Row.basis = "persisted" /\ Row.asOf = indicator.asOf
      BY <2>1, <3>1
    <3>6. minute \in Int /\ quote.t \in Int
      <4>1. Instants \subseteq Int
        BY RowAssumption DEF RowBounds
      <4>2. minute \in Instants /\ quote \in [t : Instants, trusted : {"yes", "no"}, complete : BOOLEAN]
        BY <3>4 DEF RowInv
      <4> QED
        BY <4>1, <4>2
    <3>7. /\ quote.t <= minute /\ DayOf(quote.t) = DayOf(minute)
          /\ minute - quote.t <= 8 \/ LunchCloseQuoteFresh(quote.t, minute)
      BY <3>4 DEF InWindow
    <3>8. minute - quote.t \in 0..8 \/ (Clock(quote.t) >= 689 /\ Clock(minute) \in 700..735)
      BY <3>6, <3>7 DEF LunchCloseQuoteFresh
    <3> QED
      BY <2>4, <3>2, <3>3, <3>4, <3>5, <3>7, <3>8 DEF FreshIsCurrent
  <2> QED
    BY <2>8, <2>9, <2>10 DEF RowEarned
<1> QED
  BY <1>1, RowInvariant, PTL
=============================================================================
