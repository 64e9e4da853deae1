------------------------------ MODULE PageProofs ------------------------------
(***************************************************************************)
(* Proofs about what the page lets a user rely on: the review of a         *)
(* holdings screenshot, the published history of Chan structures a chart   *)
(* is drawn from, and that the page itself shows nobody the data of        *)
(* another account or mode.                                                *)
(*                                                                         *)
(* The inductive invariant EditorInv of the review has a part for each     *)
(* thing the page relies on: the order of the saves (SavesOK), what the    *)
(* server knows of each session (SessionsOK), what a request under way     *)
(* still means (RequestsOK), and that a candidate nothing is being saved   *)
(* of looks the same on the screen, in the page and at the server          *)
(* (ShownOK).  Those of the history, ChanInv, and of the page, PageInv,    *)
(* follow further below.                                                   *)
(***************************************************************************)
EXTENDS BrowserSession, ImportEditor, ChanRevisions, SequenceTheorems, FiniteSetTheorems, WellFoundedInduction, TLAPS

(***************************************************************************)
(* The inductive invariant.                                                *)
(***************************************************************************)

\* An entry of the save queue, a record of pendingSaveTimers, state.holdingImport with the maps of
\* saves beside it, a request, and a session at the server.
Save == Cards \X Nat
Pending == [value : Int, version : Nat, timer : BOOLEAN]
FlowSet ==
  [gen : Nat, session : Sessions \cup {0}, uploading : BOOLEAN, busy : BOOLEAN, canceling : BOOLEAN,
   cancelError : BOOLEAN, dialog : BOOLEAN, cards : [Cards -> Int], screen : [Cards -> Int],
   version : [Cards -> Nat], pend : UNION {[D -> Pending] : D \in SUBSET Cards}, errors : SUBSET Cards,
   queue : Seq(Save), queued : [Cards -> Nat], running : Save \cup {<<>>}]
Messages ==
  [kind : {"patch", "upload", "confirm", "cancel"}, gen : Nat, session : Sessions \cup {0}, card : Cards \cup {0},
   value : Int, version : Nat, answer : {"none", "ok", "failed"}]
Rows == [state : {"none", "open", "confirmed", "canceled"}, values : [Cards -> Int]]

\* Every variable has its type.
EditorTypes ==
  /\ flow \in FlowSet /\ net \subseteq Messages /\ server \in [Sessions -> Rows] /\ edits \in Nat
  /\ clicked \in [Sessions -> [Cards -> Int] \cup {<<>>}]
  /\ lateEdits \subseteq Sessions \X Cards /\ regretted \subseteq Sessions
  /\ heard \in [Sessions -> {"nothing", "confirm", "cancel"}]

\* A queued save is not older than what it saves, a correction that waits is under its timer,
\* queued or broken, and a save under way that is not the latest is followed by another or an error.
Running(w, c) == w.running # <<>> /\ w.running[1] = c
SavesOK(w) ==
  /\ \A i \in DOMAIN w.queue : LET c == w.queue[i][1] IN c \in Waiting(w) => w.queue[i][2] <= w.pend[c].version
  /\ \A i \in DOMAIN w.queue : w.queue[i][2] <= w.version[w.queue[i][1]]
  /\ \A c \in Waiting(w) : w.pend[c].version <= w.version[c] /\ (w.pend[c].version # w.version[c] => c \in w.errors)
  /\ \A c \in Waiting(w) : w.pend[c].timer \/ c \in Saving(w) \/ c \in w.errors
  /\ \A c \in Cards : Running(w, c) =>
       /\ w.running[2] <= w.version[c]
       /\ w.running[2] # w.version[c] => c \in Waiting(w) \/ c \in w.errors
       /\ c \in Waiting(w) => w.running[2] < w.pend[c].version
  /\ w.session = 0 => w.pend = [c \in {} |-> 0] /\ w.queue = <<>> /\ w.running = <<>> /\ w.errors = {} /\ w.cards = w.screen /\ w.cards = Unread

\* A session that no upload has made is untouched.
Untouched(s) ==
  /\ server[s].values = Unread /\ clicked[s] = <<>> /\ s \notin regretted /\ heard[s] = "nothing"
  /\ \A c \in Cards : <<s, c>> \notin lateEdits
SessionsOK ==
  \A s \in Sessions :
    /\ server[s].state = "none" => Untouched(s)
    /\ server[s].state = "none" => flow.session # s /\ \A r \in net : r.session # s
    /\ server[s].state = "confirmed" => \A c \in Cards : clicked[s] # <<>>
    /\ s \notin regretted /\ clicked[s] # <<>> => \A c \in Cards : <<s, c>> \in lateEdits \/ server[s].values[c] = clicked[s][c]
    /\ heard[s] = "confirm" => server[s].state = "confirmed"
    /\ heard[s] = "cancel" => server[s].state = "canceled"

\* The page still works on a session the server has not been asked to give up.
Held(s) == flow.session = s /\ ~flow.canceling /\ s \notin regretted

\* A request that is not stale is about the session under review; a correction sent after the click
\* is known to be late; an answer that says ok says what the server did.
RequestOK(r) ==
  /\ r.gen <= flow.gen
  /\ r.kind # "upload" => r.session # 0 /\ (~Stale(r) => r.session = flow.session)
  /\ r.kind = "upload" /\ ~Stale(r) => flow.session = 0
  /\ r.kind = "upload" => (r.session # 0 <=> r.answer = "ok")
  /\ r.kind = "upload" /\ r.session # 0 => Untouched(r.session) /\ flow.session # r.session
  /\ r.kind = "patch" => r.card \in Cards
  /\ r.kind = "patch" /\ ~Stale(r) => flow.running = <<r.card, r.version>>
  /\ r.kind = "patch" /\ r.session \notin regretted /\ clicked[r.session] # <<>> => <<r.session, r.card>> \in lateEdits
  /\ r.kind = "patch" /\ Held(r.session) /\ r.answer = "ok" => server[r.session].values[r.card] = r.value
  /\ r.kind = "confirm" => \A c \in Cards : clicked[r.session] # <<>>
  /\ r.kind = "confirm" /\ r.answer = "ok" => server[r.session].state = "confirmed"
  /\ r.kind = "confirm" /\ ~Stale(r) => ~flow.canceling
  /\ r.kind = "cancel" /\ r.answer = "ok" => server[r.session].state = "canceled"
  /\ r.session # 0 /\ Held(r.session) => ~Stale(r)

\* At most one correction and one upload of a generation are under way.
RequestsOK ==
  /\ \A r \in net : RequestOK(r)
  /\ \A r, q \in net : r.kind = "patch" /\ q.kind = "patch" /\ ~Stale(r) /\ ~Stale(q) => r = q
  /\ \A r, q \in net : r.kind = "upload" /\ q.kind = "upload" /\ r.gen = q.gen => r = q
  /\ \A r, q \in net : r.kind = "upload" /\ r.session # 0 /\ q.session = r.session => q = r

\* What is not being saved is saved: screen, page and server agree.
ShownOK ==
  flow.session # 0 /\ Held(flow.session) =>
    \A c \in Cards : c \notin Waiting(flow) /\ ~Running(flow, c) /\ c \notin flow.errors =>
      flow.screen[c] = flow.cards[c] /\ server[flow.session].values[c] = flow.cards[c]

\* A correction still to be saved after the click was made after it.
LateOK ==
  flow.session # 0 /\ clicked[flow.session] # <<>> =>
    \A c \in Cards : c \in Waiting(flow) \/ Running(flow, c) => <<flow.session, c>> \in lateEdits

\* While a cancellation is under way nothing is confirmed.
CancelOK == flow.canceling => flow.busy

\* The inductive invariant.
EditorInv == EditorTypes /\ SavesOK(flow) /\ SessionsOK /\ RequestsOK /\ ShownOK /\ LateOK /\ CancelOK

-----------------------------------------------------------------------------
\* What an operation on the saves leaves alone.
Steady(q, w) ==
  /\ q.gen = w.gen /\ q.session = w.session /\ q.uploading = w.uploading /\ q.busy = w.busy
  /\ q.canceling = w.canceling /\ q.cancelError = w.cancelError /\ q.dialog = w.dialog

\* The fields of a workflow have their types.
LEMMA FlowFields ==
  ASSUME NEW w \in FlowSet
  PROVE /\ w.gen \in Nat /\ w.session \in Sessions \cup {0} /\ w.uploading \in BOOLEAN /\ w.busy \in BOOLEAN
        /\ w.canceling \in BOOLEAN /\ w.cancelError \in BOOLEAN /\ w.dialog \in BOOLEAN
        /\ w.cards \in [Cards -> Int] /\ w.screen \in [Cards -> Int] /\ w.version \in [Cards -> Nat]
        /\ w.pend \in [Waiting(w) -> Pending] /\ Waiting(w) \subseteq Cards /\ w.errors \subseteq Cards
        /\ w.queue \in Seq(Save) /\ w.queued \in [Cards -> Nat] /\ w.running \in Save \cup {<<>>}
<1>1. w.pend \in UNION {[D -> Pending] : D \in SUBSET Cards} BY DEF FlowSet
<1>2. PICK D \in SUBSET Cards : w.pend \in [D -> Pending] BY <1>1
<1>3. w.pend \in [Waiting(w) -> Pending] /\ Waiting(w) \subseteq Cards BY <1>2 DEF Waiting
<1> QED BY <1>3 DEF FlowSet

\* A workflow with other saves.
Rebuilt(w, cards, screen, version, pend, errors, queue, queued, running) ==
  [w EXCEPT !.cards = cards, !.screen = screen, !.version = version, !.pend = pend, !.errors = errors,
            !.queue = queue, !.queued = queued, !.running = running]

\* The fields have their types.
Fitting(cards, screen, version, pend, errors, queue, queued, running) ==
  /\ cards \in [Cards -> Int] /\ screen \in [Cards -> Int] /\ version \in [Cards -> Nat]
  /\ DOMAIN pend \subseteq Cards /\ pend \in [DOMAIN pend -> Pending] /\ errors \subseteq Cards
  /\ queue \in Seq(Save) /\ queued \in [Cards -> Nat] /\ running \in Save \cup {<<>>}

\* Fields of their types make a workflow again, and each is read back.
LEMMA RebuiltIs ==
  ASSUME NEW w, NEW cards, NEW screen, NEW version, NEW pend, NEW errors, NEW queue, NEW queued, NEW running, NEW q,
         w \in FlowSet, Fitting(cards, screen, version, pend, errors, queue, queued, running),
         q = Rebuilt(w, cards, screen, version, pend, errors, queue, queued, running)
  PROVE /\ q \in FlowSet /\ Steady(q, w) /\ q.cards = cards /\ q.screen = screen /\ q.version = version
        /\ q.pend = pend /\ q.errors = errors /\ q.queue = queue /\ q.queued = queued /\ q.running = running
<1>1. pend \in UNION {[E -> Pending] : E \in SUBSET Cards} BY DEF Fitting
<1>2. q = [gen |-> w.gen, session |-> w.session, uploading |-> w.uploading, busy |-> w.busy, canceling |-> w.canceling,
           cancelError |-> w.cancelError, dialog |-> w.dialog, cards |-> cards, screen |-> screen, version |-> version,
           pend |-> pend, errors |-> errors, queue |-> queue, queued |-> queued, running |-> running]
  BY DEF FlowSet, Rebuilt
<1>3. q \in FlowSet BY <1>1, <1>2, FlowFields DEF FlowSet, Fitting
<1> QED BY <1>2, <1>3 DEF Steady

\* enqueueSessionPatch adds at most one save, and afterwards the candidate is being saved.
LEMMA QueueSaveIs ==
  ASSUME NEW w, NEW c, NEW v, NEW q, w \in FlowSet, c \in Cards, v \in Nat, q = QueueSave(w, c, v)
  PROVE /\ q \in FlowSet /\ Steady(q, w) /\ q.cards = w.cards /\ q.screen = w.screen /\ q.version = w.version
        /\ q.pend = w.pend /\ q.errors = w.errors /\ q.running = w.running
        /\ q.queue = w.queue \/ q.queue = Append(w.queue, <<c, v>>)
        /\ c \in Saving(q) /\ Saving(w) \subseteq Saving(q)
<1>1. CASE q = w /\ c \in Saving(w) BY <1>1 DEF Steady
<1>2. CASE q = [w EXCEPT !.queue = Append(@, <<c, v>>), !.queued[c] = v]
  <2> DEFINE queue == Append(w.queue, <<c, v>>)
             queued == [w.queued EXCEPT ![c] = v]
  <2>1. queue \in Seq(Save) /\ queued \in [Cards -> Nat] BY FlowFields DEF Save
  <2>2. q = Rebuilt(w, w.cards, w.screen, w.version, w.pend, w.errors, queue, queued, w.running)
    BY <1>2 DEF FlowSet, Rebuilt
  <2> HIDE DEF queue, queued
  <2>3. /\ q \in FlowSet /\ Steady(q, w) /\ q.cards = w.cards /\ q.screen = w.screen /\ q.version = w.version
        /\ q.pend = w.pend /\ q.errors = w.errors /\ q.queue = queue /\ q.running = w.running
    <3>1. Fitting(w.cards, w.screen, w.version, w.pend, w.errors, queue, queued, w.running)
      BY <2>1, FlowFields DEF Fitting, Waiting
    <3> QED BY <2>2, <3>1, RebuiltIs
  <2>4. w.queue \in Seq(Save) /\ <<c, v>> \in Save BY FlowFields DEF Save
  <2>5. /\ DOMAIN q.queue = 1 .. Len(w.queue) + 1 /\ DOMAIN w.queue = 1 .. Len(w.queue) /\ Len(w.queue) \in Nat
        /\ q.queue[Len(w.queue) + 1] = <<c, v>>
        /\ \A i \in DOMAIN w.queue : q.queue[i] = w.queue[i]
    BY <2>3, <2>4 DEF queue
  <2>6. c \in Saving(q)
    <3>1. Len(w.queue) + 1 \in DOMAIN q.queue /\ q.queue[Len(w.queue) + 1][1] = c BY <2>5
    <3> QED BY <3>1 DEF Saving
  <2>7. ASSUME NEW d \in Saving(w) PROVE d \in Saving(q)
    <3>1. CASE \E i \in DOMAIN w.queue : d = w.queue[i][1]
      <4>1. PICK i \in DOMAIN w.queue : d = w.queue[i][1] BY <3>1
      <4>2. i \in DOMAIN q.queue /\ d = q.queue[i][1] BY <2>5, <4>1
      <4> QED BY <4>2 DEF Saving
    <3>2. CASE w.running # <<>> /\ d = w.running[1] BY <2>3, <3>2 DEF Saving
    <3> QED BY <3>1, <3>2 DEF Saving
  <2>8. q.queue = Append(w.queue, <<c, v>>) BY <2>3 DEF queue
  <2> QED BY <2>3, <2>6, <2>7, <2>8
<1>3. (q = w /\ c \in Saving(w)) \/ q = [w EXCEPT !.queue = Append(@, <<c, v>>), !.queued[c] = v] BY DEF QueueSave
<1> QED BY <1>1, <1>2, <1>3

\* SavesOK without the clause about the corrections that wait, and that clause but for one of them.
Ordered(w) ==
  /\ \A i \in DOMAIN w.queue : LET c == w.queue[i][1] IN c \in Waiting(w) => w.queue[i][2] <= w.pend[c].version
  /\ \A i \in DOMAIN w.queue : w.queue[i][2] <= w.version[w.queue[i][1]]
  /\ \A c \in Waiting(w) : w.pend[c].version <= w.version[c] /\ (w.pend[c].version # w.version[c] => c \in w.errors)
  /\ \A c \in Cards : Running(w, c) =>
       /\ w.running[2] <= w.version[c]
       /\ w.running[2] # w.version[c] => c \in Waiting(w) \/ c \in w.errors
       /\ c \in Waiting(w) => w.running[2] < w.pend[c].version
  /\ w.session = 0 => w.pend = [c \in {} |-> 0] /\ w.queue = <<>> /\ w.running = <<>> /\ w.errors = {} /\ w.cards = w.screen /\ w.cards = Unread
Covered(w, d) == w.pend[d].timer \/ d \in Saving(w) \/ d \in w.errors

\* SavesOK is the order of the saves, and that every correction that waits is covered.
LEMMA SavesSplit ==
  ASSUME NEW w PROVE SavesOK(w) <=> Ordered(w) /\ \A d \in Waiting(w) : Covered(w, d)
BY DEF SavesOK, Ordered, Covered

\* Queueing the latest correction of a candidate keeps the order and covers it.
LEMMA QueueSaveKeeps ==
  ASSUME NEW w \in FlowSet, Ordered(w), NEW c \in Waiting(w), NEW v, v = w.pend[c].version,
         \A d \in Waiting(w) \ {c} : Covered(w, d), NEW q, q = QueueSave(w, c, v)
  PROVE SavesOK(q)
<1>1. c \in Cards /\ v \in Nat /\ v <= w.version[c] BY FlowFields DEF Pending, Ordered
<1>2. /\ q \in FlowSet /\ Steady(q, w) /\ q.cards = w.cards /\ q.screen = w.screen /\ q.version = w.version
      /\ q.pend = w.pend /\ q.errors = w.errors /\ q.running = w.running
      /\ q.queue = w.queue \/ q.queue = Append(w.queue, <<c, v>>)
      /\ c \in Saving(q) /\ Saving(w) \subseteq Saving(q)
  <2>1. c \in Cards /\ v \in Nat BY <1>1
  <2> QED BY <2>1, QueueSaveIs
<1>3. Waiting(q) = Waiting(w) BY <1>2 DEF Waiting
<1>4. \A d \in Waiting(q) : Covered(q, d) BY <1>2, <1>3 DEF Covered
<1>5. ASSUME NEW i \in DOMAIN q.queue
      PROVE (i \in DOMAIN w.queue /\ q.queue[i] = w.queue[i]) \/ q.queue[i] = <<c, v>>
  <2>1. CASE q.queue = w.queue BY <2>1
  <2>2. CASE q.queue = Append(w.queue, <<c, v>>)
    <3>1. w.queue \in Seq(Save) /\ <<c, v>> \in Save BY <1>1, FlowFields DEF Save
    <3> QED BY <2>2, <3>1
  <2> QED BY <1>2, <2>1, <2>2
<1>6. Ordered(q)
  <2>1. ASSUME NEW i \in DOMAIN q.queue
        PROVE /\ q.queue[i][1] \in Waiting(q) => q.queue[i][2] <= q.pend[q.queue[i][1]].version
              /\ q.queue[i][2] <= q.version[q.queue[i][1]]
    <3>1. CASE i \in DOMAIN w.queue /\ q.queue[i] = w.queue[i] BY <1>2, <1>3, <3>1 DEF Ordered
    <3>2. CASE q.queue[i] = <<c, v>>
      <4>1. q.queue[i][1] = c /\ q.queue[i][2] = v BY <3>2
      <4> QED BY <1>1, <1>2, <4>1
    <3> QED BY <1>5, <3>1, <3>2
  <2>3. \A d \in Waiting(q) : q.pend[d].version <= q.version[d] /\ (q.pend[d].version # q.version[d] => d \in q.errors)
    BY <1>2, <1>3 DEF Ordered
  <2>4. \A d \in Cards : Running(q, d) =>
          /\ q.running[2] <= q.version[d]
          /\ q.running[2] # q.version[d] => d \in Waiting(q) \/ d \in q.errors
          /\ d \in Waiting(q) => q.running[2] < q.pend[d].version
    BY <1>2, <1>3 DEF Ordered, Running
  <2>5. q.session # 0
    <3>1. ASSUME w.session = 0 PROVE FALSE BY <3>1 DEF Ordered, Waiting
    <3> QED BY <1>2, <3>1 DEF Steady
  <2> QED BY <2>1, <2>3, <2>4, <2>5 DEF Ordered
<1> QED BY <1>4, <1>6, SavesSplit

\* What a correction of a candidate does to a workflow, before its save is queued.
Amended(q, w, c) ==
  /\ q \in FlowSet /\ Steady(q, w) /\ q.cards = w.cards /\ q.queue = w.queue /\ q.running = w.running
  /\ q.version[c] = w.version[c] + 1
  /\ \A d \in Cards \ {c} :
       /\ q.version[d] = w.version[d] /\ q.screen[d] = w.screen[d]
       /\ d \in q.errors <=> d \in w.errors
       /\ d \in Waiting(q) <=> d \in Waiting(w)
       /\ d \in Waiting(w) => q.pend[d] = w.pend[d]
  /\ \/ c \in Waiting(q) /\ q.pend[c].version = q.version[c]
     \/ /\ c \in q.errors /\ (c \in Waiting(q) <=> c \in Waiting(w))
        /\ c \in Waiting(w) => q.pend[c].version = w.pend[c].version

\* A correction keeps the order of versions and disturbs no other candidate.
LEMMA AmendedKeeps ==
  ASSUME NEW w, NEW q, NEW c, w \in FlowSet, SavesOK(w), w.session # 0, c \in Cards, Amended(q, w, c)
  PROVE Ordered(q) /\ \A d \in Waiting(q) \ {c} : Covered(q, d)
<1>1. Ordered(w) /\ \A d \in Waiting(w) : Covered(w, d) BY SavesSplit
<1>2. /\ q \in FlowSet /\ q.session # 0 /\ q.queue = w.queue /\ q.running = w.running
      /\ q.version[c] = w.version[c] + 1 /\ w.version[c] \in Nat
      /\ Waiting(q) \subseteq Cards /\ Waiting(w) \subseteq Cards
  BY FlowFields DEF Amended, Steady
<1>3. \A d \in Cards \ {c} :
       /\ q.version[d] = w.version[d]
       /\ d \in q.errors <=> d \in w.errors
       /\ d \in Waiting(q) <=> d \in Waiting(w)
       /\ d \in Waiting(w) => q.pend[d] = w.pend[d]
  BY DEF Amended
<1>4. \/ c \in Waiting(q) /\ q.pend[c].version = q.version[c]
      \/ /\ c \in q.errors /\ (c \in Waiting(q) <=> c \in Waiting(w))
         /\ c \in Waiting(w) => q.pend[c].version = w.pend[c].version
  BY DEF Amended
<1>5. \A d \in Waiting(q) \ {c} : Covered(q, d)
  <2>1. Saving(q) = Saving(w) BY <1>2 DEF Saving
  <2> QED BY <1>1, <1>2, <1>3, <2>1 DEF Covered
<1>6. ASSUME NEW i \in DOMAIN q.queue
      PROVE /\ q.queue[i][1] \in Waiting(q) => q.queue[i][2] <= q.pend[q.queue[i][1]].version
            /\ q.queue[i][2] <= q.version[q.queue[i][1]]
  <2>1. w.queue[i] \in Save /\ i \in DOMAIN w.queue BY <1>2, FlowFields, ElementOfSeq
  <2>2. PICK d \in Cards, v \in Nat : w.queue[i][1] = d /\ w.queue[i][2] = v BY <2>1 DEF Save
  <2>3. v <= w.version[d] /\ (d \in Waiting(w) => v <= w.pend[d].version) BY <1>1, <2>1, <2>2 DEF Ordered
  <2>4. CASE d # c BY <1>2, <1>3, <2>2, <2>3, <2>4
  <2>5. CASE d = c
    <3>1. v <= w.version[c] + 1 BY <1>2, <2>3, <2>5
    <3> QED BY <1>2, <1>4, <2>2, <2>3, <2>5, <3>1
  <2> QED BY <2>4, <2>5
<1>7. ASSUME NEW d \in Waiting(q)
      PROVE q.pend[d].version <= q.version[d] /\ (q.pend[d].version # q.version[d] => d \in q.errors)
  <2>1. CASE d # c BY <1>1, <1>2, <1>3, <2>1 DEF Ordered
  <2>2. CASE d = c
    <3>1. CASE q.pend[c].version = q.version[c]
      <4>1. q.pend[c].version \in Nat BY <1>2, <3>1
      <4> QED BY <2>2, <3>1, <4>1
    <3>2. CASE c \in q.errors /\ c \in Waiting(w) /\ q.pend[c].version = w.pend[c].version
      <4>1. w.pend[c].version <= w.version[c] /\ w.pend[c].version \in Nat
        BY <1>1, <3>2, FlowFields DEF Ordered, Pending
      <4> QED BY <1>2, <2>2, <3>2, <4>1
    <3> QED BY <1>4, <2>2, <3>1, <3>2
  <2> QED BY <2>1, <2>2
<1>8. ASSUME NEW d \in Cards, Running(q, d)
      PROVE /\ q.running[2] <= q.version[d]
            /\ q.running[2] # q.version[d] => d \in Waiting(q) \/ d \in q.errors
            /\ d \in Waiting(q) => q.running[2] < q.pend[d].version
  <2>1. Running(w, d) BY <1>2, <1>8 DEF Running
  <2>2. q.running[2] = w.running[2] /\ w.running[2] \in Nat BY <1>2, <2>1, FlowFields DEF Running, Save
  <2>3. /\ w.running[2] <= w.version[d]
        /\ w.running[2] # w.version[d] => d \in Waiting(w) \/ d \in w.errors
        /\ d \in Waiting(w) => w.running[2] < w.pend[d].version
    BY <1>1, <2>1 DEF Ordered
  <2>4. CASE d # c BY <1>2, <1>3, <2>2, <2>3, <2>4
  <2>5. CASE d = c
    <3>1. w.running[2] <= w.version[c] + 1 /\ w.running[2] < w.version[c] + 1 BY <1>2, <2>2, <2>3, <2>5
    <3> QED BY <1>2, <1>4, <2>2, <2>3, <2>5, <3>1
  <2> QED BY <2>4, <2>5
<1>9. Ordered(q) BY <1>2, <1>6, <1>7, <1>8 DEF Ordered
<1> QED BY <1>5, <1>9

\* scheduleImportCandidateSave and the map of waiting corrections.
LEMMA WithPendIs ==
  ASSUME NEW w, NEW c, NEW value, NEW timer, NEW q, w \in FlowSet, c \in Cards, value \in Int, timer \in BOOLEAN,
         q = WithPend(w, c, value, timer)
  PROVE /\ q \in FlowSet /\ Steady(q, w) /\ q.cards = w.cards /\ q.screen = w.screen /\ q.version = w.version
        /\ q.errors = w.errors /\ q.queue = w.queue /\ q.running = w.running
        /\ Waiting(q) = Waiting(w) \cup {c} /\ q.pend[c] = [value |-> value, version |-> w.version[c], timer |-> timer]
        /\ \A d \in Waiting(w) \ {c} : q.pend[d] = w.pend[d]
<1> DEFINE new == [value |-> value, version |-> w.version[c], timer |-> timer]
           pend == [x \in Waiting(w) \cup {c} |-> IF x = c THEN new ELSE w.pend[x]]
<1>1. /\ w.pend \in [Waiting(w) -> Pending] /\ Waiting(w) \subseteq Cards /\ w.version[c] \in Nat BY FlowFields
<1>2. new \in Pending BY <1>1 DEF Pending
<1>3. DOMAIN pend = Waiting(w) \cup {c} /\ pend \in [DOMAIN pend -> Pending] BY <1>1, <1>2
<1>4. q = Rebuilt(w, w.cards, w.screen, w.version, pend, w.errors, w.queue, w.queued, w.running)
  BY DEF FlowSet, Rebuilt, WithPend, Waiting
<1>5. pend[c] = new /\ \A d \in Waiting(w) \ {c} : pend[d] = w.pend[d] OBVIOUS
<1> HIDE DEF pend
<1>6. Fitting(w.cards, w.screen, w.version, pend, w.errors, w.queue, w.queued, w.running)
  BY <1>1, <1>3, FlowFields DEF Fitting
<1>7. /\ q \in FlowSet /\ Steady(q, w) /\ q.cards = w.cards /\ q.screen = w.screen /\ q.version = w.version
      /\ q.pend = pend /\ q.errors = w.errors /\ q.queue = w.queue /\ q.running = w.running
  BY <1>4, <1>6, RebuiltIs
<1>8. Waiting(q) = Waiting(w) \cup {c} BY <1>3, <1>7 DEF Waiting
<1> QED BY <1>5, <1>7, <1>8

\* The first assignments of a correction.
LEMMA BumpedIs ==
  ASSUME NEW w, NEW c, NEW value, NEW q, w \in FlowSet, c \in Cards, value \in Int,
         q = Bumped(w, c, value)
  PROVE /\ q \in FlowSet /\ Steady(q, w) /\ q.cards = w.cards /\ q.pend = w.pend /\ q.queue = w.queue
        /\ q.running = w.running /\ q.errors = w.errors \ {c} /\ q.version[c] = w.version[c] + 1 /\ q.screen[c] = value
        /\ \A d \in Cards \ {c} : q.version[d] = w.version[d] /\ q.screen[d] = w.screen[d]
<1> DEFINE version == [w.version EXCEPT ![c] = w.version[c] + 1]
           screen == [w.screen EXCEPT ![c] = value]
           errors == w.errors \ {c}
<1>1. version \in [Cards -> Nat] /\ screen \in [Cards -> Int] /\ errors \subseteq Cards BY FlowFields
<1>2. version[c] = w.version[c] + 1 /\ screen[c] = value BY FlowFields
<1>3. \A d \in Cards \ {c} : version[d] = w.version[d] /\ screen[d] = w.screen[d] BY FlowFields
<1>4. q = Rebuilt(w, w.cards, screen, version, w.pend, errors, w.queue, w.queued, w.running)
  BY DEF FlowSet, Rebuilt, Bumped
<1> HIDE DEF version, screen, errors
<1>5. Fitting(w.cards, screen, version, w.pend, errors, w.queue, w.queued, w.running)
  BY <1>1, FlowFields DEF Fitting, Waiting
<1>6. /\ q \in FlowSet /\ Steady(q, w) /\ q.cards = w.cards /\ q.pend = w.pend /\ q.queue = w.queue
      /\ q.running = w.running /\ q.errors = errors /\ q.version = version /\ q.screen = screen
  BY <1>4, <1>5, RebuiltIs
<1> QED BY <1>2, <1>3, <1>6 DEF errors

\* The corrections of the other candidates wait as before.
OthersWait(q, w, c) == \A d \in Waiting(w) \ {c} : q.pend[d] = w.pend[d]

\* clearTimeout of a correction that waits.
LEMMA StoppedIs ==
  ASSUME NEW w, NEW c, NEW q, w \in FlowSet, c \in Waiting(w), q = Stopped(w, c)
  PROVE /\ q \in FlowSet /\ Steady(q, w) /\ q.cards = w.cards /\ q.screen = w.screen /\ q.version = w.version
        /\ q.errors = w.errors /\ q.queue = w.queue /\ q.running = w.running
        /\ Waiting(q) = Waiting(w) /\ q.pend[c].version = w.pend[c].version
        /\ OthersWait(q, w, c)
<1> DEFINE pend == [w.pend EXCEPT ![c] = [w.pend[c] EXCEPT !.timer = FALSE]]
<1>1. w.pend \in [Waiting(w) -> Pending] /\ Waiting(w) \subseteq Cards /\ w.pend[c] \in Pending BY FlowFields
<1>2. [w.pend[c] EXCEPT !.timer = FALSE] \in Pending /\ [w.pend[c] EXCEPT !.timer = FALSE].version = w.pend[c].version
  BY <1>1 DEF Pending
<1>3. DOMAIN pend = Waiting(w) /\ pend \in [DOMAIN pend -> Pending] /\ pend[c].version = w.pend[c].version
  BY <1>1, <1>2
<1>4. \A d \in Waiting(w) \ {c} : pend[d] = w.pend[d] BY <1>1
<1>5. q = Rebuilt(w, w.cards, w.screen, w.version, pend, w.errors, w.queue, w.queued, w.running)
  BY DEF FlowSet, Rebuilt, Stopped
<1> HIDE DEF pend
<1>6. Fitting(w.cards, w.screen, w.version, pend, w.errors, w.queue, w.queued, w.running)
  BY <1>1, <1>3, FlowFields DEF Fitting
<1>7. /\ q \in FlowSet /\ Steady(q, w) /\ q.cards = w.cards /\ q.screen = w.screen /\ q.version = w.version
      /\ q.pend = pend /\ q.errors = w.errors /\ q.queue = w.queue /\ q.running = w.running
  BY <1>5, <1>6, RebuiltIs
<1>8. Waiting(q) = Waiting(w) BY <1>3, <1>7 DEF Waiting
<1> QED BY <1>3, <1>4, <1>7, <1>8 DEF OthersWait

\* A field marked as broken.
LEMMA MarkedIs ==
  ASSUME NEW w, NEW c, NEW q, w \in FlowSet, c \in Cards, q = Marked(w, c)
  PROVE /\ q \in FlowSet /\ Steady(q, w) /\ q.cards = w.cards /\ q.screen = w.screen /\ q.version = w.version
        /\ q.pend = w.pend /\ q.errors = w.errors \cup {c} /\ q.queue = w.queue /\ q.running = w.running
<1> DEFINE errors == w.errors \cup {c}
<1>1. errors \subseteq Cards BY FlowFields
<1>2. q = Rebuilt(w, w.cards, w.screen, w.version, w.pend, errors, w.queue, w.queued, w.running)
  BY DEF FlowSet, Rebuilt, Marked
<1> HIDE DEF errors
<1>3. Fitting(w.cards, w.screen, w.version, w.pend, errors, w.queue, w.queued, w.running)
  BY <1>1, FlowFields DEF Fitting, Waiting
<1>4. /\ q \in FlowSet /\ Steady(q, w) /\ q.cards = w.cards /\ q.screen = w.screen /\ q.version = w.version
      /\ q.pend = w.pend /\ q.errors = errors /\ q.queue = w.queue /\ q.running = w.running
  BY <1>2, <1>3, RebuiltIs
<1> QED BY <1>4 DEF errors

\* The effect of a correction on everything but the saves' order.
Edited(q, w, c) ==
  /\ q \in FlowSet /\ Steady(q, w) /\ q.cards = w.cards /\ q.running = w.running
  /\ \A d \in Cards \ {c} : /\ q.screen[d] = w.screen[d]
                            /\ d \in q.errors <=> d \in w.errors
                            /\ d \in Waiting(q) <=> d \in Waiting(w)
  /\ c \in Waiting(q) \/ c \in q.errors

\* A correction that keeps the order of the saves is one that disturbs no other candidate.
LEMMA AmendedIsEdited ==
  ASSUME NEW q, NEW w, NEW c, Amended(q, w, c) PROVE Edited(q, w, c)
BY DEF Amended, Edited

\* scheduleImportCandidateSave: the new version waits under its timer, or the field is marked.
LEMMA ScheduledIs ==
  ASSUME NEW c, NEW value, NEW q, flow \in FlowSet, SavesOK(flow), flow.session # 0, c \in Cards, value \in Int,
         q = Scheduled(c, value)
  PROVE SavesOK(q) /\ Edited(q, flow, c)
<1>2. PICK w : w = Bumped(flow, c, value) OBVIOUS
<1>3. PICK p : p = IF c \in Waiting(w) THEN Stopped(w, c) ELSE w OBVIOUS
<1>5. /\ w \in FlowSet /\ Steady(w, flow) /\ w.cards = flow.cards /\ w.pend = flow.pend /\ w.queue = flow.queue
      /\ w.running = flow.running /\ w.errors = flow.errors \ {c} /\ w.version[c] = flow.version[c] + 1 /\ w.screen[c] = value
      /\ \A d \in Cards \ {c} : w.version[d] = flow.version[d] /\ w.screen[d] = flow.screen[d]
  BY <1>2, BumpedIs
<1>6. Waiting(w) = Waiting(flow) BY <1>5 DEF Waiting
<1>7. /\ p \in FlowSet /\ Steady(p, w) /\ p.cards = w.cards /\ p.screen = w.screen /\ p.version = w.version
      /\ p.errors = w.errors /\ p.queue = w.queue /\ p.running = w.running
      /\ Waiting(p) = Waiting(w) /\ (c \in Waiting(w) => p.pend[c].version = w.pend[c].version)
      /\ \A d \in Waiting(w) \ {c} : p.pend[d] = w.pend[d]
  <2>1. CASE c \in Waiting(w)
    <3>1. p = Stopped(w, c) /\ w \in FlowSet BY <1>3, <1>5, <2>1
    <3>2. /\ p \in FlowSet /\ Steady(p, w) /\ p.cards = w.cards /\ p.screen = w.screen /\ p.version = w.version
          /\ p.errors = w.errors /\ p.queue = w.queue /\ p.running = w.running
          /\ Waiting(p) = Waiting(w) /\ p.pend[c].version = w.pend[c].version
          /\ OthersWait(p, w, c)
      BY <2>1, <3>1, StoppedIs
    <3> QED BY <3>2 DEF OthersWait
  <2>2. CASE c \notin Waiting(w) BY <1>3, <1>5, <2>2 DEF Steady
  <2> QED BY <2>1, <2>2
<1>8. q = IF value = Broken THEN Marked(p, c) ELSE WithPend(p, c, value, TRUE)
  BY <1>2, <1>3 DEF Scheduled
<1>9. /\ Amended(q, flow, c)
      /\ c \in Waiting(q) => q.pend[c].timer \/ c \in q.errors
  <2>1. CASE value = Broken
    <3>1. q = Marked(p, c) BY <1>8, <2>1
    <3>2. /\ q \in FlowSet /\ Steady(q, p) /\ q.cards = p.cards /\ q.screen = p.screen /\ q.version = p.version
          /\ q.pend = p.pend /\ q.errors = p.errors \cup {c} /\ q.queue = p.queue /\ q.running = p.running
      BY <1>7, <3>1, MarkedIs
    <3>3. Waiting(q) = Waiting(p) BY <3>2 DEF Waiting
    <3>4. Steady(q, flow) BY <1>5, <1>7, <3>2 DEF Steady
    <3>5. \A d \in Waiting(flow) : w.pend[d] = flow.pend[d] BY <1>5
    <3>6. /\ q.version[c] = flow.version[c] + 1 /\ q.cards = flow.cards /\ q.queue = flow.queue /\ q.running = flow.running
      BY <1>5, <1>7, <3>2
    <3>7. ASSUME NEW d \in Cards \ {c}
          PROVE /\ q.version[d] = flow.version[d] /\ q.screen[d] = flow.screen[d]
                /\ d \in q.errors <=> d \in flow.errors
                /\ d \in Waiting(q) <=> d \in Waiting(flow)
                /\ d \in Waiting(flow) => q.pend[d] = flow.pend[d]
      BY <1>5, <1>6, <1>7, <3>2, <3>3, <3>5
    <3>8. /\ c \in q.errors /\ (c \in Waiting(q) <=> c \in Waiting(flow))
          /\ c \in Waiting(flow) => q.pend[c].version = flow.pend[c].version
      BY <1>6, <1>7, <3>2, <3>3, <3>5
    <3> QED BY <3>2, <3>4, <3>6, <3>7, <3>8 DEF Amended
  <2>2. CASE value # Broken
    <3> DEFINE on == TRUE
    <3>1. q = WithPend(p, c, value, on) /\ on \in BOOLEAN BY <1>8, <2>2
    <3> HIDE DEF on
    <3>2. /\ q \in FlowSet /\ Steady(q, p) /\ q.cards = p.cards /\ q.screen = p.screen /\ q.version = p.version
          /\ q.errors = p.errors /\ q.queue = p.queue /\ q.running = p.running
          /\ Waiting(q) = Waiting(p) \cup {c} /\ q.pend[c] = [value |-> value, version |-> p.version[c], timer |-> on]
          /\ \A d \in Waiting(p) \ {c} : q.pend[d] = p.pend[d]
      BY <1>7, <3>1, WithPendIs
    <3>4. Steady(q, flow) BY <1>5, <1>7, <3>2 DEF Steady
    <3>5. \A d \in Waiting(flow) : w.pend[d] = flow.pend[d] BY <1>5
    <3>6. /\ q.version[c] = flow.version[c] + 1 /\ q.cards = flow.cards /\ q.queue = flow.queue /\ q.running = flow.running
      BY <1>5, <1>7, <3>2
    <3>7. ASSUME NEW d \in Cards \ {c}
          PROVE /\ q.version[d] = flow.version[d] /\ q.screen[d] = flow.screen[d]
                /\ d \in q.errors <=> d \in flow.errors
                /\ d \in Waiting(q) <=> d \in Waiting(flow)
                /\ d \in Waiting(flow) => q.pend[d] = flow.pend[d]
      BY <1>5, <1>6, <1>7, <3>2, <3>5
    <3>8. c \in Waiting(q) /\ q.pend[c].version = q.version[c] /\ q.pend[c].timer BY <3>2 DEF on
    <3> QED BY <3>2, <3>4, <3>6, <3>7, <3>8 DEF Amended
  <2> QED BY <2>1, <2>2
<1>10. Ordered(q) /\ \A d \in Waiting(q) \ {c} : Covered(q, d) BY <1>9, AmendedKeeps
<1>11. c \in Waiting(q) => Covered(q, c) BY <1>9 DEF Covered
<1> QED BY <1>9, <1>10, <1>11, SavesSplit, AmendedIsEdited

\* queueImportCandidateSave of a rejection: the new version waits and is queued at once.
LEMMA RejectedIs ==
  ASSUME NEW c, NEW q, flow \in FlowSet, SavesOK(flow), flow.session # 0, c \in Cards, q = RejectedAtOnce(c)
  PROVE SavesOK(q) /\ Edited(q, flow, c)
<1> DEFINE off == FALSE
<1>2. PICK w : w = Bumped(flow, c, Rejected) OBVIOUS
<1>3. PICK p : p = WithPend(w, c, Rejected, off) OBVIOUS
<1>1. q = QueueSave(p, c, w.version[c]) BY <1>2, <1>3 DEF RejectedAtOnce
<1>4. Rejected \in Int /\ off \in BOOLEAN BY DEF Rejected
<1> HIDE DEF off
<1>5. /\ w \in FlowSet /\ Steady(w, flow) /\ w.cards = flow.cards /\ w.pend = flow.pend /\ w.queue = flow.queue
      /\ w.running = flow.running /\ w.errors = flow.errors \ {c} /\ w.version[c] = flow.version[c] + 1 /\ w.screen[c] = Rejected
      /\ \A d \in Cards \ {c} : w.version[d] = flow.version[d] /\ w.screen[d] = flow.screen[d]
  BY <1>2, <1>4, BumpedIs
<1>6. Waiting(w) = Waiting(flow) BY <1>5 DEF Waiting
<1>7. /\ p \in FlowSet /\ Steady(p, w) /\ p.cards = w.cards /\ p.screen = w.screen /\ p.version = w.version
      /\ p.errors = w.errors /\ p.queue = w.queue /\ p.running = w.running
      /\ Waiting(p) = Waiting(w) \cup {c} /\ p.pend[c] = [value |-> Rejected, version |-> w.version[c], timer |-> off]
      /\ \A d \in Waiting(w) \ {c} : p.pend[d] = w.pend[d]
  BY <1>3, <1>4, <1>5, WithPendIs
<1>8. q = QueueSave(p, c, p.pend[c].version)
  <2>1. p.pend[c].version = w.version[c] BY <1>7
  <2> QED BY <1>1, <2>1
<1>9. Amended(p, flow, c)
  <2>1. Steady(p, flow) BY <1>5, <1>7 DEF Steady
  <2>2. \A d \in Waiting(flow) : w.pend[d] = flow.pend[d] BY <1>5
  <2>3. p.version[c] = flow.version[c] + 1 /\ p.cards = flow.cards /\ p.queue = flow.queue /\ p.running = flow.running
    BY <1>5, <1>7
  <2>4. ASSUME NEW d \in Cards \ {c}
        PROVE /\ p.version[d] = flow.version[d] /\ p.screen[d] = flow.screen[d]
              /\ d \in p.errors <=> d \in flow.errors
              /\ d \in Waiting(p) <=> d \in Waiting(flow)
              /\ d \in Waiting(flow) => p.pend[d] = flow.pend[d]
    BY <1>5, <1>6, <1>7, <2>2
  <2>5. c \in Waiting(p) /\ p.pend[c].version = p.version[c] BY <1>7
  <2> QED BY <1>7, <2>1, <2>3, <2>4, <2>5 DEF Amended
<1>10. Ordered(p) /\ \A d \in Waiting(p) \ {c} : Covered(p, d) BY <1>9, AmendedKeeps
<1>11. c \in Waiting(p) /\ p.pend[c].version \in Nat
  <2>1. p.pend[c].version = w.version[c] BY <1>7
  <2>2. w.version[c] \in Nat BY <1>5, FlowFields
  <2> QED BY <1>7, <2>1, <2>2
<1>12. SavesOK(q) BY <1>7, <1>8, <1>10, <1>11, QueueSaveKeeps
<1>13. /\ q \in FlowSet /\ Steady(q, p) /\ q.cards = p.cards /\ q.screen = p.screen /\ q.version = p.version
       /\ q.pend = p.pend /\ q.errors = p.errors /\ q.running = p.running
  BY <1>7, <1>8, <1>11, QueueSaveIs
<1>14. Edited(q, flow, c)
  <2>1. Waiting(q) = Waiting(p) BY <1>13 DEF Waiting
  <2>2. Steady(q, flow) BY <1>9, <1>13 DEF Steady, Amended
  <2> QED BY <1>9, <1>11, <1>13, <2>1, <2>2 DEF Edited, Amended
<1> QED BY <1>12, <1>14

-----------------------------------------------------------------------------
\* Requests and sessions, when the page works on the same session and at most one save is sent.
LEMMA PatchStep ==
  ASSUME NEW sent, EditorInv, net' \subseteq net \cup sent,
         \A p \in sent : /\ p.kind = "patch" /\ p.session = flow.session /\ flow.session # 0 /\ RequestOK(p)'
                        /\ \A r \in net : r.kind = "patch" => Stale(r),
         \A p \in sent : \A q \in sent : q = p,
         flow'.gen = flow.gen, flow'.session = flow.session,
         flow'.canceling = flow.canceling, server' = server, clicked' = clicked, regretted' = regretted, heard' = heard,
         lateEdits \subseteq lateEdits', \A s \in Sessions, c \in Cards : <<s, c>> \in lateEdits' => <<s, c>> \in lateEdits \/ s = flow.session,
         \A r \in net : r \in net' /\ r.kind = "patch" /\ ~Stale(r) => flow'.running = flow.running
  PROVE SessionsOK' /\ RequestsOK'
<1>1. EditorTypes /\ SessionsOK /\ RequestsOK BY DEF EditorInv
<1>2. ASSUME NEW s \in Sessions, s # flow.session, Untouched(s) PROVE Untouched(s)' BY <1>2 DEF Untouched
<1>3. SessionsOK'
  <2> SUFFICES ASSUME NEW s \in Sessions
               PROVE /\ server[s].state = "none" => Untouched(s)'
                     /\ server[s].state = "none" => flow'.session # s /\ \A r \in net' : r.session # s
                     /\ server[s].state = "confirmed" => \A c \in Cards : clicked[s] # <<>>
                     /\ s \notin regretted /\ clicked[s] # <<>> => \A c \in Cards : <<s, c>> \in lateEdits' \/ server[s].values[c] = clicked[s][c]
                     /\ heard[s] = "confirm" => server[s].state = "confirmed"
                     /\ heard[s] = "cancel" => server[s].state = "canceled"
    BY DEF SessionsOK
  <2>1. /\ server[s].state = "none" => Untouched(s)
        /\ server[s].state = "none" => flow.session # s /\ \A r \in net : r.session # s
        /\ server[s].state = "confirmed" => \A c \in Cards : clicked[s] # <<>>
        /\ s \notin regretted /\ clicked[s] # <<>> => \A c \in Cards : <<s, c>> \in lateEdits \/ server[s].values[c] = clicked[s][c]
        /\ heard[s] = "confirm" => server[s].state = "confirmed"
        /\ heard[s] = "cancel" => server[s].state = "canceled"
    BY <1>1 DEF SessionsOK
  <2>2. server[s].state = "none" => Untouched(s)' BY <1>2, <2>1
  <2>3. server[s].state = "none" => flow'.session # s /\ \A r \in net' : r.session # s
    <3> SUFFICES ASSUME server[s].state = "none", NEW r \in net' PROVE flow'.session # s /\ r.session # s
      BY <2>1
    <3>1. CASE r \in net BY <2>1, <3>1
    <3>2. CASE r \in sent BY <2>1, <3>2
    <3> QED BY <3>1, <3>2
  <2>4. s \notin regretted /\ clicked[s] # <<>> => \A c \in Cards : <<s, c>> \in lateEdits' \/ server[s].values[c] = clicked[s][c] BY <2>1
  <2> QED BY <2>1, <2>2, <2>3, <2>4
<1>4. ASSUME NEW r \in net, r \in net' PROVE RequestOK(r)'
  <2>1. r \in net /\ RequestOK(r) /\ r \in Messages BY <1>1 DEF RequestsOK, EditorTypes
  <2>2. Stale(r)' <=> Stale(r) BY DEF Stale
  <2>3. Held(r.session)' <=> Held(r.session) BY DEF Held
  <2>4. ASSUME r.kind = "upload", r.session # 0 PROVE Untouched(r.session)' /\ flow.session # r.session
    <3>1. r.session \in Sessions /\ Untouched(r.session) /\ flow.session # r.session BY <2>1, <2>4 DEF RequestOK, Messages
    <3> QED BY <1>2, <3>1
  <2>5. r.kind = "patch" /\ ~Stale(r) => flow'.running = <<r.card, r.version>> BY <1>4, <2>1 DEF RequestOK
  <2> QED BY <2>1, <2>2, <2>3, <2>4, <2>5 DEF RequestOK
<1>5. \A r : Stale(r)' <=> Stale(r) BY DEF Stale
<1>6. /\ \A r, q \in net : r.kind = "patch" /\ q.kind = "patch" /\ ~Stale(r) /\ ~Stale(q) => r = q
      /\ \A r, q \in net : r.kind = "upload" /\ q.kind = "upload" /\ r.gen = q.gen => r = q
      /\ \A r, q \in net : r.kind = "upload" /\ r.session # 0 /\ q.session = r.session => q = r
  BY <1>1 DEF RequestsOK
<1>7. ASSUME NEW r \in net', NEW q \in net'
      PROVE /\ r.kind = "patch" /\ q.kind = "patch" /\ ~Stale(r)' /\ ~Stale(q)' => r = q
            /\ r.kind = "upload" /\ q.kind = "upload" /\ r.gen = q.gen => r = q
            /\ r.kind = "upload" /\ r.session # 0 /\ q.session = r.session => q = r
  <2>1. CASE r \in net /\ q \in net BY <1>5, <1>6, <2>1
  <2>2. CASE r \in sent /\ q \in sent
    <3>1. q = r BY <2>2
    <3> QED BY <3>1
  <2>3. CASE r \in sent /\ q \in net
    <3>1. r.kind = "patch" /\ (q.kind = "patch" => Stale(q)) BY <2>3
    <3>2. Stale(q)' <=> Stale(q) BY <1>5
    <3> QED BY <3>1, <3>2
  <2>4. CASE r \in net /\ q \in sent
    <3>1. RequestOK(r) BY <1>1, <2>4 DEF RequestsOK
    <3>2. r.kind = "upload" /\ r.session # 0 => flow.session # r.session BY <3>1 DEF RequestOK
    <3>3. q.kind = "patch" /\ q.session = flow.session /\ (r.kind = "patch" => Stale(r)) BY <2>4
    <3>4. Stale(r)' <=> Stale(r) BY <1>5
    <3> QED BY <3>2, <3>3, <3>4
  <2> QED BY <2>1, <2>2, <2>3, <2>4
<1>8. \A r \in net' : RequestOK(r)' BY <1>4
<1>9. RequestsOK' BY <1>7, <1>8 DEF RequestsOK
<1> QED BY <1>3, <1>9

\* The same, when nothing is sent.
LEMMA QuietStep ==
  ASSUME EditorInv, net' \subseteq net, flow'.gen = flow.gen, flow'.session = flow.session,
         flow'.canceling = flow.canceling, server' = server, clicked' = clicked, regretted' = regretted, heard' = heard,
         lateEdits \subseteq lateEdits', \A s \in Sessions, c \in Cards : <<s, c>> \in lateEdits' => <<s, c>> \in lateEdits \/ s = flow.session,
         \A r \in net : r \in net' /\ r.kind = "patch" /\ ~Stale(r) => flow'.running = flow.running
  PROVE SessionsOK' /\ RequestsOK'
<1>1. PICK sent : sent = {} OBVIOUS
<1>2. net' \subseteq net \cup sent BY <1>1
<1>3. \A p \in sent : /\ p.kind = "patch" /\ p.session = flow.session /\ flow.session # 0 /\ RequestOK(p)'
                      /\ \A r \in net : r.kind = "patch" => Stale(r)
  BY <1>1
<1>4. \A p \in sent : \A q \in sent : q = p BY <1>1
<1> QED BY <1>2, <1>3, <1>4, PatchStep

\* A correction, whatever its value.
LEMMA EditKeeps ==
  ASSUME EditorInv, NEW c \in Cards, NEW value \in Int, EditCard(c, value)
  PROVE EditorInv'
<1>1. EditorTypes /\ SavesOK(flow) /\ SessionsOK /\ RequestsOK /\ ShownOK /\ LateOK /\ CancelOK BY DEF EditorInv
<1>2. flow \in FlowSet /\ flow.session \in Sessions /\ flow.session # 0 /\ ~flow.canceling
  <2>1. flow \in FlowSet BY <1>1 DEF EditorTypes
  <2> QED BY <2>1, FlowFields DEF EditCard
<1>3. /\ edits' = edits + 1 /\ net' = net /\ server' = server /\ clicked' = clicked /\ regretted' = regretted /\ heard' = heard
      /\ lateEdits' = IF clicked[flow.session] = <<>> THEN lateEdits ELSE lateEdits \cup {<<flow.session, c>>}
  BY DEF EditCard
<1>4. PICK q : q = flow' OBVIOUS
<1>5. SavesOK(q) /\ Edited(q, flow, c)
  <2>1. flow.session # 0 BY DEF EditCard
  <2>2. CASE value = Rejected
    <3>1. q = RejectedAtOnce(c) BY <1>4, <2>2 DEF EditCard
    <3> QED BY <1>1, <1>2, <2>1, <3>1, RejectedIs
  <2>3. CASE value # Rejected
    <3>1. q = Scheduled(c, value) BY <1>4, <2>3 DEF EditCard
    <3> QED BY <1>1, <1>2, <2>1, <3>1, ScheduledIs
  <2> QED BY <2>2, <2>3
<1>6. /\ q \in FlowSet /\ q.gen = flow.gen /\ q.session = flow.session /\ q.canceling = flow.canceling /\ q.busy = flow.busy
      /\ q.cards = flow.cards /\ q.running = flow.running
      /\ \A d \in Cards \ {c} : /\ q.screen[d] = flow.screen[d]
                                /\ d \in q.errors <=> d \in flow.errors
                                /\ d \in Waiting(q) <=> d \in Waiting(flow)
      /\ c \in Waiting(q) \/ c \in q.errors
  BY <1>5 DEF Edited, Steady
<1>7. lateEdits \subseteq lateEdits' /\ \A s \in Sessions, d \in Cards : <<s, d>> \in lateEdits' => <<s, d>> \in lateEdits \/ s = flow.session
  BY <1>3
<1>8. SessionsOK' /\ RequestsOK' BY <1>3, <1>4, <1>6, <1>7, QuietStep
<1>9. EditorTypes'
  <2>1. lateEdits' \subseteq Sessions \X Cards BY <1>1, <1>2, <1>3 DEF EditorTypes
  <2> QED BY <1>1, <1>3, <1>4, <1>6, <2>1 DEF EditorTypes
<1>10. ShownOK'
  <2> SUFFICES ASSUME Held(flow.session)', NEW d \in Cards, d \notin Waiting(q), ~Running(q, d), d \notin q.errors
               PROVE q.screen[d] = q.cards[d] /\ server[flow.session].values[d] = q.cards[d]
    BY <1>3, <1>4, <1>6 DEF ShownOK
  <2>1. Held(flow.session) BY <1>2, <1>3, <1>4, <1>6 DEF Held
  <2>2. d # c /\ d \notin Waiting(flow) /\ ~Running(flow, d) /\ d \notin flow.errors BY <1>6 DEF Running
  <2> QED BY <1>1, <1>2, <1>6, <2>1, <2>2 DEF ShownOK
<1>11. LateOK'
  <2> SUFFICES ASSUME clicked[flow.session] # <<>>, NEW d \in Cards, d \in Waiting(q) \/ Running(q, d)
               PROVE <<flow.session, d>> \in lateEdits'
    BY <1>3, <1>4, <1>6 DEF LateOK
  <2>1. CASE d = c BY <1>3, <2>1
  <2>2. CASE d # c
    <3>1. d \in Waiting(flow) \/ Running(flow, d) BY <1>6, <2>2 DEF Running
    <3> QED BY <1>1, <1>2, <1>7, <3>1 DEF LateOK
  <2> QED BY <2>1, <2>2
<1>12. CancelOK' BY <1>1, <1>4, <1>6 DEF CancelOK
<1> QED BY <1>4, <1>5, <1>8, <1>9, <1>10, <1>11, <1>12 DEF EditorInv

\* A step that touches nothing but the workflow, and in it neither cards, screen nor errors, and
\* after which no candidate is forgotten.
LEMMA FlowStep ==
  ASSUME EditorInv, NEW q, q = flow', q \in FlowSet, SavesOK(q), q.gen = flow.gen, q.session = flow.session,
         q.canceling = flow.canceling, q.busy => flow.busy, flow.busy => q.busy, q.cards = flow.cards, q.screen = flow.screen, q.errors = flow.errors,
         Waiting(q) = Waiting(flow), q.running = flow.running,
         UNCHANGED <<net, server, edits, clicked, lateEdits, regretted, heard>>
  PROVE EditorInv'
<1>1. EditorTypes /\ SavesOK(flow) /\ SessionsOK /\ RequestsOK /\ ShownOK /\ LateOK /\ CancelOK BY DEF EditorInv
<1>2. net' = net /\ server' = server /\ edits' = edits /\ clicked' = clicked /\ lateEdits' = lateEdits /\ regretted' = regretted /\ heard' = heard
  OBVIOUS
<1>3. SessionsOK' /\ RequestsOK'
  <2>1. /\ net' \subseteq net /\ lateEdits \subseteq lateEdits'
        /\ \A s \in Sessions, c \in Cards : <<s, c>> \in lateEdits' => <<s, c>> \in lateEdits \/ s = flow.session
        /\ \A r \in net : r \in net' /\ r.kind = "patch" /\ ~Stale(r) => flow'.running = flow.running
    BY <1>2
  <2> QED BY <1>2, <2>1, QuietStep
<1>4. EditorTypes' BY <1>1, <1>2 DEF EditorTypes
<1>5. ShownOK' BY <1>1, <1>2 DEF ShownOK, Held, Running
<1>6. LateOK' BY <1>1, <1>2 DEF LateOK, Running
<1>7. CancelOK' BY <1>1 DEF CancelOK
<1> QED BY <1>1, <1>3, <1>4, <1>5, <1>6, <1>7 DEF EditorInv

\* flushCandidateSave, after its 280 ms.
LEMMA TimerKeeps ==
  ASSUME EditorInv, NEW c \in Cards, TimerFires(c)
  PROVE EditorInv'
<1>1. flow \in FlowSet /\ SavesOK(flow) /\ c \in Waiting(flow) BY DEF EditorInv, EditorTypes, TimerFires
<1>2. PICK w : w = Stopped(flow, c) OBVIOUS
<1>3. PICK q : q = flow' OBVIOUS
<1>4. /\ w \in FlowSet /\ Steady(w, flow) /\ w.cards = flow.cards /\ w.screen = flow.screen /\ w.version = flow.version
      /\ w.errors = flow.errors /\ w.queue = flow.queue /\ w.running = flow.running
      /\ Waiting(w) = Waiting(flow) /\ w.pend[c].version = flow.pend[c].version
      /\ OthersWait(w, flow, c)
  BY <1>1, <1>2, StoppedIs
<1>5. q = QueueSave(w, c, flow.pend[c].version) /\ UNCHANGED <<net, server, edits, clicked, lateEdits, regretted, heard>>
  BY <1>2, <1>3 DEF TimerFires
<1>6. Ordered(flow) /\ \A d \in Waiting(flow) : Covered(flow, d) BY <1>1, SavesSplit
<1>7. \A d \in Waiting(w) : w.pend[d].version = flow.pend[d].version BY <1>4 DEF OthersWait
<1>8. Ordered(w)
  <2>1. \A i \in DOMAIN w.queue : LET d == w.queue[i][1] IN d \in Waiting(w) => w.queue[i][2] <= w.pend[d].version
    BY <1>4, <1>6, <1>7 DEF Ordered
  <2>2. \A i \in DOMAIN w.queue : w.queue[i][2] <= w.version[w.queue[i][1]] BY <1>4, <1>6 DEF Ordered
  <2>3. \A d \in Waiting(w) : w.pend[d].version <= w.version[d] /\ (w.pend[d].version # w.version[d] => d \in w.errors)
    BY <1>4, <1>6, <1>7 DEF Ordered
  <2>4. \A d \in Cards : Running(w, d) =>
          /\ w.running[2] <= w.version[d]
          /\ w.running[2] # w.version[d] => d \in Waiting(w) \/ d \in w.errors
          /\ d \in Waiting(w) => w.running[2] < w.pend[d].version
    BY <1>4, <1>6, <1>7 DEF Ordered, Running
  <2>5. w.session # 0
    <3>1. ASSUME flow.session = 0 PROVE FALSE BY <1>1, <1>6, <3>1 DEF Ordered, Waiting
    <3> QED BY <1>4, <3>1 DEF Steady
  <2> QED BY <2>1, <2>2, <2>3, <2>4, <2>5 DEF Ordered
<1>9. \A d \in Waiting(w) \ {c} : Covered(w, d)
  <2>1. Saving(w) = Saving(flow) BY <1>4 DEF Saving
  <2> QED BY <1>4, <1>6, <2>1 DEF Covered, OthersWait
<1>10. c \in Waiting(w) /\ flow.pend[c].version = w.pend[c].version /\ flow.pend[c].version \in Nat /\ c \in Cards
  <2>1. flow.pend[c] \in Pending BY <1>1, FlowFields
  <2> QED BY <1>1, <1>4, <2>1 DEF Pending
<1>11. SavesOK(q) BY <1>4, <1>5, <1>8, <1>9, <1>10, QueueSaveKeeps
<1>12. /\ q \in FlowSet /\ Steady(q, w) /\ q.cards = w.cards /\ q.screen = w.screen
       /\ q.pend = w.pend /\ q.errors = w.errors /\ q.running = w.running
  BY <1>4, <1>5, <1>10, QueueSaveIs
<1>13. Waiting(q) = Waiting(flow) BY <1>4, <1>12 DEF Waiting
<1>14. q.gen = flow.gen /\ q.session = flow.session /\ q.canceling = flow.canceling /\ q.busy = flow.busy BY <1>4, <1>12 DEF Steady
<1> QED BY <1>3, <1>4, <1>5, <1>11, <1>12, <1>13, <1>14, FlowStep

\* Opening and closing the confirmation's dialog.
LEMMA DialogKeeps ==
  ASSUME EditorInv, OpenDialog \/ CloseDialog
  PROVE EditorInv'
<1>1. flow \in FlowSet /\ SavesOK(flow) BY DEF EditorInv, EditorTypes
<1>2. PICK q : q = flow' OBVIOUS
<1>3. UNCHANGED <<net, server, edits, clicked, lateEdits, regretted, heard>> BY DEF OpenDialog, CloseDialog
<1>4. PICK on \in BOOLEAN : q = [flow EXCEPT !.dialog = on] BY <1>2, Zenon DEF OpenDialog, CloseDialog
<1>5. /\ q \in FlowSet /\ q.gen = flow.gen /\ q.session = flow.session /\ q.canceling = flow.canceling /\ q.busy = flow.busy
      /\ q.cards = flow.cards /\ q.screen = flow.screen /\ q.version = flow.version /\ q.pend = flow.pend
      /\ q.errors = flow.errors /\ q.queue = flow.queue /\ q.running = flow.running
  BY <1>1, <1>4 DEF FlowSet
<1>6. Waiting(q) = Waiting(flow) /\ Saving(q) = Saving(flow) BY <1>5 DEF Waiting, Saving
<1>7. SavesOK(q) BY <1>1, <1>5, <1>6 DEF SavesOK, Running
<1> QED BY <1>2, <1>3, <1>5, <1>6, <1>7, FlowStep

\* The next save leaves the queue: with the correction it sends, or without one.
LEMMA DequeuedIs ==
  ASSUME NEW w, w \in FlowSet, w.queue # <<>>
  PROVE /\ Head(w.queue) \in Save /\ Head(w.queue) = w.queue[1] /\ 1 \in DOMAIN w.queue /\ Tail(w.queue) \in Seq(Save)
        /\ \A i \in DOMAIN Tail(w.queue) : i + 1 \in DOMAIN w.queue /\ Tail(w.queue)[i] = w.queue[i + 1]
        /\ \A i \in DOMAIN w.queue : i # 1 => i - 1 \in DOMAIN Tail(w.queue) /\ Tail(w.queue)[i - 1] = w.queue[i]
<1>1. w.queue \in Seq(Save) BY FlowFields
<1>2. Len(w.queue) \in Nat /\ Len(w.queue) # 0 /\ DOMAIN w.queue = 1 .. Len(w.queue) BY <1>1
<1>3. /\ Head(w.queue) = w.queue[1] /\ Tail(w.queue) \in Seq(Save) /\ Len(Tail(w.queue)) = Len(w.queue) - 1
      /\ \A i \in 1 .. Len(w.queue) - 1 : Tail(w.queue)[i] = w.queue[i + 1]
  BY <1>1, <1>2
<1>4. DOMAIN Tail(w.queue) = 1 .. Len(w.queue) - 1 BY <1>1, <1>2, <1>3
<1>5. 1 \in DOMAIN w.queue /\ w.queue[1] \in Save BY <1>1, <1>2, ElementOfSeq
<1> QED BY <1>2, <1>3, <1>4, <1>5

\* The candidate of the next save.
NextUp(w, c) == c = Head(w.queue)[1]

\* The next save finds a correction that waits, and sends it.
LEMMA SaveSent ==
  ASSUME NEW w, NEW c, NEW q, w \in FlowSet, SavesOK(w), w.queue # <<>>, w.running = <<>>, NextUp(w, c),
         c \in Waiting(w), q = Sent(w, c)
  PROVE /\ q \in FlowSet /\ Steady(q, w) /\ q.cards = w.cards /\ q.screen = w.screen /\ q.errors = w.errors
        /\ q.version = w.version /\ SavesOK(q) /\ q.running = <<c, w.pend[c].version>> /\ Waiting(q) = Waiting(w) \ {c}
<1> DEFINE pend == [x \in Waiting(w) \ {c} |-> w.pend[x]]
           running == <<c, w.pend[c].version>>
<1>1. /\ w.pend \in [Waiting(w) -> Pending] /\ Waiting(w) \subseteq Cards /\ w.version \in [Cards -> Nat]
      /\ w.pend[c] \in Pending /\ c \in Cards
  BY FlowFields
<1>2. running \in Save /\ running # <<>> /\ running[1] = c /\ running[2] = w.pend[c].version /\ w.pend[c].version \in Nat
  BY <1>1 DEF Save, Pending
<1>3. DOMAIN pend = Waiting(w) \ {c} /\ pend \in [DOMAIN pend -> Pending] /\ \A d \in Waiting(w) \ {c} : pend[d] = w.pend[d]
  BY <1>1
<1>4. q = Rebuilt(w, w.cards, w.screen, w.version, pend, w.errors, Tail(w.queue), w.queued, running)
  BY DEF FlowSet, Rebuilt, Sent, Dequeued, WithoutPend, Waiting
<1>13. PICK rest : rest = Tail(w.queue) OBVIOUS
<1>5. /\ Tail(w.queue) \in Seq(Save)
      /\ \A i \in DOMAIN rest : i + 1 \in DOMAIN w.queue /\ rest[i] = w.queue[i + 1]
      /\ \A i \in DOMAIN w.queue : i # 1 => i - 1 \in DOMAIN rest /\ rest[i - 1] = w.queue[i]
  BY <1>13, DequeuedIs
<1> HIDE DEF pend, running
<1>6. Fitting(w.cards, w.screen, w.version, pend, w.errors, Tail(w.queue), w.queued, running)
  BY <1>1, <1>2, <1>3, <1>5, FlowFields DEF Fitting
<1>7. /\ q \in FlowSet /\ Steady(q, w) /\ q.cards = w.cards /\ q.screen = w.screen /\ q.version = w.version
      /\ q.pend = pend /\ q.errors = w.errors /\ q.queue = Tail(w.queue) /\ q.running = running
  BY ONLY <1>4, <1>6, w \in FlowSet, RebuiltIs
<1>8. Waiting(q) = Waiting(w) \ {c} BY <1>3, <1>7 DEF Waiting
<1>9. Ordered(w) /\ \A d \in Waiting(w) : Covered(w, d) BY SavesSplit
<1>10. \A d \in Waiting(q) : d \in Waiting(w) /\ d # c /\ q.pend[d] = w.pend[d] BY <1>3, <1>7, <1>8
<1>11. ASSUME NEW d \in Waiting(q) PROVE Covered(q, d)
  <2>1. d \in Waiting(w) /\ d # c /\ Covered(w, d) /\ q.pend[d] = w.pend[d] BY <1>9, <1>10
  <2>2. CASE d \in Saving(w)
    <3>1. PICK i \in DOMAIN w.queue : d = w.queue[i][1] BY <2>2 DEF Saving
    <3>2. i # 1 BY <2>1, <3>1, DequeuedIs DEF NextUp
    <3>3. i - 1 \in DOMAIN q.queue /\ d = q.queue[i - 1][1] BY ONLY <1>5, <1>7, <1>13, <3>1, <3>2
    <3> QED BY <3>3 DEF Covered, Saving
  <2>3. CASE w.pend[d].timer \/ d \in w.errors BY <1>7, <2>1, <2>3 DEF Covered
  <2> QED BY <2>1, <2>2, <2>3 DEF Covered
<1>12. Ordered(q)
  <2>1. ASSUME NEW i \in DOMAIN q.queue
        PROVE /\ q.queue[i][1] \in Waiting(q) => q.queue[i][2] <= q.pend[q.queue[i][1]].version
              /\ q.queue[i][2] <= q.version[q.queue[i][1]]
    <3>1. i + 1 \in DOMAIN w.queue /\ q.queue[i] = w.queue[i + 1] BY ONLY <1>5, <1>7, <1>13, i \in DOMAIN q.queue
    <3>2. PICK e : e = w.queue[i + 1] OBVIOUS
    <3>3. (e[1] \in Waiting(w) => e[2] <= w.pend[e[1]].version) /\ e[2] <= w.version[e[1]]
      BY <1>9, <3>1, <3>2 DEF Ordered
    <3> QED BY <1>7, <1>10, <3>1, <3>2, <3>3
  <2>2. \A d \in Waiting(q) : q.pend[d].version <= q.version[d] /\ (q.pend[d].version # q.version[d] => d \in q.errors)
    BY <1>7, <1>9, <1>10 DEF Ordered
  <2>3. ASSUME NEW d \in Cards, Running(q, d)
        PROVE /\ q.running[2] <= q.version[d]
              /\ q.running[2] # q.version[d] => d \in Waiting(q) \/ d \in q.errors
              /\ d \in Waiting(q) => q.running[2] < q.pend[d].version
    <3>1. d = c /\ q.running[2] = w.pend[c].version BY <1>2, <1>7, <2>3 DEF Running
    <3>2. w.pend[c].version <= w.version[c] /\ (w.pend[c].version # w.version[c] => c \in w.errors) BY <1>9 DEF Ordered
    <3> QED BY <1>7, <1>8, <3>1, <3>2
  <2>4. q.session # 0
    <3>1. ASSUME w.session = 0 PROVE FALSE BY <1>9, <3>1 DEF Ordered
    <3> QED BY <1>7, <3>1 DEF Steady
  <2> QED BY <2>1, <2>2, <2>3, <2>4 DEF Ordered
<1> QED BY <1>7, <1>8, <1>11, <1>12, SavesSplit DEF running

\* The next save finds nothing left to send.
LEMMA SaveDropped ==
  ASSUME NEW w, NEW c, NEW q, w \in FlowSet, SavesOK(w), w.queue # <<>>, w.running = <<>>, NextUp(w, c),
         c \notin Waiting(w), q = Dequeued(w)
  PROVE /\ q \in FlowSet /\ Steady(q, w) /\ q.cards = w.cards /\ q.screen = w.screen /\ q.errors = w.errors
        /\ SavesOK(q) /\ q.running = w.running /\ Waiting(q) = Waiting(w)
<1>1. q = Rebuilt(w, w.cards, w.screen, w.version, w.pend, w.errors, Tail(w.queue), w.queued, w.running)
  BY DEF FlowSet, Rebuilt, Dequeued
<1>9. PICK rest : rest = Tail(w.queue) OBVIOUS
<1>2. /\ Tail(w.queue) \in Seq(Save)
      /\ \A i \in DOMAIN rest : i + 1 \in DOMAIN w.queue /\ rest[i] = w.queue[i + 1]
      /\ \A i \in DOMAIN w.queue : i # 1 => i - 1 \in DOMAIN rest /\ rest[i - 1] = w.queue[i]
  BY <1>9, DequeuedIs
<1>3. Fitting(w.cards, w.screen, w.version, w.pend, w.errors, Tail(w.queue), w.queued, w.running)
  BY <1>2, FlowFields DEF Fitting, Waiting
<1>4. /\ q \in FlowSet /\ Steady(q, w) /\ q.cards = w.cards /\ q.screen = w.screen /\ q.version = w.version
      /\ q.pend = w.pend /\ q.errors = w.errors /\ q.queue = Tail(w.queue) /\ q.running = w.running
  BY ONLY <1>1, <1>3, w \in FlowSet, RebuiltIs
<1>5. Waiting(q) = Waiting(w) BY <1>4 DEF Waiting
<1>6. Ordered(w) /\ \A d \in Waiting(w) : Covered(w, d) BY SavesSplit
<1>7. ASSUME NEW d \in Waiting(q) PROVE Covered(q, d)
  <2>1. d # c /\ Covered(w, d) BY <1>5, <1>6
  <2>2. CASE d \in Saving(w)
    <3>1. PICK i \in DOMAIN w.queue : d = w.queue[i][1] BY <2>2 DEF Saving
    <3>2. i # 1 BY <2>1, <3>1, DequeuedIs DEF NextUp
    <3>3. i - 1 \in DOMAIN q.queue /\ d = q.queue[i - 1][1] BY ONLY <1>2, <1>4, <1>9, <3>1, <3>2
    <3> QED BY <3>3 DEF Covered, Saving
  <2>3. CASE w.pend[d].timer \/ d \in w.errors BY <1>4, <2>3 DEF Covered
  <2> QED BY <2>1, <2>2, <2>3 DEF Covered
<1>8. Ordered(q)
  <2>1. ASSUME NEW i \in DOMAIN q.queue
        PROVE /\ q.queue[i][1] \in Waiting(q) => q.queue[i][2] <= q.pend[q.queue[i][1]].version
              /\ q.queue[i][2] <= q.version[q.queue[i][1]]
    <3>1. i + 1 \in DOMAIN w.queue /\ q.queue[i] = w.queue[i + 1] BY ONLY <1>2, <1>4, <1>9, i \in DOMAIN q.queue
    <3>2. PICK e : e = w.queue[i + 1] OBVIOUS
    <3>3. (e[1] \in Waiting(w) => e[2] <= w.pend[e[1]].version) /\ e[2] <= w.version[e[1]]
      BY <1>6, <3>1, <3>2 DEF Ordered
    <3> QED BY <1>4, <1>5, <3>1, <3>2, <3>3
  <2>2. \A d \in Waiting(q) : q.pend[d].version <= q.version[d] /\ (q.pend[d].version # q.version[d] => d \in q.errors)
    BY <1>4, <1>5, <1>6 DEF Ordered
  <2>3. \A d \in Cards : ~Running(q, d) BY <1>4 DEF Running
  <2>4. q.session # 0
    <3>1. ASSUME w.session = 0 PROVE FALSE BY <1>6, <3>1 DEF Ordered
    <3> QED BY <1>4, <3>1 DEF Steady
  <2> QED BY <2>1, <2>2, <2>3, <2>4 DEF Ordered
<1> QED BY <1>4, <1>5, <1>7, <1>8, SavesSplit

\* A step on the saves of the same session that leaves cards, screen and errors, in which no
\* correction is forgotten, and which sends at most one save.
LEMMA RunKeeps ==
  ASSUME EditorInv, RunNext
  PROVE EditorInv'
<1>1. EditorTypes /\ SavesOK(flow) /\ SessionsOK /\ RequestsOK /\ ShownOK /\ LateOK /\ CancelOK BY DEF EditorInv
<1>2. flow \in FlowSet BY <1>1 DEF EditorTypes
<1>3. PICK c : c = Head(flow.queue)[1] OBVIOUS
<1>4. PICK q : q = flow' OBVIOUS
<1>8. NextUp(flow, c) BY <1>3 DEF NextUp
<1>5. flow.queue # <<>> /\ flow.running = <<>> /\ UNCHANGED <<server, edits, clicked, lateEdits, regretted, heard>> BY DEF RunNext
<1>6. CASE c \in Waiting(flow) /\ flow.pend[c].version >= Head(flow.queue)[2]
  <2>1. q = Sent(flow, c) BY <1>3, <1>4, <1>6 DEF RunNext
  <2>2. /\ q \in FlowSet /\ Steady(q, flow) /\ q.cards = flow.cards /\ q.screen = flow.screen /\ q.errors = flow.errors
        /\ q.version = flow.version /\ SavesOK(q) /\ q.running = <<c, flow.pend[c].version>> /\ Waiting(q) = Waiting(flow) \ {c}
    BY <1>1, <1>2, <1>5, <1>6, <1>8, <2>1, SaveSent
  <2>3. /\ q.gen = flow.gen /\ q.session = flow.session /\ q.canceling = flow.canceling /\ q.busy = flow.busy BY <2>2 DEF Steady
  <2>4. /\ c \in Cards /\ flow.pend[c].value \in Int /\ flow.pend[c].version \in Nat /\ flow.gen \in Nat
        /\ flow.session \in Sessions /\ flow.session # 0
    <3>1. flow.pend[c] \in Pending /\ c \in Cards /\ flow.gen \in Nat /\ flow.session \in Sessions \cup {0} BY <1>2, <1>6, FlowFields
    <3>2. flow.session # 0 BY <1>1, <1>5 DEF SavesOK
    <3> QED BY <3>1, <3>2 DEF Pending
  <2>5. PICK p : p = Request("patch", c, flow.pend[c].value, flow.pend[c].version) OBVIOUS
  <2>6. net' = net \cup {p} BY <1>3, <1>6, <2>5 DEF RunNext
  <2>7. /\ p.kind = "patch" /\ p.gen = flow.gen /\ p.session = flow.session /\ p.card = c /\ p.value = flow.pend[c].value
        /\ p.version = flow.pend[c].version /\ p.answer = "none" /\ p \in Messages
    BY <2>4, <2>5 DEF Request, Messages
  <2>8. RequestOK(p)'
    <3>1. ~Stale(p)' BY <1>4, <2>3, <2>7 DEF Stale
    <3>2. p.session \notin regretted' /\ clicked'[p.session] # <<>> => <<p.session, p.card>> \in lateEdits'
      BY <1>1, <1>5, <1>6, <2>4, <2>7 DEF LateOK
    <3> QED BY <1>4, <2>2, <2>3, <2>4, <2>7, <3>1, <3>2 DEF RequestOK
  <2>9. ASSUME NEW r \in net, r.kind = "patch" PROVE Stale(r)
    <3>1. ~Stale(r) => <<>> = <<r.card, r.version>> BY <1>1, <1>5, <2>9 DEF RequestsOK, RequestOK
    <3> QED BY <3>1
  <2>10. SessionsOK' /\ RequestsOK'
    <3>1. PICK sent : sent = {p} OBVIOUS
    <3>2. net' \subseteq net \cup sent /\ \A x \in sent : \A y \in sent : y = x BY <2>6, <3>1
    <3>3. \A x \in sent : /\ x.kind = "patch" /\ x.session = flow.session /\ flow.session # 0 /\ RequestOK(x)'
                          /\ \A r \in net : r.kind = "patch" => Stale(r)
      BY <2>4, <2>7, <2>8, <2>9, <3>1
    <3>4. /\ lateEdits \subseteq lateEdits' /\ \A s \in Sessions, d \in Cards : <<s, d>> \in lateEdits' => <<s, d>> \in lateEdits \/ s = flow.session
          /\ \A r \in net : r \in net' /\ r.kind = "patch" /\ ~Stale(r) => flow'.running = flow.running
      BY <1>5, <2>9
    <3>5. /\ flow'.gen = flow.gen /\ flow'.session = flow.session /\ flow'.canceling = flow.canceling BY <1>4, <2>3
    <3>6. server' = server /\ clicked' = clicked /\ regretted' = regretted /\ heard' = heard BY <1>5
    <3> QED BY <3>2, <3>3, <3>4, <3>5, <3>6, PatchStep
  <2>11. EditorTypes' BY <1>1, <1>4, <1>5, <2>2, <2>6, <2>7 DEF EditorTypes
  <2>12. ShownOK'
    <3> SUFFICES ASSUME Held(flow.session), NEW d \in Cards, d \notin Waiting(q), ~Running(q, d), d \notin q.errors
                 PROVE q.screen[d] = q.cards[d] /\ server[flow.session].values[d] = q.cards[d]
      BY <1>4, <1>5, <2>3 DEF ShownOK, Held
    <3>1. d # c BY <2>2 DEF Running
    <3>2. d \notin Waiting(flow) /\ ~Running(flow, d) BY <1>5, <2>2, <3>1 DEF Running
    <3> QED BY <1>1, <2>2, <2>4, <3>2 DEF ShownOK
  <2>13. LateOK'
    <3> SUFFICES ASSUME clicked[flow.session] # <<>>, NEW d \in Cards, d \in Waiting(q) \/ Running(q, d)
                 PROVE <<flow.session, d>> \in lateEdits
      BY <1>4, <1>5, <2>3 DEF LateOK
    <3>1. d \in Waiting(flow) BY <1>6, <2>2 DEF Running
    <3> QED BY <1>1, <2>4, <3>1 DEF LateOK
  <2>14. CancelOK' BY <1>1, <1>4, <2>3 DEF CancelOK
  <2> QED BY <1>4, <2>2, <2>10, <2>11, <2>12, <2>13, <2>14 DEF EditorInv
<1>7. CASE ~(c \in Waiting(flow) /\ flow.pend[c].version >= Head(flow.queue)[2])
  <2>1. q = Dequeued(flow) /\ UNCHANGED net BY <1>3, <1>4, <1>7 DEF RunNext
  <2>2. c \notin Waiting(flow)
    <3>1. Head(flow.queue) = flow.queue[1] /\ 1 \in DOMAIN flow.queue /\ Head(flow.queue) \in Save BY <1>2, <1>5, DequeuedIs
    <3>2. c \in Waiting(flow) => Head(flow.queue)[2] <= flow.pend[c].version BY <1>1, <1>3, <3>1 DEF SavesOK
    <3>3. c \in Waiting(flow) => flow.pend[c].version \in Nat /\ Head(flow.queue)[2] \in Nat BY <1>2, <3>1, FlowFields DEF Pending, Save
    <3> QED BY <1>7, <3>2, <3>3
  <2>3. /\ q \in FlowSet /\ Steady(q, flow) /\ q.cards = flow.cards /\ q.screen = flow.screen /\ q.errors = flow.errors
        /\ SavesOK(q) /\ q.running = flow.running /\ Waiting(q) = Waiting(flow)
    BY <1>1, <1>2, <1>5, <1>8, <2>1, <2>2, SaveDropped
  <2>4. /\ q.gen = flow.gen /\ q.session = flow.session /\ q.canceling = flow.canceling /\ q.busy = flow.busy BY <2>3 DEF Steady
  <2> QED BY <1>4, <1>5, <2>1, <2>3, <2>4, FlowStep
<1> QED BY <1>6, <1>7

-----------------------------------------------------------------------------
\* A save has ended.
Freed(w, c, version) == [w EXCEPT !.running = <<>>, !.queued[c] = IF @ = version THEN 0 ELSE @]

\* The queue after a save has ended, before a later correction is queued.
LEMMA FreedIs ==
  ASSUME NEW w, NEW c, NEW v, NEW q, w \in FlowSet, c \in Cards, v \in Nat, q = Freed(w, c, v)
  PROVE /\ q \in FlowSet /\ Steady(q, w) /\ q.cards = w.cards /\ q.screen = w.screen /\ q.version = w.version
        /\ q.pend = w.pend /\ q.errors = w.errors /\ q.queue = w.queue /\ q.running = <<>>
<1> DEFINE queued == [w.queued EXCEPT ![c] = IF w.queued[c] = v THEN 0 ELSE w.queued[c]]
           none == <<>>
<1>1. queued \in [Cards -> Nat] BY FlowFields
<1>2. q = Rebuilt(w, w.cards, w.screen, w.version, w.pend, w.errors, w.queue, queued, none)
  BY DEF FlowSet, Rebuilt, Freed
<1>3. none \in Save \cup {<<>>} OBVIOUS
<1> HIDE DEF queued, none
<1>4. Fitting(w.cards, w.screen, w.version, w.pend, w.errors, w.queue, queued, none)
  BY <1>1, <1>3, FlowFields DEF Fitting, Waiting
<1>5. /\ q \in FlowSet /\ Steady(q, w) /\ q.cards = w.cards /\ q.screen = w.screen /\ q.version = w.version
      /\ q.pend = w.pend /\ q.errors = w.errors /\ q.queue = w.queue /\ q.running = none
  BY ONLY <1>2, <1>4, w \in FlowSet, RebuiltIs
<1> QED BY <1>5 DEF none

\* The order of the versions that wait, without the save under way.
WaitOrdered(w) ==
  /\ \A i \in DOMAIN w.queue : LET c == w.queue[i][1] IN c \in Waiting(w) => w.queue[i][2] <= w.pend[c].version
  /\ \A i \in DOMAIN w.queue : w.queue[i][2] <= w.version[w.queue[i][1]]
  /\ \A c \in Waiting(w) : w.pend[c].version <= w.version[c] /\ (w.pend[c].version # w.version[c] => c \in w.errors)
  /\ w.session # 0

\* The finally of a save: no correction made meanwhile is left uncovered.
LEMMA SaveEndsKeeps ==
  ASSUME NEW w, NEW c, NEW v, NEW q, w \in FlowSet, c \in Cards, v \in Nat, WaitOrdered(w), Running(w, c),
         \A d \in Waiting(w) \ {c} : Covered(w, d), q = SaveEnds(w, c, v)
  PROVE /\ q \in FlowSet /\ Steady(q, w) /\ q.cards = w.cards /\ q.screen = w.screen /\ q.errors = w.errors
        /\ SavesOK(q) /\ q.running = <<>> /\ Waiting(q) = Waiting(w)
<1>1. PICK p : p = Freed(w, c, v) OBVIOUS
<1>2. /\ p \in FlowSet /\ Steady(p, w) /\ p.cards = w.cards /\ p.screen = w.screen /\ p.version = w.version
      /\ p.pend = w.pend /\ p.errors = w.errors /\ p.queue = w.queue /\ p.running = <<>>
  BY <1>1, FreedIs
<1>3. Waiting(p) = Waiting(w) BY <1>2 DEF Waiting
<1>4. Ordered(p)
  <2>1. p.session # 0 BY <1>2 DEF WaitOrdered, Steady
  <2>2. \A d \in Cards : ~Running(p, d) BY <1>2 DEF Running
  <2>3. WaitOrdered(p) BY <1>2, <1>3, <2>1 DEF WaitOrdered
  <2> QED BY <2>1, <2>2, <2>3 DEF Ordered, WaitOrdered
<1>5. ASSUME NEW d \in Waiting(p) \ {c} PROVE Covered(p, d)
  <2>1. Covered(w, d) BY <1>3
  <2>2. CASE d \in Saving(w)
    <3>1. PICK i \in DOMAIN w.queue : d = w.queue[i][1] BY <2>2 DEF Saving, Running
    <3> QED BY <1>2, <3>1 DEF Covered, Saving
  <2>3. CASE w.pend[d].timer \/ d \in w.errors BY <1>2, <2>3 DEF Covered
  <2> QED BY <2>1, <2>2, <2>3 DEF Covered
<1>6. q = IF c \in Waiting(p) THEN QueueSave(p, c, p.pend[c].version) ELSE p BY <1>1 DEF SaveEnds, Freed
<1>7. CASE c \in Waiting(p)
  <2>1. PICK u : u = p.pend[c].version OBVIOUS
  <2>2. u \in Nat BY <1>2, <1>7, <2>1, FlowFields DEF Pending
  <2>3. q = QueueSave(p, c, u) BY <1>6, <1>7, <2>1
  <2>4. SavesOK(q) BY <1>2, <1>4, <1>5, <1>7, <2>1, <2>3, QueueSaveKeeps
  <2>5. /\ q \in FlowSet /\ Steady(q, p) /\ q.cards = p.cards /\ q.screen = p.screen
        /\ q.pend = p.pend /\ q.errors = p.errors /\ q.running = p.running
    BY <1>2, <2>2, <2>3, QueueSaveIs
  <2>6. Waiting(q) = Waiting(p) BY <2>5 DEF Waiting
  <2>7. Steady(q, w) BY <1>2, <2>5 DEF Steady
  <2> QED BY <1>2, <1>3, <2>4, <2>5, <2>6, <2>7
<1>8. CASE c \notin Waiting(p)
  <2>1. q = p BY <1>6, <1>8
  <2>2. SavesOK(p) BY <1>4, <1>5, <1>8, SavesSplit
  <2> QED BY <1>2, <1>3, <2>1, <2>2
<1> QED BY <1>7, <1>8

\* The server's candidate in the page, and the cards drawn again.
LEMMA RenderIs ==
  ASSUME NEW w, NEW q, w \in FlowSet, q = Render(w)
  PROVE /\ q \in FlowSet /\ Steady(q, w) /\ q.cards = w.cards /\ q.screen = w.cards /\ q.version = w.version
        /\ q.pend = w.pend /\ q.errors = w.errors /\ q.queue = w.queue /\ q.running = w.running
<1>1. q = Rebuilt(w, w.cards, w.cards, w.version, w.pend, w.errors, w.queue, w.queued, w.running)
  BY DEF FlowSet, Rebuilt, Render
<1>2. Fitting(w.cards, w.cards, w.version, w.pend, w.errors, w.queue, w.queued, w.running)
  BY FlowFields DEF Fitting, Waiting
<1> QED BY ONLY <1>1, <1>2, w \in FlowSet, RebuiltIs

\* The server's candidate replaces the page's and clears its error.
LEMMA KeptIs ==
  ASSUME NEW w, NEW c, NEW value, NEW q, w \in FlowSet, c \in Cards, value \in Int, q = Kept(w, c, value)
  PROVE /\ q \in FlowSet /\ Steady(q, w) /\ q.screen = w.screen /\ q.version = w.version /\ q.cards[c] = value
        /\ \A d \in Cards \ {c} : q.cards[d] = w.cards[d]
        /\ q.pend = w.pend /\ q.errors = w.errors \ {c} /\ q.queue = w.queue /\ q.running = w.running
<1> DEFINE cards == [w.cards EXCEPT ![c] = value]
           errors == w.errors \ {c}
<1>1. cards \in [Cards -> Int] /\ errors \subseteq Cards BY FlowFields
<1>2. cards[c] = value /\ \A d \in Cards \ {c} : cards[d] = w.cards[d] BY FlowFields
<1>3. q = Rebuilt(w, cards, w.screen, w.version, w.pend, errors, w.queue, w.queued, w.running)
  BY DEF FlowSet, Rebuilt, Kept
<1> HIDE DEF cards, errors
<1>4. Fitting(cards, w.screen, w.version, w.pend, errors, w.queue, w.queued, w.running)
  BY <1>1, FlowFields DEF Fitting, Waiting
<1>5. /\ q \in FlowSet /\ Steady(q, w) /\ q.screen = w.screen /\ q.version = w.version /\ q.cards = cards
      /\ q.pend = w.pend /\ q.errors = errors /\ q.queue = w.queue /\ q.running = w.running
  BY ONLY <1>3, <1>4, w \in FlowSet, RebuiltIs
<1> QED BY <1>2, <1>5 DEF errors

\* The answer to a save: only the latest correction's counts.
LEMMA SavedIs ==
  ASSUME EditorInv, NEW r, r \in net, r.kind = "patch", ~Stale(r), r.answer # "none", NEW q, q = Saved(r)
  PROVE /\ q \in FlowSet /\ Steady(q, flow) /\ SavesOK(q) /\ q.running = <<>> /\ Waiting(q) = Waiting(flow)
        /\ \A d \in Cards : Held(flow.session) /\ d \notin Waiting(flow) /\ d \notin q.errors =>
             q.screen[d] = q.cards[d] /\ server[flow.session].values[d] = q.cards[d]
<1>1. EditorTypes /\ SavesOK(flow) /\ SessionsOK /\ RequestsOK /\ ShownOK /\ LateOK /\ CancelOK BY DEF EditorInv
<1>2. flow \in FlowSet /\ r \in Messages BY <1>1 DEF EditorTypes
<1>3. PICK c : c = r.card OBVIOUS
<1>4. PICK v : v = r.version OBVIOUS
<1>5. RequestOK(r) BY <1>1 DEF RequestsOK
<1>6. /\ c \in Cards /\ v \in Nat /\ r.value \in Int /\ r.answer \in {"ok", "failed"}
      /\ flow.running = <<c, v>> /\ r.session = flow.session /\ flow.session # 0
      /\ Held(flow.session) /\ r.answer = "ok" => server[flow.session].values[c] = r.value
  BY <1>2, <1>3, <1>4, <1>5 DEF RequestOK, Messages
<1>7. Running(flow, c) /\ \A d \in Cards : Running(flow, d) => d = c BY <1>6 DEF Running
<1>8. /\ v <= flow.version[c] /\ (v # flow.version[c] => c \in Waiting(flow) \/ c \in flow.errors)
      /\ c \in Waiting(flow) => v < flow.pend[c].version
      /\ WaitOrdered(flow) /\ \A d \in Waiting(flow) : Covered(flow, d)
  BY <1>1, <1>6, <1>7 DEF SavesOK, WaitOrdered, Covered
<1>9. \A d \in Cards : Held(flow.session) /\ d # c /\ d \notin Waiting(flow) /\ d \notin flow.errors =>
        flow.screen[d] = flow.cards[d] /\ server[flow.session].values[d] = flow.cards[d]
  BY <1>1, <1>6, <1>7 DEF ShownOK
<1>10. c \in Waiting(flow) => flow.version[c] # v
  <2>1. ASSUME c \in Waiting(flow) PROVE flow.version[c] # v
    <3>1. v < flow.pend[c].version /\ flow.pend[c].version <= flow.version[c] BY <1>8, <2>1 DEF WaitOrdered
    <3>2. flow.pend[c] \in Pending /\ flow.version[c] \in Nat BY <1>2, <1>6, <2>1, FlowFields
    <3> QED BY <1>6, <3>1, <3>2 DEF Pending
  <2> QED BY <2>1
<1>11. PICK w : w = IF flow.version[c] # v THEN flow
                    ELSE Render(IF r.answer = "ok" THEN Kept(flow, c, r.value) ELSE Marked(flow, c))
  OBVIOUS
<1>12. q = SaveEnds(w, c, v) BY <1>3, <1>4, <1>11, Zenon DEF Saved
<1>13. /\ w \in FlowSet /\ Steady(w, flow) /\ w.version = flow.version /\ w.pend = flow.pend /\ w.queue = flow.queue
       /\ w.running = flow.running
       /\ \A d \in Cards \ {c} : d \in w.errors <=> d \in flow.errors
       /\ \A d \in Cards \ {c} : w.cards[d] = flow.cards[d] /\ (w.screen[d] = flow.screen[d] \/ w.screen[d] = w.cards[d])
       /\ \/ c \in Waiting(flow) /\ w.errors = flow.errors
          \/ c \notin Waiting(flow) /\ c \in w.errors
          \/ c \notin Waiting(flow) /\ r.answer = "ok" /\ w.cards[c] = r.value /\ w.screen[c] = w.cards[c]
  <2>1. CASE flow.version[c] # v
    <3>1. w = flow BY <1>11, <2>1, Zenon
    <3> QED BY <1>2, <1>8, <2>1, <3>1 DEF Steady
  <2>2. CASE flow.version[c] = v /\ r.answer = "ok"
    <3>1. w = Render(Kept(flow, c, r.value)) BY <1>11, <2>2, Zenon
    <3>2. PICK k : k = Kept(flow, c, r.value) OBVIOUS
    <3>3. /\ k \in FlowSet /\ Steady(k, flow) /\ k.screen = flow.screen /\ k.version = flow.version /\ k.cards[c] = r.value
          /\ \A d \in Cards \ {c} : k.cards[d] = flow.cards[d]
          /\ k.pend = flow.pend /\ k.errors = flow.errors \ {c} /\ k.queue = flow.queue /\ k.running = flow.running
      BY <1>2, <1>6, <3>2, KeptIs
    <3>4. /\ w \in FlowSet /\ Steady(w, k) /\ w.cards = k.cards /\ w.screen = k.cards /\ w.version = k.version
          /\ w.pend = k.pend /\ w.errors = k.errors /\ w.queue = k.queue /\ w.running = k.running
      BY <3>1, <3>2, <3>3, RenderIs
    <3>5. Steady(w, flow) BY <3>3, <3>4 DEF Steady
    <3> QED BY <1>10, <2>2, <3>3, <3>4, <3>5
  <2>3. CASE flow.version[c] = v /\ r.answer # "ok"
    <3>1. w = Render(Marked(flow, c)) BY <1>11, <2>3, Zenon
    <3>2. PICK k : k = Marked(flow, c) OBVIOUS
    <3>3. /\ k \in FlowSet /\ Steady(k, flow) /\ k.cards = flow.cards /\ k.version = flow.version
          /\ k.pend = flow.pend /\ k.errors = flow.errors \cup {c} /\ k.queue = flow.queue /\ k.running = flow.running
      BY <1>2, <1>6, <3>2, MarkedIs
    <3>4. /\ w \in FlowSet /\ Steady(w, k) /\ w.cards = k.cards /\ w.screen = k.cards /\ w.version = k.version
          /\ w.pend = k.pend /\ w.errors = k.errors /\ w.queue = k.queue /\ w.running = k.running
      BY <3>1, <3>2, <3>3, RenderIs
    <3>5. Steady(w, flow) BY <3>3, <3>4 DEF Steady
    <3> QED BY <1>10, <2>3, <3>3, <3>4, <3>5
  <2> QED BY <2>1, <2>2, <2>3
<1>14. Waiting(w) = Waiting(flow) /\ Saving(w) = Saving(flow) BY <1>13 DEF Waiting, Saving
<1>15. WaitOrdered(w)
  <2>1. \A i \in DOMAIN w.queue : LET d == w.queue[i][1] IN d \in Waiting(w) => w.queue[i][2] <= w.pend[d].version
    BY <1>8, <1>13, <1>14 DEF WaitOrdered
  <2>2. \A i \in DOMAIN w.queue : w.queue[i][2] <= w.version[w.queue[i][1]] BY <1>8, <1>13 DEF WaitOrdered
  <2>3. ASSUME NEW d \in Waiting(w) PROVE w.pend[d].version <= w.version[d] /\ (w.pend[d].version # w.version[d] => d \in w.errors)
    <3>1. d \in Cards /\ d \in Waiting(flow) BY <1>2, <1>14, FlowFields
    <3>2. flow.pend[d].version <= flow.version[d] /\ (flow.pend[d].version # flow.version[d] => d \in flow.errors)
      BY <1>8, <3>1 DEF WaitOrdered
    <3>3. d \in flow.errors => d \in w.errors BY <1>13, <3>1
    <3> QED BY <1>13, <3>2, <3>3
  <2>4. w.session # 0 BY <1>6, <1>13 DEF Steady
  <2> QED BY <2>1, <2>2, <2>3, <2>4 DEF WaitOrdered
<1>16. \A d \in Waiting(w) \ {c} : Covered(w, d)
  <2>1. Waiting(flow) \subseteq Cards BY <1>2, FlowFields
  <2> QED BY <1>8, <1>13, <1>14, <2>1 DEF Covered
<1>17. Running(w, c) BY <1>7, <1>13 DEF Running
<1>18. /\ q \in FlowSet /\ Steady(q, w) /\ q.cards = w.cards /\ q.screen = w.screen /\ q.errors = w.errors
       /\ SavesOK(q) /\ q.running = <<>> /\ Waiting(q) = Waiting(w)
  BY <1>6, <1>12, <1>13, <1>15, <1>16, <1>17, SaveEndsKeeps
<1>19. ASSUME NEW d \in Cards, Held(flow.session), d \notin Waiting(flow), d \notin q.errors
       PROVE q.screen[d] = q.cards[d] /\ server[flow.session].values[d] = q.cards[d]
  <2>1. CASE d = c BY <1>6, <1>13, <1>18, <1>19, <2>1
  <2>2. CASE d # c
    <3>1. d \notin flow.errors BY <1>13, <1>18, <1>19, <2>2
    <3>2. flow.screen[d] = flow.cards[d] /\ server[flow.session].values[d] = flow.cards[d] BY <1>9, <1>19, <2>2, <3>1
    <3> QED BY <1>13, <1>18, <2>2, <3>2
  <2> QED BY <2>1, <2>2
<1>20. Steady(q, flow) BY <1>13, <1>18 DEF Steady
<1> QED BY <1>14, <1>18, <1>19, <1>20

\* The answer to the latest correction: screen, page and server agree about its candidate.
LEMMA PatchAnswered ==
  ASSUME EditorInv, NEW r \in net, r.kind = "patch", ~Stale(r), AnswerArrives(r)
  PROVE EditorInv'
<1>1. EditorTypes /\ SavesOK(flow) /\ SessionsOK /\ RequestsOK /\ ShownOK /\ LateOK /\ CancelOK BY DEF EditorInv
<1>2. PICK q : q = flow' OBVIOUS
<1>3. q = Saved(r)
  <2>1. flow' = CASE Stale(r) -> flow
               [] ~Stale(r) /\ r.kind = "upload" ->
                    IF r.answer = "ok" THEN [flow EXCEPT !.uploading = FALSE, !.session = r.session]
                    ELSE [flow EXCEPT !.uploading = FALSE]
               [] ~Stale(r) /\ r.kind = "patch" -> Saved(r)
               [] ~Stale(r) /\ r.kind = "confirm" ->
                    IF r.answer = "ok" THEN IdleFlow(flow.gen + 1) ELSE Render([flow EXCEPT !.busy = FALSE])
               [] ~Stale(r) /\ r.kind = "cancel" ->
                    IF r.answer = "ok" THEN IdleFlow(flow.gen + 1)
                    ELSE Render([flow EXCEPT !.busy = FALSE, !.canceling = FALSE, !.cancelError = TRUE])
    BY DEF AnswerArrives
  <2> QED BY <1>2, <2>1
<1>4. /\ r.answer # "none" /\ net' = net \ {r} /\ server' = server /\ edits' = edits /\ clicked' = clicked
      /\ lateEdits' = lateEdits /\ regretted' = regretted /\ heard' = heard
  BY DEF AnswerArrives
<1>5. /\ q \in FlowSet /\ Steady(q, flow) /\ SavesOK(q) /\ q.running = <<>> /\ Waiting(q) = Waiting(flow)
      /\ \A d \in Cards : Held(flow.session) /\ d \notin Waiting(flow) /\ d \notin q.errors =>
           q.screen[d] = q.cards[d] /\ server[flow.session].values[d] = q.cards[d]
  BY <1>3, <1>4, SavedIs
<1>6. q.gen = flow.gen /\ q.session = flow.session /\ q.canceling = flow.canceling /\ q.busy = flow.busy BY <1>5 DEF Steady
<1>7. SessionsOK' /\ RequestsOK'
  <2>1. ASSUME NEW p \in net, p \in net', p.kind = "patch", ~Stale(p) PROVE flow'.running = flow.running
    <3>1. p = r BY <1>1, <2>1 DEF RequestsOK
    <3> QED BY <1>4, <2>1, <3>1
  <2>2. /\ net' \subseteq net /\ lateEdits \subseteq lateEdits'
        /\ \A s \in Sessions, d \in Cards : <<s, d>> \in lateEdits' => <<s, d>> \in lateEdits \/ s = flow.session
    BY <1>4
  <2> QED BY <1>2, <1>4, <1>6, <2>1, <2>2, QuietStep
<1>8. EditorTypes' BY <1>1, <1>2, <1>4, <1>5 DEF EditorTypes
<1>9. ShownOK' BY <1>2, <1>4, <1>5, <1>6 DEF ShownOK, Held
<1>10. LateOK' BY <1>1, <1>2, <1>4, <1>5, <1>6 DEF LateOK, Running
<1>11. CancelOK' BY <1>1, <1>2, <1>6 DEF CancelOK
<1> QED BY <1>2, <1>5, <1>7, <1>8, <1>9, <1>10, <1>11 DEF EditorInv

-----------------------------------------------------------------------------
\* resetImportWorkflow.
LEMMA IdleIs ==
  ASSUME NEW g, NEW q, g \in Nat, q = IdleFlow(g)
  PROVE /\ q \in FlowSet /\ q.gen = g /\ q.session = 0 /\ ~q.canceling /\ ~q.busy /\ q.pend = [c \in {} |-> 0] /\ Waiting(q) = {}
        /\ q.queue = <<>> /\ q.running = <<>> /\ q.errors = {} /\ q.cards = Unread /\ q.screen = Unread /\ SavesOK(q)
<1>1. Unread \in [Cards -> Int] /\ Unread \in [Cards -> Nat] BY DEF Unread
<1>2. [c \in {} |-> 0] \in UNION {[D -> Pending] : D \in SUBSET Cards} /\ DOMAIN [c \in {} |-> 0] = {}
  <2>1. [c \in {} |-> 0] \in [{} -> Pending] OBVIOUS
  <2> QED BY <2>1
<1>3. /\ q.gen = g /\ q.session = 0 /\ ~q.canceling /\ ~q.busy /\ q.pend = [c \in {} |-> 0]
      /\ q.queue = <<>> /\ q.running = <<>> /\ q.errors = {} /\ q.cards = Unread /\ q.screen = Unread /\ q.version = Unread
  BY DEF IdleFlow
<1>4. q \in FlowSet
  <2>1. <<>> \in Seq(Save) OBVIOUS
  <2> QED BY <1>1, <1>2, <2>1 DEF IdleFlow, FlowSet
<1>5. Waiting(q) = {} BY <1>2, <1>3 DEF Waiting
<1>6. SavesOK(q) BY <1>3, <1>5 DEF SavesOK, Running
<1> QED BY <1>3, <1>4, <1>5, <1>6

\* A request that begins a generation of the workflow.
TurnRequest(p) ==
  \/ p.kind = "upload" /\ p.session = 0 /\ p.gen = flow.gen + 1
  \/ p.kind = "cancel" /\ p.session = flow.session /\ p.session # 0

\* Everything but the page's own state, when the page begins a new generation of the workflow.
LEMMA TurnStep ==
  ASSUME NEW sent, EditorInv, net' \subseteq net \cup sent, flow'.gen = flow.gen + 1,
         flow'.session = 0 \/ (flow'.session = flow.session /\ flow'.canceling),
         \A p \in sent : RequestOK(p)' /\ TurnRequest(p),
         \A p \in sent : \A q \in sent : q = p,
         server' = server, edits' = edits, clicked' = clicked, lateEdits' = lateEdits, regretted' = regretted,
         heard' \in [Sessions -> {"nothing", "confirm", "cancel"}],
         \A s \in Sessions : heard'[s] # heard[s] =>
           /\ \/ heard'[s] = "confirm" /\ server[s].state = "confirmed"
              \/ heard'[s] = "cancel" /\ server[s].state = "canceled"
           /\ \A p \in net : p.kind = "upload" => p.session # s
  PROVE SessionsOK' /\ RequestsOK'
<1>1. EditorTypes /\ SessionsOK /\ RequestsOK BY DEF EditorInv
<1>2. SessionsOK'
  <2> SUFFICES ASSUME NEW s \in Sessions
               PROVE /\ server[s].state = "none" => Untouched(s)'
                     /\ server[s].state = "none" => flow'.session # s /\ \A r \in net' : r.session # s
                     /\ server[s].state = "confirmed" => \A c \in Cards : clicked[s] # <<>>
                     /\ s \notin regretted /\ clicked[s] # <<>> => \A c \in Cards : <<s, c>> \in lateEdits \/ server[s].values[c] = clicked[s][c]
                     /\ heard'[s] = "confirm" => server[s].state = "confirmed"
                     /\ heard'[s] = "cancel" => server[s].state = "canceled"
    BY DEF SessionsOK
  <2>1. /\ server[s].state = "none" => Untouched(s)
        /\ server[s].state = "none" => flow.session # s /\ \A r \in net : r.session # s
        /\ server[s].state = "confirmed" => \A c \in Cards : clicked[s] # <<>>
        /\ s \notin regretted /\ clicked[s] # <<>> => \A c \in Cards : <<s, c>> \in lateEdits \/ server[s].values[c] = clicked[s][c]
        /\ heard[s] = "confirm" => server[s].state = "confirmed"
        /\ heard[s] = "cancel" => server[s].state = "canceled"
    BY <1>1 DEF SessionsOK
  <2>2. server[s].state = "none" => Untouched(s)'
    <3>1. server[s].state = "none" => heard'[s] = heard[s] OBVIOUS
    <3> QED BY <2>1, <3>1 DEF Untouched
  <2>3. server[s].state = "none" => flow'.session # s /\ \A r \in net' : r.session # s
    <3> SUFFICES ASSUME server[s].state = "none", NEW r \in net' PROVE r.session # s
      <4>1. s # 0 BY <1>1 DEF EditorTypes, Sessions
      <4> QED BY <2>1, <4>1
    <3>1. CASE r \in net BY <2>1, <3>1
    <3>2. CASE r \in sent
      <4>1. s # 0 BY <1>1 DEF EditorTypes, Sessions
      <4>2. r.session = 0 \/ r.session = flow.session BY <3>2 DEF TurnRequest
      <4> QED BY <2>1, <4>1, <4>2
    <3> QED BY <3>1, <3>2
  <2>4. /\ heard'[s] = "confirm" => server[s].state = "confirmed"
        /\ heard'[s] = "cancel" => server[s].state = "canceled"
    BY <2>1
  <2> QED BY <2>1, <2>2, <2>3, <2>4
<1>3. ASSUME NEW r \in net PROVE RequestOK(r)' /\ Stale(r)'
  <2>1. RequestOK(r) /\ r \in Messages /\ flow \in FlowSet BY <1>1 DEF RequestsOK, EditorTypes
  <2>2. r.gen <= flow.gen /\ r.gen \in Nat /\ flow.gen \in Nat BY <2>1, FlowFields DEF RequestOK, Messages
  <2>3. Stale(r)' /\ r.gen <= flow'.gen BY <2>2 DEF Stale
  <2>4. r.session # 0 => ~Held(r.session)' BY DEF Held
  <2>5. ASSUME r.kind = "upload", r.session # 0 PROVE Untouched(r.session)' /\ flow'.session # r.session
    <3>1. r.session \in Sessions /\ Untouched(r.session) /\ flow.session # r.session BY <2>1, <2>5 DEF RequestOK, Messages
    <3>2. heard'[r.session] = heard[r.session] BY <2>5, <3>1
    <3> QED BY <2>5, <3>1, <3>2 DEF Untouched
  <2>6. r.kind # "upload" => r.session # 0 BY <2>1 DEF RequestOK
  <2>7. /\ r.kind = "upload" => (r.session # 0 <=> r.answer = "ok")
        /\ r.kind = "patch" => r.card \in Cards
        /\ r.kind = "patch" /\ r.session \notin regretted /\ clicked[r.session] # <<>> => <<r.session, r.card>> \in lateEdits
        /\ r.kind = "confirm" => \A c \in Cards : clicked[r.session] # <<>>
        /\ r.kind = "confirm" /\ r.answer = "ok" => server[r.session].state = "confirmed"
        /\ r.kind = "cancel" /\ r.answer = "ok" => server[r.session].state = "canceled"
    BY <2>1 DEF RequestOK
  <2> QED BY <2>3, <2>4, <2>5, <2>6, <2>7 DEF RequestOK
<1>4. \A r \in net' : RequestOK(r)' BY <1>3
<1>5. /\ \A r, q \in net : r.kind = "upload" /\ q.kind = "upload" /\ r.gen = q.gen => r = q
      /\ \A r, q \in net : r.kind = "upload" /\ r.session # 0 /\ q.session = r.session => q = r
  BY <1>1 DEF RequestsOK
<1>6. ASSUME NEW r \in net', NEW q \in net'
      PROVE /\ r.kind = "patch" /\ q.kind = "patch" /\ ~Stale(r)' /\ ~Stale(q)' => r = q
            /\ r.kind = "upload" /\ q.kind = "upload" /\ r.gen = q.gen => r = q
            /\ r.kind = "upload" /\ r.session # 0 /\ q.session = r.session => q = r
  <2>1. CASE r \in net /\ q \in net BY <1>3, <1>5, <2>1
  <2>2. CASE r \in sent /\ q \in sent
    <3>1. q = r BY <2>2
    <3> QED BY <3>1
  <2>3. CASE r \in sent /\ q \in net
    <3>1. q.gen # flow.gen + 1
      <4>1. RequestOK(q) /\ q \in Messages /\ flow \in FlowSet BY <1>1, <2>3 DEF RequestsOK, EditorTypes
      <4>2. q.gen <= flow.gen /\ q.gen \in Nat /\ flow.gen \in Nat BY <4>1, FlowFields DEF RequestOK, Messages
      <4> QED BY <4>2
    <3>2. (r.kind = "upload" /\ r.session = 0 /\ r.gen = flow.gen + 1) \/ r.kind = "cancel" BY <2>3 DEF TurnRequest
    <3> QED BY <3>1, <3>2
  <2>4. CASE r \in net /\ q \in sent
    <3>1. r.gen # flow.gen + 1 /\ (r.kind = "upload" /\ r.session # 0 => flow.session # r.session)
      <4>1. RequestOK(r) /\ r \in Messages /\ flow \in FlowSet BY <1>1, <2>4 DEF RequestsOK, EditorTypes
      <4>2. r.gen <= flow.gen /\ r.gen \in Nat /\ flow.gen \in Nat BY <4>1, FlowFields DEF RequestOK, Messages
      <4> QED BY <4>1, <4>2 DEF RequestOK
    <3>2. (q.kind = "upload" /\ q.session = 0 /\ q.gen = flow.gen + 1) \/ (q.kind = "cancel" /\ q.session = flow.session)
      BY <2>4 DEF TurnRequest
    <3> QED BY <3>1, <3>2
  <2> QED BY <2>1, <2>2, <2>3, <2>4
<1>7. RequestsOK' BY <1>4, <1>6 DEF RequestsOK
<1> QED BY <1>2, <1>7

\* The page forgets the workflow and sends at most one request.
LEMMA ForgetStep ==
  ASSUME EditorInv, flow' = IdleFlow(flow.gen + 1), SessionsOK', RequestsOK', EditorTypes'
  PROVE EditorInv'
<1>1. flow.gen \in Nat BY FlowFields DEF EditorInv, EditorTypes
<1>2. PICK q : q = flow' OBVIOUS
<1>3. /\ q.session = 0 /\ ~q.canceling /\ SavesOK(q) BY <1>1, <1>2, IdleIs
<1>4. ShownOK' /\ LateOK' /\ CancelOK' BY <1>2, <1>3 DEF ShownOK, LateOK, CancelOK
<1> QED BY <1>2, <1>3, <1>4 DEF EditorInv

\* A login, a logout or a mode switch.
LEMMA LeaveKeeps ==
  ASSUME EditorInv, Leave
  PROVE EditorInv'
<1>1. EditorTypes BY DEF EditorInv
<1>2. flow.gen \in Nat BY <1>1, FlowFields DEF EditorTypes
<1>3. flow' = IdleFlow(flow.gen + 1) /\ UNCHANGED <<net, server, edits, clicked, lateEdits, regretted, heard>> BY DEF Leave
<1>4. flow' \in FlowSet /\ flow'.gen = flow.gen + 1 /\ flow'.session = 0 BY <1>2, <1>3, IdleIs
<1>5. PICK sent : sent = {} OBVIOUS
<1>6. SessionsOK' /\ RequestsOK'
  <2>1. net' \subseteq net \cup sent /\ \A p \in sent : \A q \in sent : q = p BY <1>3, <1>5
  <2>2. \A p \in sent : RequestOK(p)' /\ TurnRequest(p)
    BY <1>5
  <2>3. heard' \in [Sessions -> {"nothing", "confirm", "cancel"}] /\ heard' = heard BY <1>1, <1>3 DEF EditorTypes
  <2>4. server' = server /\ edits' = edits /\ clicked' = clicked /\ lateEdits' = lateEdits /\ regretted' = regretted BY <1>3
  <2> QED BY <1>4, <2>1, <2>2, <2>3, <2>4, TurnStep
<1>7. EditorTypes' BY <1>1, <1>3, <1>4 DEF EditorTypes
<1> QED BY <1>3, <1>6, <1>7, ForgetStep

\* uploadPortfolioImport.
LEMMA UploadKeeps ==
  ASSUME EditorInv, Upload
  PROVE EditorInv'
<1>1. EditorTypes BY DEF EditorInv
<1>2. flow \in FlowSet /\ flow.gen \in Nat BY <1>1, FlowFields DEF EditorTypes
<1>3. PICK i : i = IdleFlow(flow.gen + 1) OBVIOUS
<1>4. PICK q : q = flow' OBVIOUS
<1>5. /\ q = [i EXCEPT !.uploading = TRUE]
      /\ UNCHANGED <<server, edits, clicked, lateEdits, regretted, heard>>
  BY <1>3, <1>4 DEF Upload
<1>6. /\ i \in FlowSet /\ i.gen = flow.gen + 1 /\ i.session = 0 /\ ~i.canceling /\ Waiting(i) = {} /\ i.running = <<>> /\ SavesOK(i)
  BY <1>2, <1>3, IdleIs
<1>7. /\ q \in FlowSet /\ q.gen = i.gen /\ q.session = i.session /\ q.canceling = i.canceling
      /\ q.cards = i.cards /\ q.screen = i.screen /\ q.version = i.version /\ q.pend = i.pend
      /\ q.errors = i.errors /\ q.queue = i.queue /\ q.running = i.running
  BY <1>5, <1>6 DEF FlowSet
<1>8. SavesOK(q)
  <2>1. Waiting(q) = Waiting(i) /\ Saving(q) = Saving(i) BY <1>7 DEF Waiting, Saving
  <2> QED BY <1>6, <1>7, <2>1 DEF SavesOK, Running
<1>9. PICK p : p = [Request("upload", 0, 0, 0) EXCEPT !.gen = flow.gen + 1, !.session = 0] OBVIOUS
<1>10. net' = net \cup {p} BY <1>9 DEF Upload
<1>11. /\ p.kind = "upload" /\ p.gen = flow.gen + 1 /\ p.session = 0 /\ p.answer = "none" /\ p \in Messages
  <2>1. p = [kind |-> "upload", gen |-> flow.gen + 1, session |-> 0, card |-> 0, value |-> 0, version |-> 0, answer |-> "none"]
    BY <1>9 DEF Request
  <2> QED BY <1>2, <2>1 DEF Messages
<1>12. RequestOK(p)' BY <1>2, <1>4, <1>6, <1>7, <1>11 DEF RequestOK, Stale
<1>13. PICK sent : sent = {p} OBVIOUS
<1>14. SessionsOK' /\ RequestsOK'
  <2>1. net' \subseteq net \cup sent /\ \A x \in sent : \A y \in sent : y = x BY <1>10, <1>13
  <2>2. \A x \in sent : RequestOK(x)' /\ TurnRequest(x)
    BY <1>11, <1>12, <1>13 DEF TurnRequest
  <2>3. heard' \in [Sessions -> {"nothing", "confirm", "cancel"}] /\ heard' = heard BY <1>1, <1>5 DEF EditorTypes
  <2>4. server' = server /\ edits' = edits /\ clicked' = clicked /\ lateEdits' = lateEdits /\ regretted' = regretted BY <1>5
  <2>5. flow'.gen = flow.gen + 1 /\ flow'.session = 0 BY <1>4, <1>6, <1>7
  <2> QED BY <2>1, <2>2, <2>3, <2>4, <2>5, TurnStep
<1>15. EditorTypes' BY <1>1, <1>4, <1>5, <1>7, <1>10, <1>11 DEF EditorTypes
<1>16. ShownOK' /\ LateOK' /\ CancelOK' BY <1>4, <1>6, <1>7 DEF ShownOK, LateOK, CancelOK
<1> QED BY <1>4, <1>8, <1>14, <1>15, <1>16 DEF EditorInv

\* cancelPortfolioImport begins a generation without saves and keeps the session.
LEMMA CancelKeeps ==
  ASSUME EditorInv, CancelReview
  PROVE EditorInv'
<1>1. EditorTypes BY DEF EditorInv
<1>2. flow \in FlowSet /\ flow.gen \in Nat /\ flow.cards \in [Cards -> Int] /\ flow.session \in Sessions \cup {0} /\ flow.dialog \in BOOLEAN
  BY <1>1, FlowFields DEF EditorTypes
<1>3. PICK i : i = IdleFlow(flow.gen + 1) OBVIOUS
<1>4. PICK q : q = flow' OBVIOUS
<1>5. UNCHANGED <<server, edits, clicked, lateEdits, regretted, heard>> BY DEF CancelReview
<1>6. /\ i \in FlowSet /\ i.gen = flow.gen + 1 /\ i.session = 0 /\ ~i.canceling /\ Waiting(i) = {} /\ i.running = <<>>
      /\ i.queue = <<>> /\ i.errors = {} /\ i.pend = [c \in {} |-> 0]
  BY <1>2, <1>3, IdleIs
<1>7. CASE flow.session = 0
  <2>1. flow' = IdleFlow(flow.gen + 1) /\ net' = net BY <1>7 DEF CancelReview
  <2>2. PICK sent : sent = {} OBVIOUS
  <2>3. SessionsOK' /\ RequestsOK'
    <3>1. net' \subseteq net \cup sent /\ \A p \in sent : \A x \in sent : x = p BY <2>1, <2>2
    <3>2. \A p \in sent : RequestOK(p)' /\ TurnRequest(p)
      BY <2>2
    <3>3. heard' \in [Sessions -> {"nothing", "confirm", "cancel"}] /\ heard' = heard BY <1>1, <1>5 DEF EditorTypes
    <3>4. server' = server /\ edits' = edits /\ clicked' = clicked /\ lateEdits' = lateEdits /\ regretted' = regretted BY <1>5
    <3>5. flow'.gen = flow.gen + 1 /\ flow'.session = 0 BY <1>3, <1>6, <2>1
    <3> QED BY <3>1, <3>2, <3>3, <3>4, <3>5, TurnStep
  <2>4. EditorTypes' BY <1>1, <1>3, <1>5, <1>6, <2>1 DEF EditorTypes
  <2> QED BY <2>1, <2>3, <2>4, ForgetStep
<1>8. CASE flow.session # 0
  <2>1. PICK k : k = [i EXCEPT !.session = flow.session, !.cards = flow.cards, !.busy = TRUE, !.canceling = TRUE, !.dialog = flow.dialog]
    OBVIOUS
  <2>2. q = Render(k) BY <1>3, <1>4, <1>8, <2>1 DEF CancelReview
  <2>3. /\ k \in FlowSet /\ k.gen = i.gen /\ k.session = flow.session /\ k.canceling /\ k.busy /\ k.pend = i.pend
        /\ k.errors = i.errors /\ k.queue = i.queue /\ k.running = i.running /\ Waiting(k) = {}
    <3>1. k = [gen |-> i.gen, session |-> flow.session, uploading |-> i.uploading, busy |-> TRUE, canceling |-> TRUE,
               cancelError |-> i.cancelError, dialog |-> flow.dialog, cards |-> flow.cards, screen |-> i.screen, version |-> i.version,
               pend |-> i.pend, errors |-> i.errors, queue |-> i.queue, queued |-> i.queued, running |-> i.running]
      BY <1>6, <2>1 DEF FlowSet
    <3>2. k \in FlowSet BY <1>2, <1>6, <3>1 DEF FlowSet
    <3>3. Waiting(k) = {} BY <1>6, <3>1 DEF Waiting
    <3> QED BY <3>1, <3>2, <3>3
  <2>4. /\ q \in FlowSet /\ Steady(q, k) /\ q.pend = k.pend /\ q.errors = k.errors /\ q.queue = k.queue /\ q.running = k.running
    BY <2>2, <2>3, RenderIs
  <2>5. q.gen = flow.gen + 1 /\ q.session = flow.session /\ q.canceling /\ q.busy /\ Waiting(q) = {} /\ q.queue = <<>> /\ q.running = <<>>
    BY <1>6, <2>3, <2>4 DEF Steady, Waiting
  <2>6. SavesOK(q) BY <1>8, <2>5 DEF SavesOK, Running
  <2>7. PICK p : p = [Request("cancel", 0, 0, 0) EXCEPT !.gen = flow.gen + 1] OBVIOUS
  <2>8. net' = net \cup {p} BY <1>8, <2>7 DEF CancelReview
  <2>9. p.kind = "cancel" /\ p.gen = flow.gen + 1 /\ p.session = flow.session /\ p.answer = "none" /\ p \in Messages
    BY <1>2, <2>7 DEF Request, Messages
  <2>10. RequestOK(p)' BY <1>2, <1>4, <1>8, <2>5, <2>9 DEF RequestOK, Stale
  <2>11. PICK sent : sent = {p} OBVIOUS
  <2>12. SessionsOK' /\ RequestsOK'
    <3>1. net' \subseteq net \cup sent /\ \A x \in sent : \A y \in sent : y = x BY <2>8, <2>11
    <3>2. \A x \in sent : RequestOK(x)' /\ TurnRequest(x)
      BY <1>8, <2>9, <2>10, <2>11 DEF TurnRequest
    <3>3. heard' \in [Sessions -> {"nothing", "confirm", "cancel"}] /\ heard' = heard BY <1>1, <1>5 DEF EditorTypes
    <3>4. server' = server /\ edits' = edits /\ clicked' = clicked /\ lateEdits' = lateEdits /\ regretted' = regretted BY <1>5
    <3>5. flow'.gen = flow.gen + 1 /\ flow'.session = flow.session /\ flow'.canceling BY <1>4, <2>5
    <3> QED BY <3>1, <3>2, <3>3, <3>4, <3>5, TurnStep
  <2>13. EditorTypes' BY <1>1, <1>4, <1>5, <2>4, <2>8, <2>9 DEF EditorTypes
  <2>14. ShownOK' /\ LateOK' /\ CancelOK' BY <1>4, <2>5 DEF ShownOK, LateOK, CancelOK, Held, Running
  <2> QED BY <1>4, <2>6, <2>12, <2>13, <2>14 DEF EditorInv
<1> QED BY <1>7, <1>8

-----------------------------------------------------------------------------
\* A click on the confirmation fixes what the screen shows; nothing of the session is on its way.
LEMMA ConfirmKeeps ==
  ASSUME EditorInv, Confirm
  PROVE EditorInv'
<1>1. EditorTypes /\ SavesOK(flow) /\ SessionsOK /\ RequestsOK /\ ShownOK /\ LateOK /\ CancelOK BY DEF EditorInv
<1>2. /\ flow \in FlowSet /\ flow.gen \in Nat /\ flow.screen \in [Cards -> Int] /\ flow.running \in Save \cup {<<>>}
      /\ clicked \in [Sessions -> [Cards -> Int] \cup {<<>>}] /\ lateEdits \subseteq Sessions \X Cards
  BY <1>1, FlowFields DEF EditorTypes
<1>3. PICK s : s = flow.session OBVIOUS
<1>4. s \in Sessions /\ s # 0 /\ ~flow.busy /\ ~flow.canceling /\ Waiting(flow) = {} /\ Saving(flow) = {} /\ flow.errors = {}
  <2>1. s # 0 /\ ~flow.busy /\ Waiting(flow) = {} /\ Saving(flow) = {} /\ flow.errors = {}
    BY <1>3 DEF Confirm, ReadyAgain, Ready
  <2>2. s \in Sessions BY <1>2, <1>3, <2>1, FlowFields
  <2> QED BY <1>1, <2>1, <2>2 DEF CancelOK
<1>5. flow.running = <<>>
  <2>1. flow.running # <<>> => flow.running[1] \in Saving(flow) BY DEF Saving
  <2> QED BY <1>4, <2>1
<1>6. PICK q : q = flow' OBVIOUS
<1>7. /\ q \in FlowSet /\ q.gen = flow.gen /\ q.session = flow.session /\ q.canceling = flow.canceling /\ q.busy
      /\ q.cards = flow.cards /\ q.screen = flow.screen /\ q.version = flow.version /\ q.pend = flow.pend
      /\ q.errors = flow.errors /\ q.queue = flow.queue /\ q.running = flow.running
  BY <1>2, <1>6 DEF Confirm, FlowSet
<1>8. PICK p : p = Request("confirm", 0, 0, 0) OBVIOUS
<1>9. /\ net' = net \cup {p} /\ clicked' = [clicked EXCEPT ![s] = flow.screen] /\ lateEdits' = {x \in lateEdits : x[1] # s}
      /\ server' = server /\ edits' = edits /\ regretted' = regretted /\ heard' = heard
  BY <1>3, <1>8 DEF Confirm
<1>10. /\ p.kind = "confirm" /\ p.gen = flow.gen /\ p.session = s /\ p.answer = "none" /\ p \in Messages
  <2>1. p = [kind |-> "confirm", gen |-> flow.gen, session |-> s, card |-> 0, value |-> 0, version |-> 0, answer |-> "none"]
    BY <1>3, <1>8 DEF Request
  <2> QED BY <1>2, <1>4, <2>1 DEF Messages
<1>11. clicked'[s] = flow.screen /\ \A c \in Cards : clicked'[s] # <<>>
  <2>1. clicked'[s] = flow.screen BY <1>2, <1>4, <1>9
  <2>2. ASSUME NEW c \in Cards PROVE flow.screen # <<>>
    <3>1. DOMAIN flow.screen = Cards BY <1>2
    <3>2. DOMAIN <<>> = {} OBVIOUS
    <3> QED BY <3>1, <3>2
  <2> QED BY <2>1, <2>2
<1>12. \A t \in Sessions : t # s => /\ clicked'[t] = clicked[t]
                                  /\ \A c \in Cards : <<t, c>> \in lateEdits' <=> <<t, c>> \in lateEdits
  BY <1>2, <1>4, <1>9
<1>13. Held(s) => \A c \in Cards : server[s].values[c] = flow.screen[c]
  BY <1>1, <1>3, <1>4, <1>5 DEF ShownOK, Running
<1>14. server[s].state # "none" BY <1>1, <1>3, <1>4 DEF SessionsOK
<1>15. ASSUME NEW t \in Sessions, t # s, Untouched(t) PROVE Untouched(t)'
  BY <1>9, <1>12, <1>15 DEF Untouched
<1>16. SessionsOK'
  <2> SUFFICES ASSUME NEW t \in Sessions
               PROVE /\ server[t].state = "none" => Untouched(t)'
                     /\ server[t].state = "none" => flow'.session # t /\ \A r \in net' : r.session # t
                     /\ server[t].state = "confirmed" => \A c \in Cards : clicked'[t] # <<>>
                     /\ t \notin regretted /\ clicked'[t] # <<>> => \A c \in Cards : <<t, c>> \in lateEdits' \/ server[t].values[c] = clicked'[t][c]
                     /\ heard[t] = "confirm" => server[t].state = "confirmed"
                     /\ heard[t] = "cancel" => server[t].state = "canceled"
    BY <1>9 DEF SessionsOK
  <2>1. /\ server[t].state = "none" => Untouched(t)
        /\ server[t].state = "none" => flow.session # t /\ \A r \in net : r.session # t
        /\ server[t].state = "confirmed" => \A c \in Cards : clicked[t] # <<>>
        /\ t \notin regretted /\ clicked[t] # <<>> => \A c \in Cards : <<t, c>> \in lateEdits \/ server[t].values[c] = clicked[t][c]
        /\ heard[t] = "confirm" => server[t].state = "confirmed"
        /\ heard[t] = "cancel" => server[t].state = "canceled"
    BY <1>1 DEF SessionsOK
  <2>2. CASE t = s
    <3>1. t \notin regretted => Held(t) BY <1>3, <1>4, <2>2 DEF Held
    <3>2. t \notin regretted /\ clicked'[t] # <<>> => \A c \in Cards : <<t, c>> \in lateEdits' \/ server[t].values[c] = clicked'[t][c]
      BY <1>11, <1>13, <2>2, <3>1
    <3> QED BY <1>11, <1>14, <2>1, <2>2, <3>2
  <2>3. CASE t # s
    <3>1. server[t].state = "none" => Untouched(t)' BY <1>15, <2>1, <2>3
    <3>2. server[t].state = "none" => flow'.session # t /\ \A r \in net' : r.session # t BY <1>3, <1>6, <1>7, <1>9, <1>10, <2>1, <2>3
    <3> QED BY <1>12, <2>1, <2>3, <3>1, <3>2
  <2> QED BY <2>2, <2>3
<1>17. ASSUME NEW r \in net PROVE RequestOK(r)'
  <2>1. RequestOK(r) /\ r \in Messages BY <1>1 DEF RequestsOK, EditorTypes
  <2>2. Stale(r)' <=> Stale(r) BY <1>6, <1>7 DEF Stale
  <2>3. Held(r.session)' <=> Held(r.session) BY <1>6, <1>7, <1>9 DEF Held
  <2>4. ASSUME r.kind = "upload", r.session # 0 PROVE Untouched(r.session)' /\ flow.session # r.session
    <3>1. r.session \in Sessions /\ Untouched(r.session) /\ flow.session # r.session BY <2>1, <2>4 DEF RequestOK, Messages
    <3> QED BY <1>3, <1>15, <3>1
  <2>5. r.kind # "upload" => r.session \in Sessions BY <2>1 DEF RequestOK, Messages
  <2>6. r.kind = "patch" /\ r.session \notin regretted /\ clicked'[r.session] # <<>> => <<r.session, r.card>> \in lateEdits'
    <3> SUFFICES ASSUME r.kind = "patch", r.session \notin regretted, clicked'[r.session] # <<>>
                 PROVE <<r.session, r.card>> \in lateEdits'
      OBVIOUS
    <3>1. CASE r.session = s
      <4>1. Held(s) /\ r.session # 0 BY <1>3, <1>4, <3>1 DEF Held
      <4>2. ~Stale(r) BY <2>1, <3>1, <4>1 DEF RequestOK
      <4>3. flow.running = <<r.card, r.version>> BY <2>1, <4>2 DEF RequestOK
      <4> QED BY <1>5, <4>3
    <3>2. CASE r.session # s
      <4>1. r.card \in Cards BY <2>1 DEF RequestOK
      <4>2. clicked[r.session] # <<>> BY <1>12, <2>5, <3>2
      <4>3. <<r.session, r.card>> \in lateEdits BY <2>1, <4>2 DEF RequestOK
      <4> QED BY <1>12, <2>5, <3>2, <4>1, <4>3
    <3> QED BY <3>1, <3>2
  <2>7. r.kind = "confirm" => \A c \in Cards : clicked'[r.session] # <<>>
    <3>1. CASE r.session = s BY <1>11, <3>1
    <3>2. CASE r.session # s BY <1>12, <2>1, <2>5, <3>2 DEF RequestOK
    <3> QED BY <3>1, <3>2
  <2> QED BY <1>6, <1>7, <1>9, <2>1, <2>2, <2>3, <2>4, <2>6, <2>7 DEF RequestOK
<1>18. RequestOK(p)'
  <2>1. ~Stale(p)' BY <1>6, <1>7, <1>10 DEF Stale
  <2>2. p.gen <= flow'.gen BY <1>2, <1>6, <1>7, <1>10
  <2> QED BY <1>3, <1>4, <1>6, <1>7, <1>10, <1>11, <2>1, <2>2 DEF RequestOK
<1>19. RequestsOK'
  <2>1. \A r \in net' : RequestOK(r)' BY <1>9, <1>17, <1>18
  <2>2. /\ \A r, x \in net : r.kind = "patch" /\ x.kind = "patch" /\ ~Stale(r) /\ ~Stale(x) => r = x
        /\ \A r, x \in net : r.kind = "upload" /\ x.kind = "upload" /\ r.gen = x.gen => r = x
        /\ \A r, x \in net : r.kind = "upload" /\ r.session # 0 /\ x.session = r.session => x = r
        /\ \A r \in net : r.kind = "upload" /\ r.session # 0 => r.session # s
    BY <1>1, <1>3 DEF RequestsOK, RequestOK
  <2>3. \A r : Stale(r)' <=> Stale(r) BY <1>6, <1>7 DEF Stale
  <2>4. /\ \A r, x \in net' : r.kind = "patch" /\ x.kind = "patch" /\ ~Stale(r)' /\ ~Stale(x)' => r = x
        /\ \A r, x \in net' : r.kind = "upload" /\ x.kind = "upload" /\ r.gen = x.gen => r = x
        /\ \A r, x \in net' : r.kind = "upload" /\ r.session # 0 /\ x.session = r.session => x = r
    BY <1>9, <1>10, <2>2, <2>3
  <2> QED BY <2>1, <2>4 DEF RequestsOK
<1>20. EditorTypes'
  <2>1. clicked' \in [Sessions -> [Cards -> Int] \cup {<<>>}] BY <1>2, <1>4, <1>9
  <2> QED BY <1>1, <1>6, <1>7, <1>9, <1>10, <2>1 DEF EditorTypes
<1>21. SavesOK(q)
  <2>1. Waiting(q) = Waiting(flow) /\ Saving(q) = Saving(flow) BY <1>7 DEF Waiting, Saving
  <2> QED BY <1>1, <1>7, <2>1 DEF SavesOK, Running
<1>22. ShownOK'
  <2>1. Waiting(q) = Waiting(flow) BY <1>7 DEF Waiting
  <2>2. Held(flow.session)' <=> Held(flow.session) BY <1>6, <1>7, <1>9 DEF Held
  <2>3. \A d \in Cards : Running(q, d) <=> Running(flow, d) BY <1>7 DEF Running
  <2>4. ShownOK BY <1>1
  <2> QED BY <1>6, <1>7, <1>9, <2>1, <2>2, <2>3, <2>4 DEF ShownOK
<1>23. LateOK'
  <2>1. Waiting(q) = {} /\ \A d \in Cards : ~Running(q, d) BY <1>4, <1>5, <1>7 DEF Waiting, Running
  <2> QED BY <1>6, <2>1 DEF LateOK
<1>24. CancelOK' BY <1>6, <1>7 DEF CancelOK
<1> QED BY <1>6, <1>16, <1>19, <1>20, <1>21, <1>22, <1>23, <1>24 DEF EditorInv

-----------------------------------------------------------------------------
\* An answer that leaves the session: requests and sessions.
LEMMA AnswerStep ==
  ASSUME EditorInv, net' \subseteq net, flow'.gen = flow.gen, flow'.session = flow.session, flow'.running = flow.running,
         ~flow.canceling => ~flow'.canceling, server' = server, clicked' = clicked, lateEdits' = lateEdits, heard' = heard,
         regretted \subseteq regretted',
         \A s \in Sessions : s \in regretted' => \/ s \in regretted
                                                 \/ server[s].state # "none" /\ \A p \in net : p.kind = "upload" => p.session # s,
         \A s \in Sessions : Held(s)' => Held(s)
  PROVE SessionsOK' /\ RequestsOK'
<1>1. EditorTypes /\ SessionsOK /\ RequestsOK BY DEF EditorInv
<1>2. SessionsOK'
  <2> SUFFICES ASSUME NEW s \in Sessions
               PROVE /\ server[s].state = "none" => Untouched(s)'
                     /\ server[s].state = "none" => flow'.session # s /\ \A r \in net' : r.session # s
                     /\ server[s].state = "confirmed" => \A c \in Cards : clicked[s] # <<>>
                     /\ s \notin regretted' /\ clicked[s] # <<>> => \A c \in Cards : <<s, c>> \in lateEdits \/ server[s].values[c] = clicked[s][c]
                     /\ heard[s] = "confirm" => server[s].state = "confirmed"
                     /\ heard[s] = "cancel" => server[s].state = "canceled"
    BY DEF SessionsOK
  <2>1. /\ server[s].state = "none" => Untouched(s)
        /\ server[s].state = "none" => flow.session # s /\ \A r \in net : r.session # s
        /\ server[s].state = "confirmed" => \A c \in Cards : clicked[s] # <<>>
        /\ s \notin regretted /\ clicked[s] # <<>> => \A c \in Cards : <<s, c>> \in lateEdits \/ server[s].values[c] = clicked[s][c]
        /\ heard[s] = "confirm" => server[s].state = "confirmed"
        /\ heard[s] = "cancel" => server[s].state = "canceled"
    BY <1>1 DEF SessionsOK
  <2>2. server[s].state = "none" => Untouched(s)'
    <3>1. server[s].state = "none" /\ s \notin regretted => s \notin regretted' OBVIOUS
    <3> QED BY <2>1, <3>1 DEF Untouched
  <2>3. s \notin regretted' => s \notin regretted OBVIOUS
  <2> QED BY <2>1, <2>2, <2>3
<1>3. ASSUME NEW r \in net, r \in net' PROVE RequestOK(r)'
  <2>1. RequestOK(r) /\ r \in Messages BY <1>1 DEF RequestsOK, EditorTypes
  <2>2. Stale(r)' <=> Stale(r) BY DEF Stale
  <2>3. r.session # 0 => r.session \in Sessions BY <2>1 DEF Messages
  <2>4. r.session # 0 /\ Held(r.session)' => Held(r.session) BY <2>3
  <2>5. ASSUME r.kind = "upload", r.session # 0 PROVE Untouched(r.session)' /\ flow.session # r.session
    <3>1. r.session \in Sessions /\ Untouched(r.session) /\ flow.session # r.session BY <2>1, <2>3, <2>5 DEF RequestOK
    <3>2. r.session \notin regretted' BY <2>5, <3>1 DEF Untouched
    <3> QED BY <3>1, <3>2 DEF Untouched
  <2>6. r.kind = "patch" => r.session # 0 BY <2>1 DEF RequestOK
  <2>7. r.kind = "patch" /\ r.session \notin regretted' /\ clicked[r.session] # <<>> => <<r.session, r.card>> \in lateEdits
    BY <2>1 DEF RequestOK
  <2>8. r.kind = "patch" /\ Held(r.session)' /\ r.answer = "ok" => server[r.session].values[r.card] = r.value
    BY <2>1, <2>4, <2>6 DEF RequestOK
  <2>9. r.session # 0 /\ Held(r.session)' => ~Stale(r) BY <2>1, <2>4 DEF RequestOK
  <2>10. r.kind = "confirm" /\ ~Stale(r) => ~flow'.canceling BY <2>1 DEF RequestOK
  <2>11. /\ r.gen <= flow.gen
         /\ r.kind # "upload" => r.session # 0 /\ (~Stale(r) => r.session = flow.session)
         /\ r.kind = "upload" /\ ~Stale(r) => flow.session = 0
         /\ r.kind = "upload" => (r.session # 0 <=> r.answer = "ok")
         /\ r.kind = "patch" => r.card \in Cards
         /\ r.kind = "patch" /\ ~Stale(r) => flow.running = <<r.card, r.version>>
         /\ r.kind = "confirm" => \A c \in Cards : clicked[r.session] # <<>>
         /\ r.kind = "confirm" /\ r.answer = "ok" => server[r.session].state = "confirmed"
         /\ r.kind = "cancel" /\ r.answer = "ok" => server[r.session].state = "canceled"
    BY <2>1 DEF RequestOK
  <2> QED BY <2>2, <2>5, <2>7, <2>8, <2>9, <2>10, <2>11 DEF RequestOK
<1>4. \A r \in net' : RequestOK(r)' BY <1>3
<1>5. \A r : Stale(r)' <=> Stale(r) BY DEF Stale
<1>6. /\ \A r, x \in net' : r.kind = "patch" /\ x.kind = "patch" /\ ~Stale(r)' /\ ~Stale(x)' => r = x
      /\ \A r, x \in net' : r.kind = "upload" /\ x.kind = "upload" /\ r.gen = x.gen => r = x
      /\ \A r, x \in net' : r.kind = "upload" /\ r.session # 0 /\ x.session = r.session => x = r
  BY <1>1, <1>5 DEF RequestsOK
<1>7. RequestsOK' BY <1>4, <1>6 DEF RequestsOK
<1> QED BY <1>2, <1>7

\* A workflow with the same saves.
SameSaves(q, w) ==
  /\ q \in FlowSet /\ q.gen = w.gen /\ q.session = w.session /\ q.cards = w.cards /\ q.version = w.version /\ q.pend = w.pend
  /\ q.errors = w.errors /\ q.queue = w.queue /\ q.running = w.running

\* The order of the saves depends on the maps of saves and the cards alone.
LEMMA SameSavesOK ==
  ASSUME NEW w, NEW q, SavesOK(w), SameSaves(q, w), q.screen = w.screen \/ w.session # 0
  PROVE SavesOK(q) /\ Waiting(q) = Waiting(w) /\ \A d \in Cards : Running(q, d) <=> Running(w, d)
<1>1. Waiting(q) = Waiting(w) /\ Saving(q) = Saving(w) BY DEF SameSaves, Waiting, Saving
<1>2. \A d \in Cards : Running(q, d) <=> Running(w, d) BY DEF SameSaves, Running
<1>3. SavesOK(q) BY <1>1 DEF SavesOK, SameSaves, Running
<1> QED BY <1>1, <1>2, <1>3

\* An answer of an earlier generation.
LEMMA StaleAnswered ==
  ASSUME EditorInv, NEW r \in net, Stale(r), AnswerArrives(r)
  PROVE EditorInv'
<1>1. EditorTypes /\ SavesOK(flow) /\ SessionsOK /\ RequestsOK /\ ShownOK /\ LateOK /\ CancelOK BY DEF EditorInv
<1>2. /\ net' = net \ {r} /\ server' = server /\ edits' = edits /\ clicked' = clicked /\ lateEdits' = lateEdits /\ heard' = heard
      /\ regretted' = IF r.kind = "cancel" /\ r.answer = "failed" THEN regretted \cup {r.session} ELSE regretted
  BY DEF AnswerArrives
<1>3. flow' = flow
  <2>1. flow' = CASE Stale(r) -> flow
               [] ~Stale(r) /\ r.kind = "upload" ->
                    IF r.answer = "ok" THEN [flow EXCEPT !.uploading = FALSE, !.session = r.session]
                    ELSE [flow EXCEPT !.uploading = FALSE]
               [] ~Stale(r) /\ r.kind = "patch" -> Saved(r)
               [] ~Stale(r) /\ r.kind = "confirm" ->
                    IF r.answer = "ok" THEN IdleFlow(flow.gen + 1) ELSE Render([flow EXCEPT !.busy = FALSE])
               [] ~Stale(r) /\ r.kind = "cancel" ->
                    IF r.answer = "ok" THEN IdleFlow(flow.gen + 1)
                    ELSE Render([flow EXCEPT !.busy = FALSE, !.canceling = FALSE, !.cancelError = TRUE])
    BY DEF AnswerArrives
  <2> QED BY <2>1
<1>4. RequestOK(r) /\ r \in Messages BY <1>1 DEF RequestsOK, EditorTypes
<1>5. r.kind = "cancel" => r.session \in Sessions /\ server[r.session].state # "none" /\ \A p \in net : p.kind = "upload" => p.session # r.session
  <2>1. r.kind = "cancel" => r.session # 0 /\ r.session \in Sessions BY <1>4 DEF RequestOK, Messages
  <2>2. r.kind = "cancel" => \A p \in net : p.kind = "upload" => p.session # r.session
    BY <1>1, <2>1 DEF RequestsOK
  <2>3. r.kind = "cancel" => server[r.session].state # "none" BY <1>1, <2>1 DEF SessionsOK
  <2> QED BY <2>1, <2>2, <2>3
<1>6. /\ regretted \subseteq regretted' /\ regretted' \subseteq Sessions
      /\ \A s \in Sessions : s \in regretted' => \/ s \in regretted
                                                 \/ server[s].state # "none" /\ \A p \in net : p.kind = "upload" => p.session # s
  BY <1>1, <1>2, <1>5 DEF EditorTypes
<1>7. \A s \in Sessions : Held(s)' => Held(s) BY <1>3, <1>6 DEF Held
<1>8. SessionsOK' /\ RequestsOK' BY <1>2, <1>3, <1>6, <1>7, AnswerStep
<1>9. EditorTypes' BY <1>1, <1>2, <1>3, <1>6 DEF EditorTypes
<1>10. ShownOK'
  <2>1. Held(flow.session)' => Held(flow.session) BY <1>3, <1>6 DEF Held
  <2> QED BY <1>1, <1>2, <1>3, <2>1 DEF ShownOK, Waiting, Running
<1>11. LateOK' BY <1>1, <1>2, <1>3 DEF LateOK, Waiting, Running
<1>12. CancelOK' BY <1>1, <1>3 DEF CancelOK
<1>13. SavesOK(flow)' BY <1>1, <1>3
<1> QED BY <1>8, <1>9, <1>10, <1>11, <1>12, <1>13 DEF EditorInv

\* What an answer of the current generation does to the page.
LEMMA CurrentAnswer ==
  ASSUME NEW r, ~Stale(r), AnswerArrives(r)
  PROVE /\ r.kind = "upload" => flow' = IF r.answer = "ok" THEN [flow EXCEPT !.uploading = FALSE, !.session = r.session]
                                        ELSE [flow EXCEPT !.uploading = FALSE]
        /\ r.kind = "confirm" => flow' = IF r.answer = "ok" THEN IdleFlow(flow.gen + 1) ELSE Render([flow EXCEPT !.busy = FALSE])
        /\ r.kind = "cancel" => flow' = IF r.answer = "ok" THEN IdleFlow(flow.gen + 1)
                                        ELSE Render([flow EXCEPT !.busy = FALSE, !.canceling = FALSE, !.cancelError = TRUE])
<1>1. flow' = CASE Stale(r) -> flow
               [] ~Stale(r) /\ r.kind = "upload" ->
                    IF r.answer = "ok" THEN [flow EXCEPT !.uploading = FALSE, !.session = r.session]
                    ELSE [flow EXCEPT !.uploading = FALSE]
               [] ~Stale(r) /\ r.kind = "patch" -> Saved(r)
               [] ~Stale(r) /\ r.kind = "confirm" ->
                    IF r.answer = "ok" THEN IdleFlow(flow.gen + 1) ELSE Render([flow EXCEPT !.busy = FALSE])
               [] ~Stale(r) /\ r.kind = "cancel" ->
                    IF r.answer = "ok" THEN IdleFlow(flow.gen + 1)
                    ELSE Render([flow EXCEPT !.busy = FALSE, !.canceling = FALSE, !.cancelError = TRUE])
  BY DEF AnswerArrives
<1>2. r.kind = "upload" => flow' = IF r.answer = "ok" THEN [flow EXCEPT !.uploading = FALSE, !.session = r.session]
                                   ELSE [flow EXCEPT !.uploading = FALSE]
  BY <1>1
<1>3. r.kind = "confirm" => flow' = IF r.answer = "ok" THEN IdleFlow(flow.gen + 1) ELSE Render([flow EXCEPT !.busy = FALSE])
  BY <1>1
<1>4. r.kind = "cancel" => flow' = IF r.answer = "ok" THEN IdleFlow(flow.gen + 1)
                                   ELSE Render([flow EXCEPT !.busy = FALSE, !.canceling = FALSE, !.cancelError = TRUE])
  BY <1>1
<1> QED BY <1>2, <1>3, <1>4

\* A confirmation or a cancellation that succeeded is told, and the workflow is over.
LEMMA DoneAnswered ==
  ASSUME EditorInv, NEW r \in net, ~Stale(r), r.kind \in {"confirm", "cancel"}, r.answer = "ok", AnswerArrives(r)
  PROVE EditorInv'
<1>1. EditorTypes /\ SessionsOK /\ RequestsOK BY DEF EditorInv
<1>2. flow' = IdleFlow(flow.gen + 1) BY CurrentAnswer
<1>3. RequestOK(r) /\ r \in Messages BY <1>1 DEF RequestsOK, EditorTypes
<1>4. r.session \in Sessions /\ r.session # 0 BY <1>3 DEF RequestOK, Messages
<1>5. /\ net' = net \ {r} /\ server' = server /\ edits' = edits /\ clicked' = clicked /\ lateEdits' = lateEdits
      /\ regretted' = regretted /\ heard' = [heard EXCEPT ![r.session] = r.kind]
  BY DEF AnswerArrives
<1>6. /\ r.kind = "confirm" => server[r.session].state = "confirmed"
      /\ r.kind = "cancel" => server[r.session].state = "canceled"
  BY <1>3 DEF RequestOK
<1>7. \A p \in net : p.kind = "upload" => p.session # r.session BY <1>1, <1>4 DEF RequestsOK
<1>8. heard' \in [Sessions -> {"nothing", "confirm", "cancel"}] BY <1>1, <1>5 DEF EditorTypes
<1>9. \A s \in Sessions : heard'[s] # heard[s] =>
        /\ \/ heard'[s] = "confirm" /\ server[s].state = "confirmed"
           \/ heard'[s] = "cancel" /\ server[s].state = "canceled"
        /\ \A p \in net : p.kind = "upload" => p.session # s
  <2>1. \A s \in Sessions : heard'[s] # heard[s] => s = r.session /\ heard'[s] = r.kind BY <1>1, <1>5 DEF EditorTypes
  <2> QED BY <1>6, <1>7, <2>1
<1>10. flow.gen \in Nat BY <1>1, FlowFields DEF EditorTypes
<1>11. flow' \in FlowSet /\ flow'.gen = flow.gen + 1 /\ flow'.session = 0 BY <1>2, <1>10, IdleIs
<1>12. SessionsOK' /\ RequestsOK'
  <2>1. PICK sent : sent = {} OBVIOUS
  <2>2. net' \subseteq net \cup sent /\ \A p \in sent : \A q \in sent : q = p BY <1>5, <2>1
  <2>3. \A p \in sent : RequestOK(p)' /\ TurnRequest(p) BY <2>1
  <2> QED BY <1>5, <1>8, <1>9, <1>11, <2>2, <2>3, TurnStep
<1>13. EditorTypes' BY <1>1, <1>5, <1>8, <1>11 DEF EditorTypes
<1> QED BY <1>2, <1>12, <1>13, ForgetStep

\* An answer after which the page works on in the same session: cards drawn again or not.
LEMMA SameSessionStep ==
  ASSUME EditorInv, NEW q, q = flow', SameSaves(q, flow), q.screen = flow.screen \/ (flow.session # 0 /\ q.screen = flow.cards),
         ~flow.canceling => ~q.canceling, q.canceling => q.busy,
         net' \subseteq net, server' = server, edits' = edits, clicked' = clicked, lateEdits' = lateEdits, heard' = heard,
         regretted \subseteq regretted', regretted' \subseteq Sessions,
         \A s \in Sessions : s \in regretted' => \/ s \in regretted
                                                 \/ server[s].state # "none" /\ \A p \in net : p.kind = "upload" => p.session # s,
         \A s : Held(s)' => Held(s)
  PROVE EditorInv'
<1>1. EditorTypes /\ SavesOK(flow) /\ SessionsOK /\ RequestsOK /\ ShownOK /\ LateOK BY DEF EditorInv
<1>2. /\ q \in FlowSet /\ q.gen = flow.gen /\ q.session = flow.session /\ q.cards = flow.cards /\ q.errors = flow.errors /\ q.running = flow.running
  BY DEF SameSaves
<1>3. SavesOK(q) /\ Waiting(q) = Waiting(flow) /\ \A d \in Cards : Running(q, d) <=> Running(flow, d)
  BY <1>1, SameSavesOK
<1>4. SessionsOK' /\ RequestsOK' BY <1>2, AnswerStep
<1>5. EditorTypes' BY <1>1, <1>2 DEF EditorTypes
<1>6. ShownOK'
  <2>1. Held(flow.session)' => Held(flow.session)
    <3>1. PICK s : s = flow.session OBVIOUS
    <3>2. Held(s)' => Held(s) OBVIOUS
    <3>3. Held(flow.session)' => Held(s)' BY <1>2, <3>1 DEF Held
    <3> QED BY <3>1, <3>2, <3>3
  <2> QED BY <1>1, <1>2, <1>3, <2>1 DEF ShownOK
<1>7. LateOK' BY <1>1, <1>2, <1>3 DEF LateOK
<1>8. CancelOK' BY DEF CancelOK
<1> QED BY <1>3, <1>4, <1>5, <1>6, <1>7, <1>8 DEF EditorInv

\* A confirmation that failed gives the review back to the user.
LEMMA ConfirmFailed ==
  ASSUME EditorInv, NEW r \in net, ~Stale(r), r.kind = "confirm", r.answer # "ok", AnswerArrives(r)
  PROVE EditorInv'
<1>1. EditorTypes /\ RequestsOK /\ CancelOK BY DEF EditorInv
<1>2. RequestOK(r) /\ r \in Messages /\ flow \in FlowSet BY <1>1 DEF RequestsOK, EditorTypes
<1>3. flow.session # 0 /\ ~flow.canceling BY <1>2 DEF RequestOK
<1>4. flow' = Render([flow EXCEPT !.busy = FALSE]) BY CurrentAnswer
<1>5. PICK k : k = [flow EXCEPT !.busy = FALSE] OBVIOUS
<1>6. /\ k \in FlowSet /\ k.gen = flow.gen /\ k.session = flow.session /\ k.canceling = flow.canceling
      /\ k.cards = flow.cards /\ k.version = flow.version /\ k.pend = flow.pend
      /\ k.errors = flow.errors /\ k.queue = flow.queue /\ k.running = flow.running
  BY <1>2, <1>5 DEF FlowSet
<1>7. PICK q : q = flow' OBVIOUS
<1>8. q = Render(k) BY <1>4, <1>5, <1>7
<1>9. /\ q \in FlowSet /\ Steady(q, k) /\ q.cards = k.cards /\ q.screen = k.cards /\ q.version = k.version
      /\ q.pend = k.pend /\ q.errors = k.errors /\ q.queue = k.queue /\ q.running = k.running
  BY <1>6, <1>8, RenderIs
<1>10. SameSaves(q, flow) /\ q.screen = flow.cards /\ ~q.canceling BY <1>3, <1>6, <1>9 DEF SameSaves, Steady
<1>11. /\ net' = net \ {r} /\ server' = server /\ edits' = edits /\ clicked' = clicked /\ lateEdits' = lateEdits
       /\ regretted' = regretted /\ heard' = heard
  BY DEF AnswerArrives
<1>12. \A s : Held(s)' => Held(s) BY <1>3, <1>7, <1>10, <1>11 DEF Held, SameSaves
<1>13. regretted' \subseteq Sessions BY <1>1, <1>11 DEF EditorTypes
<1> QED BY <1>3, <1>7, <1>10, <1>11, <1>12, <1>13, SameSessionStep

\* After a cancellation that failed, the session counts as regretted.
LEMMA CancelFailed ==
  ASSUME EditorInv, NEW r \in net, ~Stale(r), r.kind = "cancel", r.answer # "ok", AnswerArrives(r)
  PROVE EditorInv'
<1>1. EditorTypes /\ SessionsOK /\ RequestsOK BY DEF EditorInv
<1>2. RequestOK(r) /\ r \in Messages /\ flow \in FlowSet BY <1>1 DEF RequestsOK, EditorTypes
<1>3. flow.session # 0 /\ r.session = flow.session /\ r.session \in Sessions BY <1>2 DEF RequestOK, Messages
<1>4. flow' = Render([flow EXCEPT !.busy = FALSE, !.canceling = FALSE, !.cancelError = TRUE]) BY CurrentAnswer
<1>5. PICK k : k = [flow EXCEPT !.busy = FALSE, !.canceling = FALSE, !.cancelError = TRUE] OBVIOUS
<1>6. /\ k \in FlowSet /\ k.gen = flow.gen /\ k.session = flow.session /\ ~k.canceling
      /\ k.cards = flow.cards /\ k.version = flow.version /\ k.pend = flow.pend
      /\ k.errors = flow.errors /\ k.queue = flow.queue /\ k.running = flow.running
  BY <1>2, <1>5 DEF FlowSet
<1>7. PICK q : q = flow' OBVIOUS
<1>8. q = Render(k) BY <1>4, <1>5, <1>7
<1>9. /\ q \in FlowSet /\ Steady(q, k) /\ q.cards = k.cards /\ q.screen = k.cards /\ q.version = k.version
      /\ q.pend = k.pend /\ q.errors = k.errors /\ q.queue = k.queue /\ q.running = k.running
  BY <1>6, <1>8, RenderIs
<1>10. SameSaves(q, flow) /\ q.screen = flow.cards /\ ~q.canceling BY <1>3, <1>6, <1>9 DEF SameSaves, Steady
<1>11. r.answer = "failed" BY <1>2 DEF Messages, AnswerArrives
<1>12. /\ net' = net \ {r} /\ server' = server /\ edits' = edits /\ clicked' = clicked /\ lateEdits' = lateEdits
       /\ regretted' = regretted \cup {r.session} /\ heard' = heard
  BY <1>11 DEF AnswerArrives
<1>13. server[r.session].state # "none" /\ \A p \in net : p.kind = "upload" => p.session # r.session
  BY <1>1, <1>3 DEF SessionsOK, RequestsOK
<1>14. /\ regretted \subseteq regretted' /\ regretted' \subseteq Sessions
       /\ \A s \in Sessions : s \in regretted' => \/ s \in regretted
                                                  \/ server[s].state # "none" /\ \A p \in net : p.kind = "upload" => p.session # s
  BY <1>1, <1>3, <1>12, <1>13 DEF EditorTypes
<1>15. \A s : Held(s)' => Held(s) BY <1>3, <1>7, <1>10, <1>12 DEF Held, SameSaves
<1> QED BY <1>3, <1>7, <1>10, <1>12, <1>14, <1>15, SameSessionStep

\* An upload that failed.
LEMMA UploadFailed ==
  ASSUME EditorInv, NEW r \in net, ~Stale(r), r.kind = "upload", r.answer # "ok", AnswerArrives(r)
  PROVE EditorInv'
<1>1. EditorTypes /\ CancelOK BY DEF EditorInv
<1>2. flow \in FlowSet BY <1>1 DEF EditorTypes
<1>3. flow' = [flow EXCEPT !.uploading = FALSE] BY CurrentAnswer
<1>4. PICK q : q = flow' OBVIOUS
<1>5. /\ SameSaves(q, flow) /\ q.screen = flow.screen /\ q.canceling = flow.canceling /\ q.busy = flow.busy
  BY <1>2, <1>3, <1>4 DEF FlowSet, SameSaves
<1>6. /\ net' = net \ {r} /\ server' = server /\ edits' = edits /\ clicked' = clicked /\ lateEdits' = lateEdits
      /\ regretted' = regretted /\ heard' = heard
  BY DEF AnswerArrives
<1>7. \A s : Held(s)' => Held(s) BY <1>4, <1>5, <1>6 DEF Held, SameSaves
<1>8. regretted' \subseteq Sessions BY <1>1, <1>6 DEF EditorTypes
<1>9. q.canceling => q.busy BY <1>1, <1>5 DEF CancelOK
<1> QED BY <1>4, <1>5, <1>6, <1>7, <1>8, <1>9, SameSessionStep

\* The upload's session comes: nothing of it has happened yet, and nothing else is current.
LEMMA UploadDone ==
  ASSUME EditorInv, NEW r \in net, ~Stale(r), r.kind = "upload", r.answer = "ok", AnswerArrives(r)
  PROVE EditorInv'
<1>1. EditorTypes /\ SavesOK(flow) /\ SessionsOK /\ RequestsOK /\ ShownOK /\ LateOK /\ CancelOK BY DEF EditorInv
<1>2. RequestOK(r) /\ r \in Messages /\ flow \in FlowSet BY <1>1 DEF RequestsOK, EditorTypes
<1>3. PICK s : s = r.session OBVIOUS
<1>4. s \in Sessions /\ s # 0 /\ Untouched(s) /\ flow.session = 0 BY <1>2, <1>3 DEF RequestOK, Messages
<1>5. /\ flow.pend = [c \in {} |-> 0] /\ flow.queue = <<>> /\ flow.running = <<>> /\ flow.errors = {}
      /\ flow.cards = flow.screen /\ flow.cards = Unread
  BY <1>1, <1>4 DEF SavesOK
<1>6. flow' = [flow EXCEPT !.uploading = FALSE, !.session = s] BY <1>3, CurrentAnswer
<1>7. PICK q : q = flow' OBVIOUS
<1>8. /\ q \in FlowSet /\ q.gen = flow.gen /\ q.session = s /\ q.canceling = flow.canceling /\ q.busy = flow.busy
      /\ q.cards = flow.cards /\ q.screen = flow.screen /\ q.version = flow.version /\ q.pend = flow.pend
      /\ q.errors = flow.errors /\ q.queue = flow.queue /\ q.running = flow.running
  BY <1>2, <1>4, <1>6, <1>7 DEF FlowSet
<1>9. /\ net' = net \ {r} /\ server' = server /\ edits' = edits /\ clicked' = clicked /\ lateEdits' = lateEdits
      /\ regretted' = regretted /\ heard' = heard
  BY DEF AnswerArrives
<1>10. server[s].state # "none" BY <1>1, <1>3, <1>4 DEF SessionsOK
<1>11. ASSUME NEW t \in Sessions, Untouched(t) PROVE Untouched(t)' BY <1>9, <1>11 DEF Untouched
<1>12. SessionsOK'
  <2> SUFFICES ASSUME NEW t \in Sessions
               PROVE /\ server[t].state = "none" => Untouched(t)'
                     /\ server[t].state = "none" => flow'.session # t /\ \A p \in net' : p.session # t
                     /\ server[t].state = "confirmed" => \A c \in Cards : clicked[t] # <<>>
                     /\ t \notin regretted /\ clicked[t] # <<>> => \A c \in Cards : <<t, c>> \in lateEdits \/ server[t].values[c] = clicked[t][c]
                     /\ heard[t] = "confirm" => server[t].state = "confirmed"
                     /\ heard[t] = "cancel" => server[t].state = "canceled"
    BY <1>9 DEF SessionsOK
  <2>1. /\ server[t].state = "none" => Untouched(t)
        /\ server[t].state = "none" => flow.session # t /\ \A p \in net : p.session # t
        /\ server[t].state = "confirmed" => \A c \in Cards : clicked[t] # <<>>
        /\ t \notin regretted /\ clicked[t] # <<>> => \A c \in Cards : <<t, c>> \in lateEdits \/ server[t].values[c] = clicked[t][c]
        /\ heard[t] = "confirm" => server[t].state = "confirmed"
        /\ heard[t] = "cancel" => server[t].state = "canceled"
    BY <1>1 DEF SessionsOK
  <2>2. server[t].state = "none" => Untouched(t)' BY <1>11, <2>1
  <2>3. server[t].state = "none" => flow'.session # t /\ \A p \in net' : p.session # t BY <1>7, <1>8, <1>9, <1>10, <2>1
  <2> QED BY <2>1, <2>2, <2>3
<1>13. ASSUME NEW p \in net, p # r PROVE RequestOK(p)'
  <2>1. RequestOK(p) /\ p \in Messages BY <1>1 DEF RequestsOK, EditorTypes
  <2>2. p.session # s BY <1>1, <1>3, <1>4, <1>13 DEF RequestsOK
  <2>3. Stale(p)
    <3>1. CASE p.kind = "upload" BY <1>1, <1>13, <3>1 DEF RequestsOK, Stale
    <3>2. CASE p.kind # "upload" BY <1>4, <2>1, <3>2 DEF RequestOK
    <3> QED BY <3>1, <3>2
  <2>4. Stale(p)' BY <1>7, <1>8, <2>3 DEF Stale
  <2>5. ~Held(p.session)' BY <1>7, <1>8, <2>2 DEF Held
  <2>6. ASSUME p.kind = "upload", p.session # 0 PROVE Untouched(p.session)' /\ flow'.session # p.session
    <3>1. p.session \in Sessions /\ Untouched(p.session) BY <2>1, <2>6 DEF RequestOK, Messages
    <3> QED BY <1>7, <1>8, <1>11, <2>2, <3>1
  <2>7. p.gen <= flow'.gen BY <1>7, <1>8, <2>1 DEF RequestOK
  <2>8. /\ p.kind # "upload" => p.session # 0
        /\ p.kind = "upload" => (p.session # 0 <=> p.answer = "ok")
        /\ p.kind = "patch" => p.card \in Cards
        /\ p.kind = "patch" /\ p.session \notin regretted /\ clicked[p.session] # <<>> => <<p.session, p.card>> \in lateEdits
        /\ p.kind = "confirm" => \A c \in Cards : clicked[p.session] # <<>>
        /\ p.kind = "confirm" /\ p.answer = "ok" => server[p.session].state = "confirmed"
        /\ p.kind = "cancel" /\ p.answer = "ok" => server[p.session].state = "canceled"
    BY <2>1 DEF RequestOK
  <2> QED BY <1>9, <2>4, <2>5, <2>6, <2>7, <2>8 DEF RequestOK
<1>14. RequestsOK'
  <2>1. \A p \in net' : RequestOK(p)' BY <1>9, <1>13
  <2>2. \A p : Stale(p)' <=> Stale(p) BY <1>7, <1>8 DEF Stale
  <2>3. /\ \A p, x \in net' : p.kind = "patch" /\ x.kind = "patch" /\ ~Stale(p)' /\ ~Stale(x)' => p = x
        /\ \A p, x \in net' : p.kind = "upload" /\ x.kind = "upload" /\ p.gen = x.gen => p = x
        /\ \A p, x \in net' : p.kind = "upload" /\ p.session # 0 /\ x.session = p.session => x = p
    BY <1>1, <1>9, <2>2 DEF RequestsOK
  <2> QED BY <2>1, <2>3 DEF RequestsOK
<1>15. EditorTypes' BY <1>1, <1>7, <1>8, <1>9 DEF EditorTypes
<1>16. Waiting(q) = {} /\ \A d \in Cards : ~Running(q, d)
  <2>1. DOMAIN [c \in {} |-> 0] = {} OBVIOUS
  <2> QED BY <1>5, <1>8, <2>1 DEF Waiting, Running
<1>17. SavesOK(q) BY <1>4, <1>5, <1>8, <1>16 DEF SavesOK
<1>18. ShownOK'
  <2>1. \A d \in Cards : q.screen[d] = q.cards[d] /\ server[s].values[d] = q.cards[d] BY <1>4, <1>5, <1>8 DEF Untouched
  <2> QED BY <1>7, <1>8, <1>9, <2>1 DEF ShownOK
<1>19. LateOK' BY <1>7, <1>16 DEF LateOK
<1>20. CancelOK' BY <1>1, <1>7, <1>8 DEF CancelOK
<1> QED BY <1>7, <1>12, <1>14, <1>15, <1>17, <1>18, <1>19, <1>20 DEF EditorInv

\* Every answer, whatever it answers.
LEMMA AnswerKeeps ==
  ASSUME EditorInv, NEW r \in net, AnswerArrives(r)
  PROVE EditorInv'
<1>1. r.kind \in {"patch", "upload", "confirm", "cancel"} BY DEF EditorInv, EditorTypes, Messages
<1>2. CASE Stale(r) BY <1>2, StaleAnswered
<1>3. CASE ~Stale(r) /\ r.kind = "patch" BY <1>3, PatchAnswered
<1>4. CASE ~Stale(r) /\ r.kind = "upload" /\ r.answer = "ok" BY <1>4, UploadDone
<1>5. CASE ~Stale(r) /\ r.kind = "upload" /\ r.answer # "ok" BY <1>5, UploadFailed
<1>6. CASE ~Stale(r) /\ r.kind \in {"confirm", "cancel"} /\ r.answer = "ok" BY <1>6, DoneAnswered
<1>7. CASE ~Stale(r) /\ r.kind = "confirm" /\ r.answer # "ok" BY <1>7, ConfirmFailed
<1>8. CASE ~Stale(r) /\ r.kind = "cancel" /\ r.answer # "ok" BY <1>8, CancelFailed
<1> QED BY <1>1, <1>2, <1>3, <1>4, <1>5, <1>6, <1>7, <1>8

-----------------------------------------------------------------------------
\* The server's answer takes the request's place.
LEMMA ReplyKeepsRequests ==
  ASSUME RequestsOK, NEW r \in net, NEW p, p.kind = r.kind, p.gen = r.gen,
         p.session = r.session \/ (r.kind = "upload" /\ \A x \in net : x.session # p.session),
         net' = (net \ {r}) \cup {p}, flow' = flow, \A x \in net \ {r} : RequestOK(x)', RequestOK(p)'
  PROVE RequestsOK'
<1>1. \A x \in net' : RequestOK(x)' OBVIOUS
<1>2. \A x : Stale(x)' <=> Stale(x) BY DEF Stale
<1>3. Stale(p) <=> Stale(r) BY DEF Stale
<1>4. /\ \A x, y \in net : x.kind = "patch" /\ y.kind = "patch" /\ ~Stale(x) /\ ~Stale(y) => x = y
      /\ \A x, y \in net : x.kind = "upload" /\ y.kind = "upload" /\ x.gen = y.gen => x = y
      /\ \A x, y \in net : x.kind = "upload" /\ x.session # 0 /\ y.session = x.session => y = x
  BY DEF RequestsOK
<1>5. ASSUME NEW x \in net', NEW y \in net'
      PROVE /\ x.kind = "patch" /\ y.kind = "patch" /\ ~Stale(x)' /\ ~Stale(y)' => x = y
            /\ x.kind = "upload" /\ y.kind = "upload" /\ x.gen = y.gen => x = y
            /\ x.kind = "upload" /\ x.session # 0 /\ y.session = x.session => y = x
  <2>1. CASE x \in net /\ y \in net BY <1>2, <1>4, <2>1
  <2>2. CASE x = p /\ y = p BY <2>2
  <2>3. CASE x = p /\ y \in net \ {r} BY <1>2, <1>3, <1>4, <2>3
  <2>4. CASE x \in net \ {r} /\ y = p BY <1>2, <1>3, <1>4, <2>4
  <2> QED BY <2>1, <2>2, <2>3, <2>4
<1> QED BY <1>1, <1>5 DEF RequestsOK

\* What an answer keeps of its request.
LEMMA AnsweredIs ==
  ASSUME NEW r, NEW a, NEW p, r \in Messages, a \in {"ok", "failed"}, p = [r EXCEPT !.answer = a]
  PROVE /\ p \in Messages /\ p.kind = r.kind /\ p.gen = r.gen /\ p.session = r.session /\ p.card = r.card
        /\ p.value = r.value /\ p.version = r.version /\ p.answer = a
BY DEF Messages

\* The server does nothing, or its answer says so.
LEMMA RefusedKeeps ==
  ASSUME EditorInv, NEW r \in net, r.answer = "none", Replied(r, "failed"),
         UNCHANGED <<flow, server, edits, clicked, lateEdits, regretted, heard>>
  PROVE EditorInv'
<1>1. EditorTypes /\ SavesOK(flow) /\ SessionsOK /\ RequestsOK /\ ShownOK /\ LateOK /\ CancelOK BY DEF EditorInv
<1>2. r \in Messages /\ RequestOK(r) BY <1>1 DEF EditorTypes, RequestsOK
<1>3. PICK p : p = [r EXCEPT !.answer = "failed"] OBVIOUS
<1>4. /\ p \in Messages /\ p.kind = r.kind /\ p.gen = r.gen /\ p.session = r.session /\ p.card = r.card
      /\ p.value = r.value /\ p.version = r.version /\ p.answer = "failed"
  BY <1>2, <1>3, AnsweredIs
<1>5. net' = (net \ {r}) \cup {p} BY <1>3 DEF Replied
<1>6. /\ flow' = flow /\ server' = server /\ edits' = edits /\ clicked' = clicked /\ lateEdits' = lateEdits
      /\ regretted' = regretted /\ heard' = heard
  OBVIOUS
<1>7. ASSUME NEW x \in net PROVE RequestOK(x)'
  <2>1. RequestOK(x) BY <1>1 DEF RequestsOK
  <2>2. (Stale(x)' <=> Stale(x)) /\ (Held(x.session)' <=> Held(x.session)) /\ (Untouched(x.session)' <=> Untouched(x.session))
    BY <1>6 DEF Stale, Held, Untouched
  <2> QED BY <1>6, <2>1, <2>2 DEF RequestOK
<1>8. RequestOK(p)'
  <2>1. Stale(p)' <=> Stale(r) BY <1>4, <1>6 DEF Stale
  <2>2. Held(p.session)' <=> Held(r.session) BY <1>4, <1>6 DEF Held
  <2> QED BY <1>2, <1>4, <1>6, <2>1, <2>2 DEF RequestOK
<1>9. RequestsOK' BY <1>1, <1>4, <1>5, <1>6, <1>7, <1>8, ReplyKeepsRequests
<1>10. SessionsOK'
  <2> SUFFICES ASSUME NEW s \in Sessions
               PROVE /\ server[s].state = "none" => Untouched(s)'
                     /\ server[s].state = "none" => flow.session # s /\ \A x \in net' : x.session # s
                     /\ server[s].state = "confirmed" => \A c \in Cards : clicked[s] # <<>>
                     /\ s \notin regretted /\ clicked[s] # <<>> => \A c \in Cards : <<s, c>> \in lateEdits \/ server[s].values[c] = clicked[s][c]
                     /\ heard[s] = "confirm" => server[s].state = "confirmed"
                     /\ heard[s] = "cancel" => server[s].state = "canceled"
    BY <1>6 DEF SessionsOK
  <2>1. /\ server[s].state = "none" => Untouched(s)
        /\ server[s].state = "none" => flow.session # s /\ \A x \in net : x.session # s
        /\ server[s].state = "confirmed" => \A c \in Cards : clicked[s] # <<>>
        /\ s \notin regretted /\ clicked[s] # <<>> => \A c \in Cards : <<s, c>> \in lateEdits \/ server[s].values[c] = clicked[s][c]
        /\ heard[s] = "confirm" => server[s].state = "confirmed"
        /\ heard[s] = "cancel" => server[s].state = "canceled"
    BY <1>1 DEF SessionsOK
  <2>2. Untouched(s) => Untouched(s)' BY <1>6 DEF Untouched
  <2> QED BY <1>4, <1>5, <2>1, <2>2
<1>11. EditorTypes' BY <1>1, <1>4, <1>5, <1>6 DEF EditorTypes
<1>12. ShownOK' BY <1>1, <1>6 DEF ShownOK, Held, Waiting, Running
<1>13. LateOK' /\ CancelOK' BY <1>1, <1>6 DEF LateOK, CancelOK, Waiting, Running
<1>14. SavesOK(flow)' BY <1>1, <1>6
<1> QED BY <1>9, <1>10, <1>11, <1>12, <1>13, <1>14 DEF EditorInv

\* A session is opened: the first that no upload has made.
LEMMA OpenedKeeps ==
  ASSUME EditorInv, NEW r \in net, r.answer = "none", r.kind = "upload", NEW new \in Sessions, server[new].state = "none",
         server' = [server EXCEPT ![new].state = "open"], NEW p, net' = (net \ {r}) \cup {p},
         \/ p = [r EXCEPT !.answer = "ok", !.session = new]
         \/ p = [r EXCEPT !.answer = "failed"],
         UNCHANGED <<flow, edits, clicked, lateEdits, regretted, heard>>
  PROVE EditorInv'
<1>1. EditorTypes /\ SavesOK(flow) /\ SessionsOK /\ RequestsOK /\ ShownOK /\ LateOK /\ CancelOK BY DEF EditorInv
<1>2. r \in Messages /\ RequestOK(r) /\ r.session = 0
  <2>1. r \in Messages /\ RequestOK(r) BY <1>1 DEF EditorTypes, RequestsOK
  <2> QED BY <2>1 DEF RequestOK
<1>3. /\ p \in Messages /\ p.kind = "upload" /\ p.gen = r.gen
      /\ (p.answer = "ok" /\ p.session = new) \/ (p.answer = "failed" /\ p.session = 0)
  BY <1>2 DEF Messages
<1>4. /\ flow' = flow /\ edits' = edits /\ clicked' = clicked /\ lateEdits' = lateEdits
      /\ regretted' = regretted /\ heard' = heard
  OBVIOUS
<1>5. /\ new # 0 /\ Untouched(new) /\ flow.session # new /\ \A x \in net : x.session # new BY <1>1 DEF SessionsOK, EditorTypes, Sessions
<1>6. /\ server'[new].state = "open" /\ \A s \in Sessions : server'[s].values = server[s].values
      /\ \A s \in Sessions \ {new} : server'[s] = server[s]
      /\ server' \in [Sessions -> Rows]
  <2>1. server \in [Sessions -> Rows] BY <1>1 DEF EditorTypes
  <2>2. server[new] \in Rows BY <2>1
  <2>3. /\ [server[new] EXCEPT !.state = "open"] \in Rows /\ [server[new] EXCEPT !.state = "open"].state = "open"
        /\ [server[new] EXCEPT !.state = "open"].values = server[new].values
    BY <2>2 DEF Rows
  <2>4. server'[new] = [server[new] EXCEPT !.state = "open"] /\ \A s \in Sessions \ {new} : server'[s] = server[s] BY <2>1
  <2>5. server' \in [Sessions -> Rows] BY <2>1, <2>3
  <2> QED BY <2>3, <2>4, <2>5
<1>7. ASSUME NEW s \in Sessions, Untouched(s) PROVE Untouched(s)' BY <1>4, <1>6, <1>7 DEF Untouched
<1>8. ASSUME NEW x \in net PROVE RequestOK(x)'
  <2>1. RequestOK(x) /\ x \in Messages BY <1>1 DEF RequestsOK, EditorTypes
  <2>2. (Stale(x)' <=> Stale(x)) /\ (Held(x.session)' <=> Held(x.session)) BY <1>4 DEF Stale, Held
  <2>3. x.session # 0 => x.session \in Sessions \ {new} BY <1>5, <2>1 DEF Messages
  <2>4. x.kind = "upload" /\ x.session # 0 => Untouched(x.session)' /\ flow.session # x.session
    BY <1>7, <2>1, <2>3 DEF RequestOK
  <2>5. x.kind # "upload" => server'[x.session] = server[x.session] BY <1>6, <2>1, <2>3 DEF RequestOK
  <2> QED BY <1>4, <2>1, <2>2, <2>4, <2>5 DEF RequestOK
<1>9. RequestOK(p)'
  <2>1. p.gen <= flow.gen /\ (Stale(p)' <=> Stale(r)) BY <1>2, <1>3, <1>4 DEF RequestOK, Stale
  <2>2. ~Stale(r) => flow.session = 0 BY <1>2 DEF RequestOK
  <2>3. p.session # 0 => Untouched(new)' /\ p.session = new BY <1>3, <1>5, <1>7
  <2>4. ~Held(p.session)' \/ p.session = 0 BY <1>3, <1>4, <1>5 DEF Held
  <2> QED BY <1>3, <1>4, <1>5, <2>1, <2>2, <2>3, <2>4 DEF RequestOK
<1>10. RequestsOK' BY <1>1, <1>2, <1>3, <1>4, <1>5, <1>8, <1>9, ReplyKeepsRequests
<1>11. SessionsOK'
  <2> SUFFICES ASSUME NEW s \in Sessions
               PROVE /\ server'[s].state = "none" => Untouched(s)'
                     /\ server'[s].state = "none" => flow.session # s /\ \A x \in net' : x.session # s
                     /\ server'[s].state = "confirmed" => \A c \in Cards : clicked[s] # <<>>
                     /\ s \notin regretted /\ clicked[s] # <<>> => \A c \in Cards : <<s, c>> \in lateEdits \/ server'[s].values[c] = clicked[s][c]
                     /\ heard[s] = "confirm" => server'[s].state = "confirmed"
                     /\ heard[s] = "cancel" => server'[s].state = "canceled"
    BY <1>4 DEF SessionsOK
  <2>1. /\ server[s].state = "none" => Untouched(s)
        /\ server[s].state = "none" => flow.session # s /\ \A x \in net : x.session # s
        /\ server[s].state = "confirmed" => \A c \in Cards : clicked[s] # <<>>
        /\ s \notin regretted /\ clicked[s] # <<>> => \A c \in Cards : <<s, c>> \in lateEdits \/ server[s].values[c] = clicked[s][c]
        /\ heard[s] = "confirm" => server[s].state = "confirmed"
        /\ heard[s] = "cancel" => server[s].state = "canceled"
    BY <1>1 DEF SessionsOK
  <2>2. CASE s = new BY <1>5, <1>6, <2>1, <2>2 DEF Untouched
  <2>3. CASE s # new
    <3>1. server'[s] = server[s] /\ s # 0 BY <1>1, <1>6, <2>3 DEF Sessions, EditorTypes
    <3>2. server[s].state = "none" => Untouched(s)' BY <1>7, <2>1
    <3>3. server[s].state = "none" => \A x \in net' : x.session # s BY <1>3, <2>1, <2>3, <3>1
    <3> QED BY <2>1, <3>1, <3>2, <3>3
  <2> QED BY <2>2, <2>3
<1>12. EditorTypes' BY <1>1, <1>3, <1>4, <1>6 DEF EditorTypes
<1>13. ShownOK'
  <2>1. flow.session # 0 => flow.session \in Sessions BY <1>1, FlowFields DEF EditorTypes
  <2>2. Held(flow.session)' <=> Held(flow.session) BY <1>4 DEF Held
  <2> QED BY <1>1, <1>4, <1>6, <2>1, <2>2 DEF ShownOK, Waiting, Running
<1>14. LateOK' /\ CancelOK' BY <1>1, <1>4 DEF LateOK, CancelOK, Waiting, Running
<1>15. SavesOK(flow)' BY <1>1, <1>4
<1> QED BY <1>10, <1>11, <1>12, <1>13, <1>14, <1>15 DEF EditorInv

\* A correction, a confirmation or a cancellation of an open session.
Serves(r, p, a, row) ==
  /\ r \in net /\ r.answer = "none" /\ r.kind # "upload" /\ server[r.session].state = "open"
  /\ net' = (net \ {r}) \cup {p} /\ a \in {"ok", "failed"} /\ p = [r EXCEPT !.answer = a]
  /\ row \in Rows /\ server' = [server EXCEPT ![r.session] = row]
  /\ row.state = CASE r.kind = "patch" -> "open" [] r.kind = "confirm" -> "confirmed" [] r.kind = "cancel" -> "canceled"
  /\ \A c \in Cards : row.values[c] = IF r.kind = "patch" /\ c = r.card THEN r.value ELSE server[r.session].values[c]
  /\ UNCHANGED <<flow, edits, clicked, lateEdits, regretted, heard>>

\* Serving it keeps the invariant.
LEMMA ServedKeeps ==
  ASSUME NEW r, NEW p, NEW a, NEW row, EditorInv, Serves(r, p, a, row)
  PROVE EditorInv'
<1> USE DEF Serves
<1>1. EditorTypes /\ SavesOK(flow) /\ SessionsOK /\ RequestsOK /\ ShownOK /\ LateOK /\ CancelOK BY DEF EditorInv
<1>2. r \in Messages /\ RequestOK(r) BY <1>1 DEF EditorTypes, RequestsOK
<1>3. PICK s : s = r.session OBVIOUS
<1>4. s \in Sessions /\ s # 0 /\ r.kind \in {"patch", "confirm", "cancel"} BY <1>2, <1>3 DEF RequestOK, Messages
<1>5. /\ p \in Messages /\ p.kind = r.kind /\ p.gen = r.gen /\ p.session = s /\ p.card = r.card
      /\ p.value = r.value /\ p.version = r.version /\ p.answer = a
  BY <1>2, <1>3, AnsweredIs
<1>6. /\ flow' = flow /\ edits' = edits /\ clicked' = clicked /\ lateEdits' = lateEdits
      /\ regretted' = regretted /\ heard' = heard
  OBVIOUS
<1>7. server'[s] = row /\ \A t \in Sessions \ {s} : server'[t] = server[t]
  BY <1>1, <1>3, <1>4 DEF EditorTypes
<1>8. /\ r.kind = "patch" => row.state = "open"
      /\ r.kind = "confirm" => row.state = "confirmed"
      /\ r.kind = "cancel" => row.state = "canceled"
      /\ row.state # "none"
  BY <1>4
<1>9. \A c \in Cards : r.kind # "patch" \/ c # r.card => row.values[c] = server[s].values[c] BY <1>3
<1>10. r.kind = "patch" => r.card \in Cards /\ row.values[r.card] = r.value BY <1>2 DEF RequestOK
<1>11. ASSUME NEW t \in Sessions, t # s, Untouched(t) PROVE Untouched(t)' BY <1>6, <1>7, <1>11 DEF Untouched
<1>12. ASSUME NEW x \in net, x # r PROVE RequestOK(x)'
  <2>1. RequestOK(x) /\ x \in Messages BY <1>1 DEF RequestsOK, EditorTypes
  <2>2. (Stale(x)' <=> Stale(x)) /\ (Held(x.session)' <=> Held(x.session)) BY <1>6 DEF Stale, Held
  <2>3. ASSUME x.kind = "upload", x.session # 0 PROVE Untouched(x.session)' /\ flow.session # x.session
    <3>1. x.session \in Sessions /\ Untouched(x.session) /\ flow.session # x.session BY <2>1, <2>3 DEF RequestOK, Messages
    <3>2. x.session # s BY <1>1, <1>3, <1>12, <2>3 DEF RequestsOK
    <3> QED BY <1>11, <3>1, <3>2
  <2>4. x.kind # "upload" => x.session \in Sessions /\ x.session # 0 BY <2>1 DEF RequestOK, Messages
  <2>5. ASSUME x.kind = "patch", Held(x.session), x.answer = "ok" PROVE server'[x.session].values[x.card] = x.value
    <3>1. server[x.session].values[x.card] = x.value /\ x.card \in Cards /\ ~Stale(x) BY <2>1, <2>4, <2>5 DEF RequestOK
    <3>2. CASE x.session = s /\ r.kind = "patch"
      <4>1. ~Stale(r) BY <1>2, <1>3, <1>4, <2>5, <3>2 DEF RequestOK
      <4>2. x = r BY <1>1, <2>5, <3>1, <3>2, <4>1 DEF RequestsOK
      <4> QED BY <1>12, <4>2
    <3>3. CASE x.session = s /\ r.kind # "patch" BY <1>7, <1>9, <3>1, <3>3
    <3>4. CASE x.session # s BY <1>7, <2>4, <2>5, <3>1, <3>4
    <3> QED BY <3>2, <3>3, <3>4
  <2>6. /\ x.kind = "confirm" /\ x.answer = "ok" => server'[x.session].state = "confirmed"
        /\ x.kind = "cancel" /\ x.answer = "ok" => server'[x.session].state = "canceled"
    <3>1. CASE x.session = s BY <1>3, <2>1, <3>1 DEF RequestOK
    <3>2. CASE x.session # s BY <1>7, <2>1, <2>4, <3>2 DEF RequestOK
    <3> QED BY <3>1, <3>2
  <2>7. /\ x.gen <= flow.gen
        /\ x.kind # "upload" => x.session # 0 /\ (~Stale(x) => x.session = flow.session)
        /\ x.kind = "upload" /\ ~Stale(x) => flow.session = 0
        /\ x.kind = "upload" => (x.session # 0 <=> x.answer = "ok")
        /\ x.kind = "patch" => x.card \in Cards
        /\ x.kind = "patch" /\ ~Stale(x) => flow.running = <<x.card, x.version>>
        /\ x.kind = "patch" /\ x.session \notin regretted /\ clicked[x.session] # <<>> => <<x.session, x.card>> \in lateEdits
        /\ x.kind = "confirm" => \A c \in Cards : clicked[x.session] # <<>>
        /\ x.kind = "confirm" /\ ~Stale(x) => ~flow.canceling
        /\ x.session # 0 /\ Held(x.session) => ~Stale(x)
    BY <2>1 DEF RequestOK
  <2> QED BY <1>6, <2>2, <2>3, <2>5, <2>6, <2>7 DEF RequestOK
<1>13. RequestOK(p)'
  <2>1. (Stale(p)' <=> Stale(r)) /\ (Held(p.session)' <=> Held(r.session)) BY <1>3, <1>5, <1>6 DEF Stale, Held
  <2>2. server'[p.session] = row BY <1>5, <1>7
  <2>3. /\ p.kind = "patch" => server'[p.session].values[p.card] = p.value
        /\ p.kind = "confirm" => server'[p.session].state = "confirmed"
        /\ p.kind = "cancel" => server'[p.session].state = "canceled"
    BY <1>5, <1>8, <1>10, <2>2
  <2>4. /\ r.gen <= flow.gen /\ r.session # 0 /\ (~Stale(r) => r.session = flow.session)
        /\ r.kind = "patch" => r.card \in Cards
        /\ r.kind = "patch" /\ ~Stale(r) => flow.running = <<r.card, r.version>>
        /\ r.kind = "patch" /\ r.session \notin regretted /\ clicked[r.session] # <<>> => <<r.session, r.card>> \in lateEdits
        /\ r.kind = "confirm" => \A c \in Cards : clicked[r.session] # <<>>
        /\ r.kind = "confirm" /\ ~Stale(r) => ~flow.canceling
        /\ r.session # 0 /\ Held(r.session) => ~Stale(r)
    BY <1>2 DEF RequestOK
  <2>5. p.kind # "upload" BY <1>4, <1>5
  <2> QED BY <1>3, <1>5, <1>6, <2>1, <2>3, <2>4, <2>5 DEF RequestOK
<1>14. RequestsOK'
  <2>1. \A x \in net \ {r} : RequestOK(x)' BY <1>12
  <2> QED BY <1>1, <1>3, <1>5, <1>6, <1>13, <2>1, ReplyKeepsRequests
<1>15. SessionsOK'
  <2> SUFFICES ASSUME NEW t \in Sessions
               PROVE /\ server'[t].state = "none" => Untouched(t)'
                     /\ server'[t].state = "none" => flow.session # t /\ \A x \in net' : x.session # t
                     /\ server'[t].state = "confirmed" => \A c \in Cards : clicked[t] # <<>>
                     /\ t \notin regretted /\ clicked[t] # <<>> => \A c \in Cards : <<t, c>> \in lateEdits \/ server'[t].values[c] = clicked[t][c]
                     /\ heard[t] = "confirm" => server'[t].state = "confirmed"
                     /\ heard[t] = "cancel" => server'[t].state = "canceled"
    BY <1>6 DEF SessionsOK
  <2>1. /\ server[t].state = "none" => Untouched(t)
        /\ server[t].state = "none" => flow.session # t /\ \A x \in net : x.session # t
        /\ server[t].state = "confirmed" => \A c \in Cards : clicked[t] # <<>>
        /\ t \notin regretted /\ clicked[t] # <<>> => \A c \in Cards : <<t, c>> \in lateEdits \/ server[t].values[c] = clicked[t][c]
        /\ heard[t] = "confirm" => server[t].state = "confirmed"
        /\ heard[t] = "cancel" => server[t].state = "canceled"
    BY <1>1 DEF SessionsOK
  <2>2. CASE t # s
    <3>1. server'[t] = server[t] BY <1>7, <2>2
    <3>2. server[t].state = "none" => Untouched(t)' BY <1>11, <2>1, <2>2
    <3>3. server[t].state = "none" => \A x \in net' : x.session # t BY <1>5, <2>1, <2>2
    <3> QED BY <2>1, <3>1, <3>2, <3>3
  <2>3. CASE t = s
    <3>1. server'[t] = row /\ server[t].state = "open" BY <1>3, <1>7, <2>3
    <3>2. heard[t] # "confirm" /\ heard[t] # "cancel" BY <2>1, <3>1
    <3>3. row.state = "confirmed" => \A c \in Cards : clicked[t] # <<>>
      <4>1. row.state = "confirmed" => r.kind = "confirm" BY <1>4, <1>8
      <4> QED BY <1>2, <1>3, <2>3, <4>1 DEF RequestOK
    <3>4. ASSUME t \notin regretted, clicked[t] # <<>>, NEW c \in Cards PROVE <<t, c>> \in lateEdits \/ row.values[c] = clicked[t][c]
      <4>1. CASE r.kind = "patch" /\ c = r.card BY <1>2, <1>3, <2>3, <3>4, <4>1 DEF RequestOK
      <4>2. CASE r.kind # "patch" \/ c # r.card BY <1>9, <2>1, <2>3, <3>4, <4>2
      <4> QED BY <4>1, <4>2
    <3> QED BY <1>8, <3>1, <3>2, <3>3, <3>4
  <2> QED BY <2>2, <2>3
<1>16. EditorTypes'
  <2>1. server' \in [Sessions -> Rows] BY <1>1 DEF EditorTypes
  <2> QED BY <1>1, <1>5, <1>6, <2>1 DEF EditorTypes
<1>17. ShownOK'
  <2> SUFFICES ASSUME flow.session # 0, Held(flow.session), NEW d \in Cards, d \notin Waiting(flow), ~Running(flow, d), d \notin flow.errors
               PROVE flow.screen[d] = flow.cards[d] /\ server'[flow.session].values[d] = flow.cards[d]
    <3>1. Held(flow.session)' <=> Held(flow.session) BY <1>6 DEF Held
    <3> QED BY <1>6, <3>1 DEF ShownOK, Waiting, Running
  <2>1. flow.screen[d] = flow.cards[d] /\ server[flow.session].values[d] = flow.cards[d] BY <1>1 DEF ShownOK
  <2>2. flow.session \in Sessions BY <1>1, FlowFields DEF EditorTypes
  <2>3. CASE flow.session = s
    <3>1. r.kind = "patch" => d # r.card
      <4>1. ~Stale(r) BY <1>2, <1>3, <1>4, <2>3 DEF RequestOK
      <4>2. r.kind = "patch" => flow.running = <<r.card, r.version>> BY <1>2, <4>1 DEF RequestOK
      <4> QED BY <4>2 DEF Running
    <3> QED BY <1>7, <1>9, <2>1, <2>3, <3>1
  <2>4. CASE flow.session # s BY <1>7, <2>1, <2>2, <2>4
  <2> QED BY <2>3, <2>4
<1>18. LateOK' /\ CancelOK' BY <1>1, <1>6 DEF LateOK, CancelOK, Waiting, Running
<1>19. SavesOK(flow)' BY <1>1, <1>6
<1> QED BY <1>14, <1>15, <1>16, <1>17, <1>18, <1>19 DEF EditorInv

\* Whatever the server does with a request, and however it answers.
LEMMA ServerKeeps ==
  ASSUME EditorInv, NEW r \in net, ServerActs(r)
  PROVE EditorInv'
<1>1. EditorTypes /\ RequestsOK BY DEF EditorInv
<1>2. r \in Messages /\ RequestOK(r) BY <1>1 DEF EditorTypes, RequestsOK
<1>3. r.answer = "none" /\ UNCHANGED <<flow, edits, clicked, lateEdits, regretted, heard>> BY DEF ServerActs
<1>4. CASE Replied(r, "failed") /\ UNCHANGED server BY <1>3, <1>4, RefusedKeeps
<1>5. CASE r.kind = "upload" /\ ~(Replied(r, "failed") /\ UNCHANGED server)
  <2>1. PICK new \in Sessions :
          /\ server[new].state = "none" /\ server' = [server EXCEPT ![new].state = "open"]
          /\ net' = (net \ {r}) \cup {[r EXCEPT !.answer = "ok", !.session = new]} \/ Replied(r, "failed")
    BY <1>5 DEF ServerActs
  <2>2. CASE net' = (net \ {r}) \cup {[r EXCEPT !.answer = "ok", !.session = new]}
    <3>1. PICK p : p = [r EXCEPT !.answer = "ok", !.session = new] OBVIOUS
    <3>2. net' = (net \ {r}) \cup {p} BY <2>2, <3>1
    <3> QED BY <1>3, <1>5, <2>1, <3>1, <3>2, OpenedKeeps
  <2>3. CASE Replied(r, "failed")
    <3>1. PICK p : p = [r EXCEPT !.answer = "failed"] OBVIOUS
    <3>2. net' = (net \ {r}) \cup {p} BY <2>3, <3>1 DEF Replied
    <3> QED BY <1>3, <1>5, <2>1, <3>1, <3>2, OpenedKeeps
  <2> QED BY <2>1, <2>2, <2>3
<1>6. CASE r.kind # "upload" /\ ~(Replied(r, "failed") /\ UNCHANGED server)
  <2>1. PICK s : s = r.session OBVIOUS
  <2>2. s \in Sessions /\ r.kind \in {"patch", "confirm", "cancel"} BY <1>2, <1>6, <2>1 DEF RequestOK, Messages
  <2>3. /\ server[s].state = "open"
        /\ r.kind = "patch" => server' = [server EXCEPT ![s].values[r.card] = r.value]
        /\ r.kind = "confirm" => server' = [server EXCEPT ![s].state = "confirmed"]
        /\ r.kind = "cancel" => server' = [server EXCEPT ![s].state = "canceled"]
        /\ Replied(r, "ok") \/ Replied(r, "failed")
    BY <1>6, <2>1, <2>2 DEF ServerActs
  <2>4. PICK a \in {"ok", "failed"} : Replied(r, a) BY <2>3
  <2>5. PICK p : p = [r EXCEPT !.answer = a] OBVIOUS
  <2>6. net' = (net \ {r}) \cup {p} BY <2>4, <2>5 DEF Replied
  <2>7. server \in [Sessions -> Rows] /\ server[s] \in Rows BY <1>1, <2>2 DEF EditorTypes
  <2>8. CASE r.kind = "patch"
    <3>1. r.card \in Cards /\ r.value \in Int BY <1>2, <2>8 DEF RequestOK, Messages
    <3>2. PICK row : row = [server[s] EXCEPT !.values[r.card] = r.value] OBVIOUS
    <3>3. row \in Rows /\ row.state = "open" /\ \A c \in Cards : row.values[c] = IF c = r.card THEN r.value ELSE server[s].values[c]
      BY <2>3, <2>7, <3>1, <3>2 DEF Rows
    <3>4. server' = [server EXCEPT ![s] = row] BY <2>3, <2>8, <3>2
    <3>5. /\ row \in Rows /\ server[r.session].state = "open" /\ server' = [server EXCEPT ![r.session] = row]
          /\ row.state = CASE r.kind = "patch" -> "open" [] r.kind = "confirm" -> "confirmed" [] r.kind = "cancel" -> "canceled"
      BY <2>1, <2>3, <2>8, <3>3, <3>4
    <3>6. \A c \in Cards : row.values[c] = IF r.kind = "patch" /\ c = r.card THEN r.value ELSE server[r.session].values[c]
      BY <2>1, <2>8, <3>3
    <3>7. Serves(r, p, a, row) BY <1>3, <1>6, <2>5, <2>6, <3>5, <3>6 DEF Serves
    <3> QED BY <3>7, ServedKeeps
  <2>9. CASE r.kind \in {"confirm", "cancel"}
    <3>1. PICK st : st = IF r.kind = "confirm" THEN "confirmed" ELSE "canceled" OBVIOUS
    <3>2. PICK row : row = [server[s] EXCEPT !.state = st] OBVIOUS
    <3>3. row \in Rows /\ row.state = st /\ \A c \in Cards : row.values[c] = server[s].values[c]
      BY <2>7, <3>1, <3>2 DEF Rows
    <3>4. server' = [server EXCEPT ![s] = row] BY <2>3, <2>9, <3>1, <3>2
    <3>5. /\ row \in Rows /\ server[r.session].state = "open" /\ server' = [server EXCEPT ![r.session] = row]
          /\ row.state = CASE r.kind = "patch" -> "open" [] r.kind = "confirm" -> "confirmed" [] r.kind = "cancel" -> "canceled"
      BY <2>1, <2>3, <2>9, <3>1, <3>3, <3>4
    <3>6. \A c \in Cards : row.values[c] = IF r.kind = "patch" /\ c = r.card THEN r.value ELSE server[r.session].values[c]
      BY <2>1, <2>9, <3>3
    <3>7. Serves(r, p, a, row) BY <1>3, <1>6, <2>5, <2>6, <3>5, <3>6 DEF Serves
    <3> QED BY <3>7, ServedKeeps
  <2> QED BY <2>2, <2>8, <2>9
<1> QED BY <1>4, <1>5, <1>6

\* Before the first upload nothing is under review.
LEMMA InitIsSound == ASSUME EditorInit PROVE EditorInv
<1>1. PICK w : w = flow OBVIOUS
<1>2. /\ w \in FlowSet /\ w.gen = 0 /\ w.session = 0 /\ ~w.canceling /\ SavesOK(w)
  <2>1. w = IdleFlow(0) BY <1>1 DEF EditorInit
  <2> QED BY <2>1, IdleIs
<1>3. /\ flow \in FlowSet /\ flow.session = 0 /\ ~flow.canceling /\ SavesOK(flow) BY <1>1, <1>2
<1>4. Unread \in [Cards -> Int] BY DEF Unread
<1>5. [state |-> "none", values |-> Unread] \in Rows BY <1>4 DEF Rows
<1>6. EditorTypes BY <1>3, <1>5 DEF EditorTypes, EditorInit
<1>7. SessionsOK BY <1>3 DEF SessionsOK, EditorInit, Untouched, Sessions
<1>8. RequestsOK BY DEF RequestsOK, EditorInit
<1>9. ShownOK /\ LateOK /\ CancelOK BY <1>3 DEF ShownOK, LateOK, CancelOK
<1> QED BY <1>3, <1>6, <1>7, <1>8, <1>9 DEF EditorInv

\* Every step of the page and of the server.
LEMMA NextIsSound == ASSUME EditorInv, [EditorNext]_editorVars PROVE EditorInv'
<1>1. edits + 1 \in Int /\ Broken \in Int /\ Rejected \in Int BY DEF EditorInv, EditorTypes, Broken, Rejected
<1>2. ASSUME NEW c \in Cards, EditCard(c, edits + 1) \/ EditCard(c, Broken) \/ EditCard(c, Rejected) PROVE EditorInv'
  BY <1>1, <1>2, EditKeeps
<1>3. ASSUME NEW c \in Cards, TimerFires(c) PROVE EditorInv' BY <1>3, TimerKeeps
<1>4. CASE RunNext BY <1>4, RunKeeps
<1>5. CASE Upload BY <1>5, UploadKeeps
<1>6. CASE OpenDialog \/ CloseDialog BY <1>6, DialogKeeps
<1>7. CASE Confirm BY <1>7, ConfirmKeeps
<1>8. CASE CancelReview BY <1>8, CancelKeeps
<1>9. CASE Leave BY <1>9, LeaveKeeps
<1>10. ASSUME NEW r \in net, ServerActs(r) PROVE EditorInv' BY <1>10, ServerKeeps
<1>11. ASSUME NEW r \in net, AnswerArrives(r) PROVE EditorInv' BY <1>11, AnswerKeeps
<1>12. CASE UNCHANGED editorVars
  <2>1. /\ flow' = flow /\ net' = net /\ server' = server /\ edits' = edits /\ clicked' = clicked
        /\ lateEdits' = lateEdits /\ regretted' = regretted /\ heard' = heard
    BY <1>12 DEF editorVars
  <2>2. EditorTypes' /\ SavesOK(flow)' /\ CancelOK' BY <2>1 DEF EditorInv, EditorTypes, CancelOK
  <2>3. SessionsOK' BY <2>1 DEF EditorInv, SessionsOK, Untouched
  <2>4. RequestsOK' BY <2>1 DEF EditorInv, RequestsOK, RequestOK, Stale, Held, Untouched
  <2>5. ShownOK' /\ LateOK' BY <2>1 DEF EditorInv, ShownOK, LateOK, Held, Waiting, Running
  <2> QED BY <2>2, <2>3, <2>4, <2>5 DEF EditorInv
<1> QED BY <1>2, <1>3, <1>4, <1>5, <1>6, <1>7, <1>8, <1>9, <1>10, <1>11, <1>12 DEF EditorNext

\* At most one element.
LEMMA FewerThanTwo ==
  ASSUME NEW S, \A x, y \in S : x = y
  PROVE Cardinality(S) <= 1
<1>1. CASE S = {} BY <1>1, FS_EmptySet
<1>2. CASE S # {}
  <2>1. PICK x \in S : TRUE BY <1>2
  <2>2. S = {x} BY <2>1
  <2> QED BY <2>2, FS_Singleton
<1> QED BY <1>1, <1>2

\* The invariant gives the four properties of the review.
LEMMA InvIsSound == ASSUME EditorInv PROVE EditorSound
<1>1. EditorTypes /\ SavesOK(flow) /\ SessionsOK /\ RequestsOK /\ ShownOK /\ CancelOK BY DEF EditorInv
<1>2. SavedIsShown
  <2> SUFFICES ASSUME Ready(flow), flow.session \notin regretted PROVE server[flow.session].values = flow.screen
    BY DEF SavedIsShown
  <2>1. flow \in FlowSet /\ server \in [Sessions -> Rows] BY <1>1 DEF EditorTypes
  <2>2. flow.session # 0 /\ ~flow.busy /\ Waiting(flow) = {} /\ Saving(flow) = {} /\ flow.errors = {} BY DEF Ready
  <2>3. Held(flow.session) BY <1>1, <2>2 DEF Held, CancelOK
  <2>4. \A c \in Cards : ~Running(flow, c) BY <2>2 DEF Running, Saving
  <2>5. \A c \in Cards : server[flow.session].values[c] = flow.screen[c] BY <1>1, <2>2, <2>3, <2>4 DEF ShownOK
  <2>6. flow.session \in Sessions /\ flow.screen \in [Cards -> Int] BY <2>1, <2>2, FlowFields
  <2>7. server[flow.session] \in Rows BY <2>1, <2>6
  <2>8. server[flow.session].values \in [Cards -> Int] BY <2>7 DEF Rows
  <2> QED BY <2>5, <2>6, <2>8
<1>3. ConfirmedIsShown
  <2> SUFFICES ASSUME NEW s \in Sessions, s \notin regretted, server[s].state = "confirmed", NEW c \in Cards
               PROVE <<s, c>> \in lateEdits \/ server[s].values[c] = clicked[s][c]
    BY DEF ConfirmedIsShown
  <2>1. clicked[s] # <<>> BY <1>1 DEF SessionsOK
  <2> QED BY <1>1, <2>1 DEF SessionsOK
<1>4. ToldIsTrue BY <1>1 DEF SessionsOK, ToldIsTrue
<1>5. NoneStranded
  <2>1. \A x, y \in {r \in net : r.kind = "patch" /\ ~Stale(r)} : x = y BY <1>1 DEF RequestsOK
  <2>2. Cardinality({r \in net : r.kind = "patch" /\ ~Stale(r)}) <= 1 BY <2>1, FewerThanTwo
  <2>3. \A c \in Waiting(flow) : flow.pend[c].timer \/ c \in Saving(flow) \/ c \in flow.errors BY <1>1 DEF SavesOK
  <2> QED BY <2>2, <2>3 DEF NoneStranded
<1> QED BY <1>2, <1>3, <1>4, <1>5 DEF EditorSound

\* The invariant holds of every state of the review, for any number of candidates, uploads and
\* corrections.
THEOREM EditorInvariant == EditorSpec => []EditorInv
<1>1. EditorInit => EditorInv BY InitIsSound
<1>2. EditorInv /\ [EditorNext]_editorVars => EditorInv' BY NextIsSound
<1> QED BY <1>1, <1>2, PTL DEF EditorSpec

\* static/app.js: the confirmation is offered only when the server has what the screen shows, it
\* writes what the screen showed at the click, the user is told nothing that did not happen, and no
\* correction is left without its timer, its place in the queue or its mark.
THEOREM EditorIsSound == EditorSpec => []EditorSound
<1>1. EditorInv => EditorSound BY InvIsSound
<1> QED BY <1>1, EditorInvariant, PTL

-----------------------------------------------------------------------------
(***************************************************************************)
(* The published history of structures.  Publications that read the same   *)
(* head all derive the transitions of the same next observation; the one   *)
(* that commits first makes what the others hold unwritable, and that is   *)
(* all the invariant asks of them (WriteOK).  Hence the stored transitions *)
(* are those a replay derives (TransOK), with or without the lock.         *)
(***************************************************************************)

\* What identifies an observation.
Streams == [code : Codes, interval : Intervals, basis : SUBSET ExDates]
IdOK(x) == x # None /\ x.stream \in Streams /\ x.at \in Days /\ x.cutoff \in Nat

\* The observations of a stream are numbered, each is what the engine answered, and none goes back.
ObsOK ==
  /\ \A o \in obs : /\ IdOK(o.id) /\ o.seq \in Nat \ {0} /\ o.shapes \in Structures
                    /\ o.id \in DOMAIN engine /\ engine[o.id] = o.shapes
  /\ \A o, p \in obs : o.id = p.id => o = p
  /\ \A o, p \in obs : o.id.stream = p.id.stream /\ o.seq = p.seq => o = p
  /\ \A o, p \in obs : o.id.stream = p.id.stream /\ o.seq < p.seq => ~Backward(p.id, o.id)

\* A head points to the last of them, and no number below it is missing.
HeadsOK ==
  /\ IsFiniteSet(DOMAIN heads)
  /\ \A s \in DOMAIN heads : heads[s].seq \in Nat \ {0} /\ heads[s].id.stream = s /\ VerifyHead(heads[s])
  /\ \A o \in obs : o.id.stream \in DOMAIN heads /\ o.seq <= heads[o.id.stream].seq
  /\ \A s \in DOMAIN heads : \A n \in 1..heads[s].seq : \E o \in obs : o.id.stream = s /\ o.seq = n

\* The transitions of an observation are those derived from the one before it, and from all before it.
KeysBefore(o) == UNION {DOMAIN p.shapes : p \in {q \in Stream(o.id.stream) : q.seq < o.seq}}
RowsOf(o) == {r \in trans : r.id = o.id}
TransOK ==
  /\ \A r \in trans : \E o \in obs : o.id = r.id
  /\ \A o \in obs : RowsOf(o) = Derived(o.id, o.shapes, ShapesBefore(o), IdBefore(o), KeysBefore(o))

\* What a publication has read is still true of the head, or its number is taken.
UpToDate(id) == Derived(id, engine[id], HeadShapes(id.stream), HeadId(id.stream), HeadKeys(id.stream))
WriteOK(j) ==
  /\ j.seq \in Nat \ {0} /\ j.seq <= NextSeq(j.id.stream)
  /\ j.seq = NextSeq(j.id.stream) =>
       /\ j.trans = UpToDate(j.id)
       /\ j.id.stream \in DOMAIN heads => ~Backward(j.id, heads[j.id.stream].id)

\* A code a job has done with successfully has its evidence in the store.
Good(o) == o.status \in {"published", "idempotent"}
DoneOK(j) == \A c \in DOMAIN j.done : Good(j.done[c]) => \E o \in obs : o.id = j.done[c].id /\ o.id.stream.code = c

JobOK(j) ==
  /\ j.pc \in {"idle", "next", "observe", "publish", "write", "done"}
  /\ j.pc \in {"next", "observe", "publish", "write"} =>
       /\ j.interval \in Intervals /\ j.asOf.day \in 1..today /\ j.asOf.closed \in BOOLEAN
       /\ j.left \subseteq Codes /\ j.left \cup DOMAIN j.done = Codes
  /\ j.pc \in {"next", "observe", "publish", "write", "done"} => DoneOK(j)
  /\ j.pc = "done" /\ j.status = "succeeded" => DOMAIN j.done = Codes /\ \A c \in Codes : Good(j.done[c])
  /\ j.pc \in {"observe", "publish", "write"} => IdOK(j.id)
  /\ j.pc \in {"publish", "write"} => j.id \in DOMAIN engine
  /\ j.pc = "write" => WriteOK(j)
JobsOK == DOMAIN job = Workers /\ \A w \in Workers : JobOK(job[w])

\* What a reader has found stays in the store, one head of each stream of one instrument.
ViewOK ==
  /\ view.pc \in {"idle", "heads", "shown"}
  /\ view.pc = "heads" =>
       /\ IsFiniteSet(view.found)
       /\ \A h \in view.found : VerifyHead(h) /\ IdOK(h.id)
       /\ \A g, h \in view.found : /\ g.id.stream.code = h.id.stream.code /\ g.id.stream.interval = h.id.stream.interval
                                   /\ g.id.stream = h.id.stream => g = h
  /\ view.pc = "shown" => view.reason # "persistent_evidence_corrupt" /\ (view.chart = "blocked" => Cardinality(view.bases) > 1)

ChanInv ==
  /\ today \in Days
  /\ \A x \in DOMAIN engine : engine[x] \in Structures
  /\ ObsOK /\ HeadsOK /\ TransOK /\ JobsOK /\ ViewOK

-----------------------------------------------------------------------------
\* A set of numbers has a least one.
LEMMA LeastOf ==
  ASSUME NEW Q, Q \subseteq Nat, Q # {}
  PROVE  \E x \in Q : \A y \in Q : x <= y
<1> DEFINE L == OpToRel(<, Nat)
<1>1. IsWellFoundedOn(L, Nat)
  BY NatLessThanWellFounded
<1>2. \A i, j \in Nat : i < j => <<i, j>> \in L
  BY DEF OpToRel
<1> HIDE DEF L
<1>3. PICK x \in Q : \A y \in Q : <<y, x>> \notin L
  BY <1>1, WFMin
<1>4. \A y \in Q : x <= y
  <2> TAKE y \in Q
  <2>1. x \in Nat /\ y \in Nat
    OBVIOUS
  <2>2. ~(y < x)
    BY <1>2, <1>3, <2>1
  <2> QED
    BY <2>1, <2>2
<1> QED
  BY <1>4

\* The latest of the days in a set.
LEMMA LatestDay ==
  ASSUME NEW D, D \subseteq Days, D # {}
  PROVE  Max(D) \in D /\ \A d \in D : Max(D) >= d
<1>0. MaxDay \in Nat
  BY ChanAssumed DEF ChanAssumption
<1> DEFINE back == {MaxDay - d : d \in D}
<1>1. back \subseteq Nat /\ back # {}
  <2>1. \A d \in D : MaxDay - d \in Nat
    BY <1>0 DEF Days
  <2> QED
    BY <2>1
<1>3. \A b \in back : \E d \in D : b = MaxDay - d
  OBVIOUS
<1>4. \A d \in D : MaxDay - d \in back
  OBVIOUS
<1> HIDE DEF back
<1>5. PICK b \in back : \A y \in back : b <= y
  BY <1>1, LeastOf
<1>6. PICK x \in D : b = MaxDay - x
  BY <1>3
<1>7. \A d \in D : x >= d
  <2> TAKE d \in D
  <2>1. MaxDay \in Nat /\ x \in Nat /\ d \in Nat /\ x <= MaxDay /\ d <= MaxDay
    BY <1>0 DEF Days
  <2>2. b <= MaxDay - d
    BY <1>0, <1>1, <1>4, <1>5, <1>6
  <2> QED
    BY <1>6, <2>1, <2>2
<1> QED
  BY <1>7 DEF Max

\* The weeks of a finite set of days are finitely many.
LEMMA CutoffIsNat ==
  ASSUME NEW D, D \subseteq Days
  PROVE  Cardinality(D) \in Nat /\ Cardinality({Week(d) : d \in D}) \in Nat
<1>1. IsFiniteSet(D)
  <2>1. IsFiniteSet(Days)
    BY ChanAssumed, FS_Interval DEF ChanAssumption, Days
  <2> QED
    BY <2>1, FS_Subset
<1> DEFINE W == {Week(d) : d \in D}
           f == [d \in D |-> Week(d)]
<1>2. f \in Surjection(D, W)
  BY DEF Surjection
<1> HIDE DEF f, W
<1>3. IsFiniteSet(W)
  BY <1>1, <1>2, FS_Surjection
<1> QED
  BY <1>1, <1>3, FS_CardinalityType DEF W

\* What is frozen identifies an observation.
LEMMA FrozenOK ==
  ASSUME NEW c \in Codes, NEW i \in Intervals, NEW t, t.day \in Days,
         "blocked" \notin DOMAIN Freeze(c, i, t), t.closed \in BOOLEAN
  PROVE  IdOK(Freeze(c, i, t))
<1> DEFINE days == SettledDays(c, t)
<1>1. days # {} /\ Freeze(c, i, t) = PreparedInput(c, i, t, days)
  BY DEF Freeze
<1>2. days \subseteq Days
  BY ChanAssumed DEF ChanAssumption, SettledDays, SettledThrough, Days
<1> HIDE DEF days
<1>3. Max(days) \in Days
  BY <1>1, <1>2, LatestDay
<1>4. Cardinality(days) \in Nat /\ Cardinality({Week(d) : d \in days}) \in Nat
  BY <1>2, CutoffIsNat
<1>5. [code |-> c, interval |-> i, basis |-> Basis(t)] \in Streams
  BY DEF Streams, Basis
<1> DEFINE x == PreparedInput(c, i, t, days)
<1>6. x.stream \in Streams /\ x.at \in Days /\ x.cutoff \in Nat
  BY <1>3, <1>4, <1>5 DEF PreparedInput
<1>7. x # None
  <2>1. "stream" \in DOMAIN x
    BY DEF PreparedInput
  <2>2. "stream" \notin DOMAIN None
    BY DEF None
  <2> HIDE DEF x
  <2> QED
    BY <2>1, <2>2
<1> HIDE DEF x
<1>8. IdOK(x)
  BY <1>6, <1>7 DEF IdOK
<1> QED
  BY <1>1, <1>8 DEF x

-----------------------------------------------------------------------------
\* A transition is derived for every key of an observation and of the one before.
LEMMA DerivedHas ==
  ASSUME NEW id, NEW current, NEW before, NEW prior, NEW seen, NEW rows,
         rows = Derived(id, current, before, prior, seen)
  PROVE  /\ \A k \in DOMAIN current : \E r \in rows : r.id = id /\ r.key = k /\ r.rev = id
         /\ \A k \in DOMAIN before : \E r \in rows : r.key = k
<1>1. ASSUME NEW k \in DOMAIN current
      PROVE  \E r \in rows : r.id = id /\ r.key = k /\ r.rev = id
  <2> DEFINE row == [id |-> id, key |-> k, rev |-> id, prior |-> IF k \in DOMAIN before THEN prior ELSE None,
                     status |-> IF k \notin DOMAIN before THEN "NEW"
                                ELSE IF before[k] = current[k] THEN "UNCHANGED" ELSE "CHANGED",
                     again |-> k \notin DOMAIN before /\ k \in seen]
  <2>1. row \in rows
    BY <1>1 DEF Derived
  <2>2. row.id = id /\ row.key = k /\ row.rev = id
    OBVIOUS
  <2> HIDE DEF row
  <2> QED
    BY <2>1, <2>2
<1>2. ASSUME NEW k \in DOMAIN before \ DOMAIN current
      PROVE  \E r \in rows : r.key = k
  <2> DEFINE row == [id |-> id, key |-> k, rev |-> None, prior |-> prior, status |-> "ABSENT", again |-> FALSE]
  <2>1. row \in rows
    BY <1>2 DEF Derived
  <2>2. row.key = k
    OBVIOUS
  <2> HIDE DEF row
  <2> QED
    BY <1>2, <2>1, <2>2
<1> QED
  BY <1>1, <1>2

\* What an observation found carries its revision, and nothing else does.
LEMMA RevisionOf ==
  ASSUME ObsOK, TransOK, NEW o \in obs, NEW k
  PROVE  (\E r \in trans : r.id = o.id /\ r.key = k /\ r.rev # None) <=> k \in DOMAIN o.shapes
<1> DEFINE before == ShapesBefore(o)
           prior == IdBefore(o)
           seen == KeysBefore(o)
<1>1. RowsOf(o) = Derived(o.id, o.shapes, before, prior, seen) /\ o.id # None
  BY DEF TransOK, ObsOK, IdOK
<1> HIDE DEF before, prior, seen
<1>2. ASSUME NEW r \in trans, r.id = o.id, r.rev # None
      PROVE  r.key \in DOMAIN o.shapes
  <2>1. r \in Derived(o.id, o.shapes, before, prior, seen)
    BY <1>1, <1>2 DEF RowsOf
  <2> QED
    BY <1>2, <2>1 DEF Derived
<1>3. ASSUME k \in DOMAIN o.shapes
      PROVE  \E r \in trans : r.id = o.id /\ r.key = k /\ r.rev # None
  <2>1. PICK id, cur, bef, pri, se, rows : /\ id = o.id /\ cur = o.shapes /\ bef = before /\ pri = prior /\ se = seen
                                            /\ rows = RowsOf(o)
    OBVIOUS
  <2>2. rows = Derived(id, cur, bef, pri, se)
    BY <1>1, <2>1
  <2>3. \A d \in DOMAIN cur : \E r \in rows : r.id = id /\ r.key = d /\ r.rev = id
    BY ONLY <2>2, DerivedHas
  <2> QED
    BY <1>1, <1>3, <2>1, <2>3 DEF RowsOf
<1> QED
  BY <1>2, <1>3

\* The keys a stream has shown are those of its observations.
LEMMA SeenAre ==
  ASSUME ObsOK, TransOK, NEW s
  PROVE  SeenKeys(s) = UNION {DOMAIN p.shapes : p \in Stream(s)}
<1>1. ASSUME NEW k \in SeenKeys(s)
      PROVE  \E p \in Stream(s) : k \in DOMAIN p.shapes
  <2>1. PICK r \in trans : r.id.stream = s /\ r.rev # None /\ r.key = k
    BY <1>1 DEF SeenKeys
  <2>2. PICK o \in obs : o.id = r.id
    BY DEF TransOK
  <2>3. k \in DOMAIN o.shapes
    BY <2>1, <2>2, RevisionOf
  <2> QED
    BY <2>1, <2>2, <2>3 DEF Stream
<1>2. ASSUME NEW p \in Stream(s), NEW k \in DOMAIN p.shapes
      PROVE  k \in SeenKeys(s)
  <2>1. p \in obs /\ p.id.stream = s
    BY DEF Stream
  <2>2. PICK r \in trans : r.id = p.id /\ r.key = k /\ r.rev # None
    BY <2>1, RevisionOf
  <2> QED
    BY <2>1, <2>2 DEF SeenKeys
<1> QED
  BY <1>1, <1>2

\* The reader's search for an earlier revision of a key finds what was found before.
LEMMA WitnessIs ==
  ASSUME ObsOK, TransOK, NEW o \in obs, NEW k
  PROVE  PriorRevisionWitness(o, k) <=> k \in KeysBefore(o)
<1>1. ASSUME PriorRevisionWitness(o, k)
      PROVE  k \in KeysBefore(o)
  <2>1. PICK r \in trans : /\ r.id.stream = o.id.stream /\ r.key = k /\ r.rev # None
                           /\ \E p \in Stream(o.id.stream) : p.id = r.id /\ p.seq < o.seq
    BY <1>1 DEF PriorRevisionWitness
  <2>2. PICK p \in Stream(o.id.stream) : p.id = r.id /\ p.seq < o.seq
    BY <2>1
  <2>3. p \in obs
    BY DEF Stream
  <2>4. k \in DOMAIN p.shapes
    BY <2>1, <2>2, <2>3, RevisionOf
  <2> QED
    BY <2>2, <2>4 DEF KeysBefore
<1>2. ASSUME k \in KeysBefore(o)
      PROVE  PriorRevisionWitness(o, k)
  <2>1. PICK p \in Stream(o.id.stream) : p.seq < o.seq /\ k \in DOMAIN p.shapes
    BY <1>2 DEF KeysBefore
  <2>2. p \in obs /\ p.id.stream = o.id.stream
    BY DEF Stream
  <2>3. PICK r \in trans : r.id = p.id /\ r.key = k /\ r.rev # None
    BY <2>1, <2>2, RevisionOf
  <2> QED
    BY <2>1, <2>2, <2>3 DEF PriorRevisionWitness
<1> QED
  BY <1>1, <1>2

\* Before the first observation of a stream there is none, before any other the one it follows.
LEMMA PreviousOf ==
  ASSUME ObsOK, HeadsOK, NEW o \in obs
  PROVE  /\ o.seq = 1 => Previous(o) = {}
         /\ o.seq # 1 => \E p \in obs : /\ Previous(o) = {p} /\ p.id.stream = o.id.stream /\ p.seq = o.seq - 1
                                        /\ ShapesBefore(o) = p.shapes /\ IdBefore(o) = p.id
<1>1. o.seq \in Nat \ {0} /\ \A p \in obs : p.seq \in Nat \ {0}
  BY DEF ObsOK
<1>2. CASE o.seq = 1
  BY <1>1, <1>2 DEF Previous, Stream
<1>3. CASE o.seq # 1
  <2>1. o.id.stream \in DOMAIN heads /\ o.seq <= heads[o.id.stream].seq /\ heads[o.id.stream].seq \in Nat
    BY DEF HeadsOK
  <2>2. o.seq - 1 \in 1..heads[o.id.stream].seq
    BY <1>1, <1>3, <2>1
  <2>3. PICK p \in obs : p.id.stream = o.id.stream /\ p.seq = o.seq - 1
    BY <2>1, <2>2 DEF HeadsOK
  <2>4. \A q \in obs : q.id.stream = o.id.stream /\ q.seq = o.seq - 1 => q = p
    BY <2>3 DEF ObsOK
  <2>5. Previous(o) = {p}
    BY <2>3, <2>4 DEF Previous, Stream
  <2> QED
    BY <1>3, <2>3, <2>5 DEF ShapesBefore, IdBefore
<1> QED
  BY <1>2, <1>3

\* An id names one observation.
LEMMA ObsIs ==
  ASSUME ObsOK, NEW o \in obs
  PROVE  Obs(o.id) = o
BY DEF ObsOK, Obs

\* An observation does not go back past what did not go back past another.
LEMMA NeverBack ==
  ASSUME NEW x, NEW y, NEW z, IdOK(x), IdOK(y), IdOK(z), ~Backward(y, x), ~Backward(z, y)
  PROVE  ~Backward(z, x)
BY ChanAssumed DEF ChanAssumption, IdOK, Backward, Days

-----------------------------------------------------------------------------
\* Where heads, observations and transitions stay, the invariant of a job stays.
LEMMA CurrentSame ==
  ASSUME UNCHANGED <<obs, trans, heads>>, NEW id, engine'[id] = engine[id]
  PROVE  UpToDate(id)' = UpToDate(id) /\ NextSeq(id.stream)' = NextSeq(id.stream)
BY DEF UpToDate, HeadShapes, HeadId, HeadKeys, NextSeq, Obs, SeenKeys, Stream

\* The stored history is replayed as before while observations and transitions stay.
LEMMA TransKept ==
  ASSUME TransOK, UNCHANGED <<obs, trans>>
  PROVE  TransOK'
<1>1. \A s : Stream(s)' = Stream(s)
  BY DEF Stream
<1>2. \A o : RowsOf(o)' = RowsOf(o)
  BY DEF RowsOf
<1>3. \A o : Previous(o)' = Previous(o)
  BY DEF Previous, Stream
<1>4. \A o : ShapesBefore(o)' = ShapesBefore(o) /\ IdBefore(o)' = IdBefore(o)
  BY DEF ShapesBefore, IdBefore, Previous, Stream
<1>5. \A o : KeysBefore(o)' = KeysBefore(o)
  BY DEF KeysBefore, Stream
<1>6. ASSUME NEW o \in obs'
      PROVE  RowsOf(o)' = Derived(o.id, o.shapes, ShapesBefore(o)', IdBefore(o)', KeysBefore(o)')
  BY <1>2, <1>4, <1>5 DEF TransOK
<1> QED
  BY <1>6 DEF TransOK

\* A job keeps its part of the invariant while the store stays and the engine forgets no answer.
LEMMA JobKept ==
  ASSUME UNCHANGED <<obs, trans, heads>>, today' >= today, today \in Days, today' \in Days, NEW j, JobOK(j),
         \A x \in DOMAIN engine : x \in DOMAIN engine' /\ engine'[x] = engine[x]
  PROVE  JobOK(j)'
<1>1. DoneOK(j) => DoneOK(j)'
  BY DEF DoneOK
<1>2. ASSUME j.pc = "write"
      PROVE  WriteOK(j)'
  <2>1. j.id \in DOMAIN engine /\ WriteOK(j)
    BY <1>2 DEF JobOK
  <2>2. UpToDate(j.id)' = UpToDate(j.id) /\ NextSeq(j.id.stream)' = NextSeq(j.id.stream)
    BY <2>1, CurrentSame
  <2> QED
    BY <2>1, <2>2 DEF WriteOK, Backward
<1>3. 1..today \subseteq 1..today'
  BY DEF Days
<1> QED
  BY <1>1, <1>2, <1>3 DEF JobOK, IdOK

\* A step of one worker that changes nothing else the jobs depend on.
LEMMA JobMoves ==
  ASSUME ChanInv, NEW w \in Workers, NEW j, job' = [job EXCEPT ![w] = j], JobOK(j), 
         UNCHANGED <<today, engine, obs, trans, heads, view>>
  PROVE  ChanInv'
<1>1. \A v \in Workers : job'[v] = job[v] \/ job'[v] = j
  BY DEF ChanInv, JobsOK
<1>2. \A v \in Workers : JobOK(job[v])
  BY DEF ChanInv, JobsOK
<1>3. ASSUME NEW v \in Workers
      PROVE  JobOK(job[v])'
  <2>1. PICK k : k = job'[v] /\ JobOK(k)
    BY <1>1, <1>2
  <2>2. JobOK(k)'
    BY <2>1, JobKept DEF ChanInv, Days
  <2> QED
    BY <2>1, <2>2
<1>4. JobsOK'
  BY <1>3 DEF JobsOK, ChanInv
<1>5. ObsOK' /\ HeadsOK' /\ TransOK' /\ ViewOK'
  <2>1. ObsOK'
    BY DEF ChanInv, ObsOK
  <2>2. HeadsOK'
    BY DEF ChanInv, HeadsOK, VerifyHead
  <2>3. ViewOK'
    BY DEF ChanInv, ViewOK, VerifyHead
  <2>4. TransOK'
    BY TransKept DEF ChanInv
  <2> QED
    BY <2>1, <2>2, <2>3, <2>4
<1> QED
  BY <1>4, <1>5 DEF ChanInv

\* The job of a worker.
LEMMA JobIs ==
  ASSUME ChanInv, NEW w \in Workers
  PROVE  JobOK(job[w])
BY DEF ChanInv, JobsOK
\* A step that leaves the store and the jobs alone.
LEMMA RestKept ==
  ASSUME ChanInv, UNCHANGED <<today, engine, obs, trans, heads, job>>, ViewOK'
  PROVE  ChanInv'
<1>1. \A j : JobOK(j) => JobOK(j)'
  BY JobKept DEF ChanInv, Days
<1>2. JobsOK'
  <2>1. ASSUME NEW v \in Workers
        PROVE  JobOK(job[v])'
    <3>1. PICK k : k = job[v]
      OBVIOUS
    <3>2. JobOK(k)'
      BY <1>1, <3>1, JobIs
    <3> QED
      BY <3>1, <3>2
  <2> QED
    BY <2>1 DEF JobsOK, ChanInv
<1>3. ObsOK'
  BY DEF ChanInv, ObsOK
<1>4. HeadsOK'
  BY DEF ChanInv, HeadsOK, VerifyHead
<1>5. TransOK'
  BY TransKept DEF ChanInv
<1> QED
  BY <1>2, <1>3, <1>4, <1>5 DEF ChanInv

-----------------------------------------------------------------------------
(***************************************************************************)
(* The steps of a worker before it writes.                                 *)
(***************************************************************************)

\* A job that begins has done nothing yet.
LEMMA EnqueueSafe ==
  ASSUME ChanInv, NEW w \in Workers, Enqueue(w)
  PROVE  ChanInv'
<1>1. PICK i \in Intervals, t \in [day : 1..today, closed : BOOLEAN] :
         job' = [job EXCEPT ![w] = [pc |-> "next", interval |-> i, asOf |-> t, left |-> Codes, done |-> <<>>]]
  BY DEF Enqueue
<1>2. PICK j : j = [pc |-> "next", interval |-> i, asOf |-> t, left |-> Codes, done |-> <<>>]
  OBVIOUS
<1>3. JobOK(j)
  BY <1>2 DEF JobOK, DoneOK
<1> QED
  BY <1>1, <1>2, <1>3, JobMoves DEF Enqueue

\* A code is done with.
LEMMA OutcomeOK ==
  ASSUME NEW j, JobOK(j), j.pc \in {"next", "observe", "publish", "write"}, NEW c \in Codes, NEW o,
         Good(o) => \E p \in obs : p.id = o.id /\ p.id.stream.code = c
  PROVE  JobOK(WithOutcome(j, c, o))
<1> DEFINE k == WithOutcome(j, c, o)
<1>1. k.pc = "next" /\ k.interval = j.interval /\ k.asOf = j.asOf /\ k.left = j.left \ {c}
  BY DEF WithOutcome
<1>2. DOMAIN k.done = {c} \cup DOMAIN j.done /\ k.done[c] = o /\ \A d \in DOMAIN j.done : d # c => k.done[d] = j.done[d]
  BY DEF WithOutcome, Put
<1> HIDE DEF k
<1>3. DoneOK(j)
  BY DEF JobOK
<1>4. DoneOK(k)
  <2> SUFFICES ASSUME NEW d \in DOMAIN k.done, Good(k.done[d])
               PROVE  \E p \in obs : p.id = k.done[d].id /\ p.id.stream.code = d
    BY DEF DoneOK
  <2>1. CASE d = c
    BY <1>2, <2>1
  <2>2. CASE d # c
    BY <1>2, <1>3, <2>2 DEF DoneOK
  <2> QED
    BY <2>1, <2>2
<1>5. JobOK(k)
  BY <1>1, <1>2, <1>4 DEF JobOK
<1> QED
  BY <1>5 DEF k

\* A code is blocked, or its input is frozen.
LEMMA FreezeSafe ==
  ASSUME ChanInv, NEW w \in Workers, FreezeCode(w)
  PROVE  ChanInv'
<1>1. PICK j : j = job[w]
  OBVIOUS
<1>2. j.pc = "next" /\ j.left # {} /\ JobOK(j)
  BY <1>1, JobIs DEF FreezeCode
<1>3. PICK c : c = CHOOSE x \in j.left : TRUE
  OBVIOUS
<1>4. c \in j.left /\ c \in Codes
  BY <1>2, <1>3 DEF JobOK
<1>5. PICK x : x = Freeze(c, j.interval, j.asOf)
  OBVIOUS
<1>6. job' = IF "blocked" \in DOMAIN x THEN [job EXCEPT ![w] = WithOutcome(j, c, [status |-> "blocked", id |-> None])]
             ELSE [job EXCEPT ![w] = Frozen(j, x)]
  BY <1>1, <1>3, <1>5 DEF FreezeCode, Outcome
<1>7. UNCHANGED <<today, engine, obs, trans, heads, view>>
  BY DEF FreezeCode
<1>8. CASE "blocked" \in DOMAIN x
  <2>1. PICK o : o = [status |-> "blocked", id |-> None]
    OBVIOUS
  <2>2. ~Good(o)
    BY <2>1 DEF Good
  <2>3. JobOK(WithOutcome(j, c, o))
    BY <1>2, <1>4, <2>2, OutcomeOK
  <2>4. PICK k : k = WithOutcome(j, c, o)
    OBVIOUS
  <2> QED
    BY <1>6, <1>7, <1>8, <2>1, <2>3, <2>4, JobMoves
<1>9. CASE "blocked" \notin DOMAIN x
  <2>1. j.interval \in Intervals /\ j.asOf.day \in Days /\ j.asOf.closed \in BOOLEAN
    <3>1. 1..today \subseteq Days
      BY ChanAssumed DEF ChanAssumption, ChanInv, Days
    <3> QED
      BY <1>2, <3>1 DEF JobOK
  <2>2. IdOK(x)
    BY <1>4, <1>5, <1>9, <2>1, FrozenOK
  <2>3. PICK k : k = Frozen(j, x)
    OBVIOUS
  <2>4. /\ k.pc = "observe" /\ k.interval = j.interval /\ k.asOf = j.asOf /\ k.left = j.left /\ k.done = j.done /\ k.id = x
    BY <2>3 DEF Frozen
  <2>5. JobOK(k)
    BY <1>2, <2>2, <2>4 DEF JobOK, DoneOK
  <2> QED
    BY <1>6, <1>7, <1>9, <2>3, <2>5, JobMoves
<1> QED
  BY <1>8, <1>9

\* A job that reports success has done with every code successfully.
LEMMA ReportSafe ==
  ASSUME ChanInv, NEW w \in Workers, Report(w)
  PROVE  ChanInv'
<1>1. PICK j : j = job[w]
  OBVIOUS
<1>2. j.pc = "next" /\ j.left = {} /\ JobOK(j)
  BY <1>1, JobIs DEF Report
<1>3. PICK k : k = [pc |-> "done", status |-> JobStatus(j.done), interval |-> j.interval, done |-> j.done]
  OBVIOUS
<1>4. k.pc = "done" /\ k.status = JobStatus(j.done) /\ k.done = j.done
  BY <1>3
<1>5. DOMAIN j.done = Codes /\ DoneOK(j)
  BY <1>2 DEF JobOK
<1>6. ASSUME k.status = "succeeded"
      PROVE  \A c \in Codes : Good(k.done[c])
  BY <1>4, <1>5, <1>6 DEF JobStatus, Good
<1>7. JobOK(k)
  BY <1>4, <1>5, <1>6 DEF JobOK, DoneOK
<1> QED
  BY <1>1, <1>3, <1>7, JobMoves DEF Report

\* A worker that leaves its job, finished or killed, holds nothing.
LEMMA LeaveSafe ==
  ASSUME ChanInv, NEW w \in Workers, LeaveJob(w)
  PROVE  ChanInv'
<1>1. JobOK(Idle)
  BY DEF JobOK, Idle
<1> QED
  BY <1>1, JobMoves DEF LeaveJob

\* The engine answers once for an input.
LEMMA ObserveSafe ==
  ASSUME ChanInv, NEW w \in Workers, Observe(w)
  PROVE  ChanInv'
<1>1. PICK j : j = job[w]
  OBVIOUS
<1>2. j.pc = "observe" /\ JobOK(j) /\ IdOK(j.id)
  BY <1>1, JobIs DEF Observe, JobOK
<1>3. CASE \E found \in IF j.id \in DOMAIN engine THEN {engine[j.id]} ELSE Structures : engine' = Put(engine, j.id, found)
  <2>1. PICK found \in IF j.id \in DOMAIN engine THEN {engine[j.id]} ELSE Structures : engine' = Put(engine, j.id, found)
    BY <1>3
  <2>2. /\ DOMAIN engine' = DOMAIN engine \cup {j.id}
        /\ \A x \in DOMAIN engine : engine'[x] = engine[x]
        /\ engine'[j.id] = found
    BY <2>1 DEF Put
  <2>3. \A x \in DOMAIN engine' : engine'[x] \in Structures
    BY <2>1, <2>2 DEF ChanInv
  <2>4. job' = [job EXCEPT ![w].pc = "publish"] \/ \E k : job' = [job EXCEPT ![w] = k] /\ JobOK(k)
    <3>1. PICK o : o = [status |-> "failed", id |-> None]
      OBVIOUS
    <3>2. ~Good(o)
      BY <3>1 DEF Good
    <3>3. JobOK(WithOutcome(j, j.id.stream.code, o))
      BY <1>2, <3>2, OutcomeOK DEF IdOK, Streams
    <3> QED
      BY <1>1, <3>1, <3>3 DEF Observe, Outcome
  <2>5. UNCHANGED <<today, obs, trans, heads, view>>
    BY DEF Observe
  <2>6. \A x \in DOMAIN engine : x \in DOMAIN engine' /\ engine'[x] = engine[x]
    BY <2>2
  <2>7. \A k : JobOK(k) => JobOK(k)'
    BY <2>5, <2>6, JobKept DEF ChanInv, Days
  <2>8. \A v \in Workers : v # w => JobOK(job[v])'
    <3> TAKE v \in Workers
    <3> HAVE v # w
    <3>1. PICK k : k = job[v]
      OBVIOUS
    <3>2. JobOK(k) /\ job'[v] = k
      BY <2>4, <3>1, JobIs DEF ChanInv, JobsOK
    <3> QED
      BY <2>7, <3>2
  <2>9. JobOK(job[w])'
    <3>1. CASE job' = [job EXCEPT ![w].pc = "publish"]
      <4>1. PICK k : k = job'[w]
        OBVIOUS
      <4>2. k = [j EXCEPT !.pc = "publish"]
        BY <1>1, <3>1, <4>1 DEF ChanInv, JobsOK
      <4>3. /\ k.pc = "publish" /\ k.interval = j.interval /\ k.asOf = j.asOf /\ k.left = j.left /\ k.done = j.done
            /\ k.id = j.id
        BY <1>2, <4>2
      <4>4. DoneOK(k)'
        BY <1>2, <2>5, <4>3 DEF JobOK, DoneOK
      <4>5. JobOK(k)'
        BY <1>2, <2>2, <2>5, <4>3, <4>4 DEF JobOK, IdOK
      <4> QED
        BY <4>1, <4>5
    <3>2. CASE \E k : job' = [job EXCEPT ![w] = k] /\ JobOK(k)
      <4>1. PICK k : job' = [job EXCEPT ![w] = k] /\ JobOK(k)
        BY <3>2
      <4>2. job'[w] = k
        BY <4>1 DEF ChanInv, JobsOK
      <4> QED
        BY <2>7, <4>1, <4>2
    <3> QED
      BY <2>4, <3>1, <3>2
  <2>10. JobsOK'
    <3>1. DOMAIN job' = DOMAIN job
      BY <2>4
    <3> QED
      BY <2>8, <2>9, <3>1 DEF JobsOK, ChanInv
  <2>11. ObsOK'
    BY <2>2, <2>5 DEF ChanInv, ObsOK
  <2>12. HeadsOK' /\ ViewOK'
    BY <2>5 DEF ChanInv, HeadsOK, ViewOK, VerifyHead
  <2>13. TransOK'
    BY <2>5, TransKept DEF ChanInv
  <2> QED
    BY <2>3, <2>5, <2>10, <2>11, <2>12, <2>13 DEF ChanInv
<1>4. CASE UNCHANGED engine /\ job' = Outcome(w, j.id.stream.code, [status |-> "failed", id |-> None])
  <2>1. PICK o : o = [status |-> "failed", id |-> None]
    OBVIOUS
  <2>2. ~Good(o)
    BY <2>1 DEF Good
  <2>3. JobOK(WithOutcome(j, j.id.stream.code, o))
    BY <1>2, <2>2, OutcomeOK DEF IdOK, Streams
  <2>4. PICK k : k = WithOutcome(j, j.id.stream.code, o)
    OBVIOUS
  <2>5. job' = [job EXCEPT ![w] = k]
    BY <1>1, <1>4, <2>1, <2>4 DEF Outcome
  <2>6. UNCHANGED <<today, engine, obs, trans, heads, view>>
    BY <1>4 DEF Observe
  <2> QED
    BY <2>3, <2>4, <2>5, <2>6, JobMoves
<1> QED
  BY <1>1, <1>3, <1>4 DEF Observe

\* What a publication reads is the head of its stream.
LEMMA PublishReadSafe ==
  ASSUME ChanInv, NEW w \in Workers, PublishRead(w)
  PROVE  ChanInv'
<1>1. PICK j : j = job[w]
  OBVIOUS
<1>2. j.pc = "publish" /\ JobOK(j) /\ IdOK(j.id) /\ j.id \in DOMAIN engine
  BY <1>1, JobIs DEF PublishRead, JobOK
<1>3. UNCHANGED <<today, engine, obs, trans, heads, view>>
  BY DEF PublishRead
<1> DEFINE s == j.id.stream
           done(o) == [job EXCEPT ![w] = WithOutcome(j, s.code, o)]
<1>4. s.code \in Codes /\ s \in Streams
  BY <1>2 DEF IdOK, Streams
<1>5. CASE \E o \in obs : o.id = j.id
  <2>1. PICK r : r = [status |-> IF Obs(j.id).shapes = engine[j.id] THEN "idempotent" ELSE "failed", id |-> j.id]
    OBVIOUS
  <2>2. r.id = j.id
    BY <2>1
  <2>3. JobOK(WithOutcome(j, s.code, r))
    BY <1>2, <1>4, <1>5, <2>2, OutcomeOK
  <2>4. PICK k : k = WithOutcome(j, s.code, r)
    OBVIOUS
  <2>5. job' = [job EXCEPT ![w] = k]
    BY <1>1, <1>5, <2>1, <2>4 DEF PublishRead, Outcome
  <2> QED
    BY <1>3, <2>3, <2>4, <2>5, JobMoves
<1>6. CASE ~(\E o \in obs : o.id = j.id) /\ s \in DOMAIN heads /\ Backward(j.id, heads[s].id)
  <2>1. PICK o : o = [status |-> "failed", id |-> None]
    OBVIOUS
  <2>2. ~Good(o)
    BY <2>1 DEF Good
  <2>3. JobOK(WithOutcome(j, s.code, o))
    BY <1>2, <1>4, <2>2, OutcomeOK
  <2>4. PICK k : k = WithOutcome(j, s.code, o)
    OBVIOUS
  <2>5. job' = [job EXCEPT ![w] = k]
    BY <1>1, <1>6, <2>1, <2>4 DEF PublishRead, Outcome
  <2> QED
    BY <1>3, <2>3, <2>4, <2>5, JobMoves
<1>7. CASE ~(\E o \in obs : o.id = j.id) /\ ~(s \in DOMAIN heads /\ Backward(j.id, heads[s].id))
  <2>1. PICK k : k = Writing(j, NextSeq(s), UpToDate(j.id))
    OBVIOUS
  <2>2. /\ k.pc = "write" /\ k.interval = j.interval /\ k.asOf = j.asOf /\ k.left = j.left /\ k.done = j.done
        /\ k.id = j.id /\ k.seq = NextSeq(s) /\ k.trans = UpToDate(j.id)
    BY <2>1 DEF Writing
  <2>3. NextSeq(s) \in Nat \ {0}
    BY DEF NextSeq, ChanInv, HeadsOK
  <2>4. WriteOK(k)
    BY <1>7, <2>2, <2>3 DEF WriteOK
  <2>5. JobOK(k)
    BY <1>2, <2>2, <2>4 DEF JobOK, DoneOK
  <2>6. job' = [job EXCEPT ![w] = k]
    BY <1>1, <1>7, <2>1 DEF PublishRead, UpToDate
  <2> QED
    BY <1>3, <2>5, <2>6, JobMoves
<1> QED
  BY <1>5, <1>6, <1>7

-----------------------------------------------------------------------------
(***************************************************************************)
(* A publication that is committed.                                        *)
(***************************************************************************)

\* Observation o, the next of its stream, is stored with its transitions as the head.
Stored(o, rows) ==
  /\ IdOK(o.id) /\ o.id \in DOMAIN engine /\ engine[o.id] = o.shapes
  /\ ~(\E p \in obs : p.id = o.id) /\ o.seq = NextSeq(o.id.stream)
  /\ rows = UpToDate(o.id)
  /\ o.id.stream \in DOMAIN heads => ~Backward(o.id, heads[o.id.stream].id)
  /\ obs' = obs \cup {o} /\ trans' = trans \cup rows
  /\ heads' = Put(heads, o.id.stream, [seq |-> o.seq, id |-> o.id])
  /\ UNCHANGED <<today, engine, view>>

\* Its number is above all of the stream.
LEMMA NumberedLast ==
  ASSUME ChanInv, NEW o, NEW rows, Stored(o, rows)
  PROVE  /\ o.seq \in Nat \ {0} /\ \A p \in obs : p.id.stream = o.id.stream => p.seq < o.seq
         /\ o.id.stream \notin DOMAIN heads => o.seq = 1 /\ Stream(o.id.stream) = {}
<1> DEFINE s == o.id.stream
<1>1. o.seq = NextSeq(s)
  BY DEF Stored
<1>2. \A p \in obs : p.seq \in Nat /\ p.id.stream \in DOMAIN heads /\ p.seq <= heads[p.id.stream].seq
                     /\ heads[p.id.stream].seq \in Nat
  BY DEF ChanInv, ObsOK, HeadsOK
<1>3. s \in DOMAIN heads => heads[s].seq \in Nat \ {0}
  BY DEF ChanInv, HeadsOK
<1> QED
  BY <1>1, <1>2, <1>3 DEF NextSeq, Stream

\* The new observation is numbered and ordered after all of its stream.
LEMMA StoredObs ==
  ASSUME ChanInv, NEW o, NEW rows, Stored(o, rows)
  PROVE  ObsOK'
<1> DEFINE s == o.id.stream
<1>0. obs' = obs \cup {o} /\ UNCHANGED engine /\ IdOK(o.id) /\ o.id \in DOMAIN engine /\ engine[o.id] = o.shapes
      /\ ~(\E p \in obs : p.id = o.id)
  BY DEF Stored
<1>1. /\ o.seq \in Nat \ {0} /\ \A p \in obs : p.id.stream = s => p.seq < o.seq
      /\ s \notin DOMAIN heads => o.seq = 1 /\ Stream(s) = {}
  BY NumberedLast
<1>2. ObsOK /\ o.shapes \in Structures
  BY <1>0 DEF ChanInv
<1>3. \A p \in obs : p.seq \in Nat /\ IdOK(p.id)
  BY <1>2 DEF ObsOK
<1>4. ASSUME NEW p \in obs, p.id.stream = s
      PROVE  ~Backward(o.id, p.id)
  <2>1. s \in DOMAIN heads
    BY <1>4 DEF ChanInv, HeadsOK
  <2>2. PICK h \in obs : h.id = heads[s].id /\ h.seq = heads[s].seq
    BY <2>1 DEF ChanInv, HeadsOK, VerifyHead
  <2>3. h.id.stream = s /\ p.seq <= h.seq /\ ~Backward(o.id, h.id)
    BY <1>4, <2>1, <2>2 DEF ChanInv, HeadsOK, Stored
  <2>4. p = h \/ ~Backward(h.id, p.id)
    BY <1>2, <1>3, <1>4, <2>3 DEF ObsOK
  <2> QED
    BY <1>0, <1>3, <2>3, <2>4, NeverBack
<1>5. \A p \in obs' : /\ IdOK(p.id) /\ p.seq \in Nat \ {0} /\ p.shapes \in Structures
                      /\ p.id \in DOMAIN engine /\ engine[p.id] = p.shapes
  BY <1>0, <1>1, <1>2 DEF ObsOK
<1>6. \A p, q \in obs' : p.id = q.id => p = q
  BY <1>0, <1>2 DEF ObsOK
<1>7. \A p, q \in obs' : p.id.stream = q.id.stream /\ p.seq = q.seq => p = q
  BY <1>0, <1>1, <1>2, <1>3 DEF ObsOK
<1>8. \A p, q \in obs' : p.id.stream = q.id.stream /\ p.seq < q.seq => ~Backward(q.id, p.id)
  BY <1>0, <1>1, <1>2, <1>3, <1>4 DEF ObsOK
<1> QED
  BY <1>0, <1>5, <1>6, <1>7, <1>8 DEF ObsOK

\* The head moves to the new observation and no number is missing below it.
LEMMA StoredHeads ==
  ASSUME ChanInv, NEW o, NEW rows, Stored(o, rows)
  PROVE  HeadsOK'
<1> DEFINE s == o.id.stream
<1>0. obs' = obs \cup {o}
  BY DEF Stored
<1>1. /\ o.seq \in Nat \ {0} /\ \A p \in obs : p.id.stream = s => p.seq < o.seq
      /\ s \notin DOMAIN heads => o.seq = 1 /\ Stream(s) = {}
  BY NumberedLast
<1>2. /\ DOMAIN heads' = DOMAIN heads \cup {s} /\ heads'[s].seq = o.seq /\ heads'[s].id = o.id
      /\ \A x \in DOMAIN heads : x # s => heads'[x] = heads[x]
  BY DEF Stored, Put
<1>3. HeadsOK
  BY DEF ChanInv
<1>4. IsFiniteSet(DOMAIN heads')
  BY <1>2, <1>3, FS_AddElement DEF HeadsOK
<1>5. ASSUME NEW x \in DOMAIN heads'
      PROVE  /\ heads'[x].seq \in Nat \ {0} /\ heads'[x].id.stream = x
             /\ \E p \in obs' : p.id = heads'[x].id /\ p.seq = heads'[x].seq
  <2>1. CASE x = s
    BY <1>0, <1>1, <1>2, <2>1
  <2>2. CASE x # s
    BY <1>0, <1>2, <1>3, <2>2 DEF HeadsOK, VerifyHead
  <2> QED
    BY <2>1, <2>2
<1>6. ASSUME NEW p \in obs'
      PROVE  p.id.stream \in DOMAIN heads' /\ p.seq <= heads'[p.id.stream].seq
  <2>1. CASE p = o
    BY <1>1, <1>2, <2>1
  <2>2. CASE p \in obs /\ p.id.stream = s
    <3>1. p.seq \in Nat
      BY <2>2 DEF ChanInv, ObsOK
    <3> QED
      BY <1>1, <1>2, <2>2, <3>1
  <2>3. CASE p \in obs /\ p.id.stream # s
    BY <1>2, <1>3, <2>3 DEF HeadsOK
  <2> QED
    BY <1>0, <2>1, <2>2, <2>3
<1>7. ASSUME NEW x \in DOMAIN heads', NEW n \in 1..heads'[x].seq
      PROVE  \E p \in obs' : p.id.stream = x /\ p.seq = n
  <2>1. CASE x # s
    BY <1>0, <1>2, <1>3, <2>1 DEF HeadsOK
  <2>2. CASE x = s /\ n = o.seq
    BY <1>0, <2>2
  <2>3. CASE x = s /\ n # o.seq
    <3>1. n \in Nat /\ n >= 1 /\ n < o.seq
      BY <1>1, <1>2, <2>3
    <3>2. s \in DOMAIN heads
      BY <1>1, <3>1
    <3>3. o.seq = heads[s].seq + 1 /\ heads[s].seq \in Nat
      BY <1>3, <3>2 DEF Stored, NextSeq, HeadsOK
    <3>4. n \in 1..heads[s].seq
      BY <3>1, <3>3
    <3> QED
      BY <1>0, <1>3, <2>3, <3>2, <3>4 DEF HeadsOK
  <2> QED
    BY <2>1, <2>2, <2>3
<1> QED
  BY <1>4, <1>5, <1>6, <1>7 DEF HeadsOK, VerifyHead

\* The transitions stored are those a replay of the stream derives.
LEMMA StoredTrans ==
  ASSUME ChanInv, NEW o, NEW rows, Stored(o, rows)
  PROVE  TransOK'
<1> DEFINE s == o.id.stream
<1>0. obs' = obs \cup {o} /\ trans' = trans \cup rows /\ ~(\E p \in obs : p.id = o.id) /\ rows = UpToDate(o.id)
      /\ engine[o.id] = o.shapes /\ o.seq = NextSeq(s)
  BY DEF Stored
<1>1. /\ o.seq \in Nat \ {0} /\ \A p \in obs : p.id.stream = s => p.seq < o.seq
      /\ s \notin DOMAIN heads => o.seq = 1 /\ Stream(s) = {}
  BY NumberedLast
<1>2. ObsOK /\ HeadsOK /\ TransOK /\ \A p \in obs : p.seq \in Nat
  BY DEF ChanInv, ObsOK
<1>3. ObsOK' /\ HeadsOK'
  BY StoredObs, StoredHeads
<1>4. \A r \in rows : r.id = o.id
  BY <1>0 DEF UpToDate, Derived
<1>5. \A r \in trans : r.id # o.id
  BY <1>0, <1>2 DEF TransOK
<1>6. ASSUME NEW p \in obs
      PROVE  RowsOf(p)' = Derived(p.id, p.shapes, ShapesBefore(p)', IdBefore(p)', KeysBefore(p)')
  <2>1. RowsOf(p)' = RowsOf(p)
    BY <1>0, <1>4 DEF RowsOf
  <2>2. \A q : q \in Stream(p.id.stream)' <=> q \in Stream(p.id.stream) \/ (q = o /\ s = p.id.stream)
    BY <1>0 DEF Stream
  <2>3. Previous(p)' = Previous(p)
    BY <1>0, <1>1, <1>2 DEF Previous, Stream
  <2>4. ShapesBefore(p)' = ShapesBefore(p) /\ IdBefore(p)' = IdBefore(p)
    BY <2>3 DEF ShapesBefore, IdBefore
  <2>5. {q \in Stream(p.id.stream)' : q.seq < p.seq} = {q \in Stream(p.id.stream) : q.seq < p.seq}
    BY <1>0, <1>1, <1>2 DEF Stream
  <2>6. KeysBefore(p)' = KeysBefore(p)
    BY <2>5 DEF KeysBefore
  <2> QED
    BY <1>2, <2>1, <2>4, <2>6 DEF TransOK
<1>7. RowsOf(o)' = rows
  BY <1>0, <1>4, <1>5 DEF RowsOf
<1>8. ShapesBefore(o)' = HeadShapes(s) /\ IdBefore(o)' = HeadId(s)
  <2>1. CASE s \notin DOMAIN heads
    BY <1>1, <2>1 DEF ShapesBefore, IdBefore, HeadShapes, HeadId
  <2>2. CASE s \in DOMAIN heads
    <3>1. PICK h \in obs : h.id = heads[s].id /\ h.seq = heads[s].seq /\ h.id.stream = s
      BY <1>2, <2>2 DEF HeadsOK, VerifyHead
    <3>2. HeadShapes(s) = h.shapes /\ HeadId(s) = h.id
      BY <1>2, <2>2, <3>1, ObsIs DEF HeadShapes, HeadId
    <3>3. o.seq = h.seq + 1 /\ h.seq \in Nat \ {0} /\ o.seq # 1
      BY <1>0, <1>2, <2>2, <3>1 DEF NextSeq, HeadsOK
    <3>4. \A q \in obs : q.id.stream = s /\ q.seq = o.seq - 1 => q = h
      BY <1>2, <3>1, <3>3 DEF ObsOK
    <3>5. Previous(o)' = {h}
      BY <1>0, <3>1, <3>3, <3>4 DEF Previous, Stream
    <3> QED
      BY <3>2, <3>3, <3>5 DEF ShapesBefore, IdBefore
  <2> QED
    BY <2>1, <2>2
<1>9. KeysBefore(o)' = HeadKeys(s)
  <2>1. {q \in Stream(s)' : q.seq < o.seq} = Stream(s)
    BY <1>0, <1>1 DEF Stream
  <2>2. KeysBefore(o)' = UNION {DOMAIN p.shapes : p \in Stream(s)}
    BY <2>1 DEF KeysBefore
  <2>3. KeysBefore(o)' = SeenKeys(s)
    BY <1>2, <2>2, SeenAre
  <2>4. CASE s \notin DOMAIN heads
    BY <1>1, <2>2, <2>4 DEF HeadKeys
  <2>5. CASE s \in DOMAIN heads
    BY <2>3, <2>5 DEF HeadKeys
  <2> QED
    BY <2>4, <2>5
<1>10. RowsOf(o)' = Derived(o.id, o.shapes, ShapesBefore(o)', IdBefore(o)', KeysBefore(o)')
  BY <1>0, <1>7, <1>8, <1>9 DEF UpToDate
<1>11. \A r \in trans' : \E p \in obs' : p.id = r.id
  BY <1>0, <1>2, <1>4 DEF TransOK
<1>12. ASSUME NEW p \in obs'
       PROVE  RowsOf(p)' = Derived(p.id, p.shapes, ShapesBefore(p)', IdBefore(p)', KeysBefore(p)')
  BY <1>0, <1>6, <1>10
<1> QED
  BY <1>11, <1>12 DEF TransOK

\* Who else writes keeps what it read of its own stream, or finds its number taken.
LEMMA StoredJobs ==
  ASSUME ChanInv, NEW o, NEW rows, Stored(o, rows), NEW j, JobOK(j)
  PROVE  JobOK(j)'
<1> DEFINE s == o.id.stream
<1>0. /\ obs' = obs \cup {o} /\ trans' = trans \cup rows /\ UNCHANGED <<engine, today>> /\ rows = UpToDate(o.id)
      /\ ~(\E p \in obs : p.id = o.id) /\ o.seq = NextSeq(s)
  BY DEF Stored
<1>1. /\ DOMAIN heads' = DOMAIN heads \cup {s} /\ heads'[s].seq = o.seq /\ heads'[s].id = o.id
      /\ \A x \in DOMAIN heads : x # s => heads'[x] = heads[x]
  BY DEF Stored, Put
<1>2. ObsOK /\ HeadsOK /\ ObsOK'
  BY StoredObs DEF ChanInv
<1>3. \A r \in rows : r.id = o.id
  BY <1>0 DEF UpToDate, Derived
<1>4. DoneOK(j) => DoneOK(j)'
  BY <1>0 DEF DoneOK
<1>5. o.seq \in Nat \ {0}
  BY NumberedLast
<1>6. ASSUME j.pc = "write"
      PROVE  WriteOK(j)'
  <2> DEFINE t == j.id.stream
  <2>1. WriteOK(j)
    BY <1>6 DEF JobOK
  <2>2. CASE t = s
    <3>1. NextSeq(t)' = o.seq + 1
      BY <1>1, <2>2 DEF NextSeq
    <3>2. j.seq \in Nat \ {0} /\ j.seq <= o.seq
      BY <1>0, <2>1, <2>2 DEF WriteOK
    <3> QED
      BY <1>5, <3>1, <3>2 DEF WriteOK
  <2>3. CASE t # s
    <3>1. NextSeq(t)' = NextSeq(t) /\ HeadId(t)' = HeadId(t)
      BY <1>1, <2>3 DEF NextSeq, HeadId
    <3>2. HeadShapes(t)' = HeadShapes(t)
      <4>1. CASE t \notin DOMAIN heads
        BY <1>1, <2>3, <4>1 DEF HeadShapes
      <4>2. CASE t \in DOMAIN heads
        <5>1. PICK h \in obs : h.id = heads[t].id
          BY <1>2, <4>2 DEF HeadsOK, VerifyHead
        <5>2. h \in obs' /\ heads'[t] = heads[t] /\ t \in DOMAIN heads'
          BY <1>0, <1>1, <2>3, <4>2
        <5>3. Obs(h.id) = h /\ Obs(h.id)' = h
          <6>1. \A p \in obs' : p.id = h.id => p = h
            BY <1>2, <5>2 DEF ObsOK
          <6> QED
            BY <1>2, <5>2, <6>1, ObsIs DEF Obs
        <5> QED
          BY <4>2, <5>1, <5>2, <5>3 DEF HeadShapes
      <4> QED
        BY <4>1, <4>2
    <3>3. SeenKeys(t)' = SeenKeys(t)
      BY <1>0, <1>3, <2>3 DEF SeenKeys
    <3>4. HeadKeys(t)' = HeadKeys(t)
      BY <1>1, <2>3, <3>3 DEF HeadKeys
    <3>5. UpToDate(j.id)' = UpToDate(j.id)
      BY <1>0, <3>1, <3>2, <3>4 DEF UpToDate
    <3>6. t \in DOMAIN heads' => t \in DOMAIN heads /\ heads'[t] = heads[t]
      BY <1>1, <2>3
    <3> HIDE DEF t
    <3> QED
      BY <2>1, <3>1, <3>5, <3>6 DEF WriteOK, t
  <2> QED
    BY <2>2, <2>3
<1> QED
  BY <1>0, <1>4, <1>6 DEF JobOK

\* A publication is refused by the store, or is the next of its stream.
LEMMA PublishWriteSafe ==
  ASSUME ChanInv, NEW w \in Workers, PublishWrite(w)
  PROVE  ChanInv'
<1>1. PICK j : j = job[w]
  OBVIOUS
<1>2. j.pc = "write" /\ JobOK(j) /\ IdOK(j.id) /\ j.id \in DOMAIN engine /\ WriteOK(j)
  BY <1>1, JobIs DEF PublishWrite, JobOK
<1> DEFINE s == j.id.stream
<1>3. s.code \in Codes
  BY <1>2 DEF IdOK, Streams
<1>4. CASE RefusedWrite(j.id, j.seq)
  <2>1. PICK o : o = [status |-> "failed", id |-> None]
    OBVIOUS
  <2>2. ~Good(o)
    BY <2>1 DEF Good
  <2>3. JobOK(WithOutcome(j, s.code, o))
    BY <1>2, <1>3, <2>2, OutcomeOK
  <2>4. PICK k : k = WithOutcome(j, s.code, o)
    OBVIOUS
  <2>5. job' = [job EXCEPT ![w] = k] /\ UNCHANGED <<today, engine, obs, trans, heads, view>>
    BY <1>1, <1>4, <2>1, <2>4 DEF PublishWrite, Outcome
  <2> QED
    BY <2>3, <2>4, <2>5, JobMoves
<1>5. CASE ~RefusedWrite(j.id, j.seq)
  <2>1. PICK o : o = [id |-> j.id, seq |-> j.seq, shapes |-> engine[j.id]]
    OBVIOUS
  <2>2. o.id = j.id /\ o.seq = j.seq /\ o.shapes = engine[j.id]
    BY <2>1
  <2>3. /\ obs' = obs \cup {o} /\ trans' = trans \cup j.trans /\ heads' = Put(heads, s, [seq |-> o.seq, id |-> o.id])
        /\ job' = Outcome(w, s.code, [status |-> "published", id |-> j.id]) /\ UNCHANGED <<today, engine, view>>
    BY <1>1, <1>5, <2>1, <2>2 DEF PublishWrite
  <2>4. j.seq = NextSeq(s)
    <3>1. s \in DOMAIN heads => heads[s].seq \in Nat /\ heads[s].seq < j.seq
      BY <1>2, <1>5 DEF RefusedWrite, WriteOK, ChanInv, HeadsOK
    <3> QED
      BY <1>2, <3>1 DEF WriteOK, NextSeq
  <2>5. Stored(o, j.trans)
    BY <1>2, <1>5, <2>2, <2>3, <2>4 DEF Stored, WriteOK, RefusedWrite
  <2>6. ObsOK' /\ HeadsOK' /\ TransOK' /\ \A k : JobOK(k) => JobOK(k)'
    BY <2>5, StoredObs, StoredHeads, StoredTrans, StoredJobs
  <2>7. JobOK(WithOutcome(j, s.code, [status |-> "published", id |-> j.id]))'
    <3>1. PICK r : r = [status |-> "published", id |-> j.id]
      OBVIOUS
    <3>2. PICK k : k = WithOutcome(j, s.code, r)
      OBVIOUS
    <3>3. k.pc = "next" /\ k.interval = j.interval /\ k.asOf = j.asOf /\ k.left = j.left \ {s.code}
      BY <3>2 DEF WithOutcome
    <3>4. /\ DOMAIN k.done = {s.code} \cup DOMAIN j.done /\ k.done[s.code] = r
          /\ \A d \in DOMAIN j.done : d # s.code => k.done[d] = j.done[d]
      BY <3>2 DEF WithOutcome, Put
    <3>5. JobOK(j)'
      BY <1>2, <2>6
    <3>6. DoneOK(j)'
      BY <1>2, <3>5 DEF JobOK
    <3>7. ASSUME NEW d \in DOMAIN k.done, Good(k.done[d])
          PROVE  \E p \in obs' : p.id = k.done[d].id /\ p.id.stream.code = d
      <4>1. CASE d = s.code
        BY <2>2, <2>3, <3>1, <3>4, <4>1
      <4>2. CASE d # s.code
        BY <3>4, <3>6, <3>7, <4>2 DEF DoneOK
      <4> QED
        BY <4>1, <4>2
    <3>8. DoneOK(k)'
      BY <3>7 DEF DoneOK
    <3>9. JobOK(k)'
      BY <1>2, <1>3, <3>3, <3>4, <3>5, <3>8 DEF JobOK
    <3> QED
      BY <3>1, <3>2, <3>9
  <2>8. \A v \in Workers : JobOK(job[v])'
    <3> TAKE v \in Workers
    <3>1. CASE v = w
      <4>1. PICK k : k = WithOutcome(j, s.code, [status |-> "published", id |-> j.id])
        OBVIOUS
      <4>2. job'[v] = k
        BY <1>1, <2>3, <3>1, <4>1 DEF Outcome, ChanInv, JobsOK
      <4> QED
        BY <2>7, <4>1, <4>2
    <3>2. CASE v # w
      <4>1. PICK k : k = job[v]
        OBVIOUS
      <4>2. job'[v] = k /\ JobOK(k)
        BY <2>3, <3>2, <4>1 DEF Outcome, ChanInv, JobsOK
      <4> QED
        BY <2>6, <4>2
    <3> QED
      BY <3>1, <3>2
  <2>9. JobsOK'
    <3>1. DOMAIN job' = DOMAIN job
      BY <2>3 DEF Outcome
    <3> QED
      BY <2>8, <3>1 DEF JobsOK, ChanInv
  <2>10. ViewOK'
    BY <2>3 DEF ChanInv, ViewOK, VerifyHead
  <2> QED
    BY <2>3, <2>6, <2>9, <2>10 DEF ChanInv
<1> QED
  BY <1>4, <1>5

-----------------------------------------------------------------------------
(***************************************************************************)
(* The reader.                                                             *)
(***************************************************************************)

\* A reader finds one head of each stream of an instrument, each with its observation.
LEMMA ReadHeadsSafe ==
  ASSUME ChanInv, NEW c \in Codes, NEW i \in Intervals, ReadHeads(c, i)
  PROVE  ChanInv'
<1>1. PICK S : S = {x \in DOMAIN heads : x.code = c /\ x.interval = i}
  OBVIOUS
<1>2. PICK found : found = HeadsOf(c, i)
  OBVIOUS
<1>3. found = {heads[s] : s \in S}
  BY <1>1, <1>2 DEF HeadsOf
<1>4. \A s \in S : s \in DOMAIN heads /\ s.code = c /\ s.interval = i /\ heads[s].id.stream = s /\ VerifyHead(heads[s])
  BY <1>1 DEF ChanInv, HeadsOK
<1>5. IsFiniteSet(found)
  <2>1. IsFiniteSet(S)
    BY <1>1, FS_Subset DEF ChanInv, HeadsOK
  <2>2. [s \in S |-> heads[s]] \in Surjection(S, found)
    BY <1>3 DEF Surjection
  <2> QED
    BY <2>1, <2>2, FS_Surjection
<1>6. \A h \in found : VerifyHead(h) /\ IdOK(h.id)
  <2>1. \A h : VerifyHead(h) => IdOK(h.id)
    BY DEF VerifyHead, ChanInv, ObsOK
  <2> QED
    BY <1>3, <1>4, <2>1
<1>7. \A g, h \in found : /\ g.id.stream.code = h.id.stream.code /\ g.id.stream.interval = h.id.stream.interval
                          /\ g.id.stream = h.id.stream => g = h
  BY <1>3, <1>4
<1>8. view'.pc = "heads" /\ view'.found = found
  BY <1>2 DEF ReadHeads
<1>9. UNCHANGED <<today, engine, obs, trans, heads, job>>
  BY DEF ReadHeads
<1>10. ViewOK'
  BY <1>5, <1>6, <1>7, <1>8, <1>9 DEF ViewOK, VerifyHead
<1> QED
  BY <1>9, <1>10, RestKept

\* What the reader replays of an observation is what is stored of it.
LEMMA Replayed ==
  ASSUME ChanInv, NEW o \in obs
  PROVE  VerifiedTransitions(o)
<1>1. PICK before, prior, seen : before = ShapesBefore(o) /\ prior = IdBefore(o) /\ seen = KeysBefore(o)
  OBVIOUS
<1>2. {r \in trans : r.id = o.id} = Derived(o.id, o.shapes, before, prior, seen)
  BY <1>1 DEF ChanInv, TransOK, RowsOf
<1>3. \A k : PriorRevisionWitness(o, k) <=> k \in seen
  BY <1>1, WitnessIs DEF ChanInv
<1>4. PICK rows : rows = Derived(o.id, o.shapes, before, prior, seen)
  OBVIOUS
<1>5. \A r \in rows : \/ /\ r.key \in DOMAIN o.shapes /\ r.rev = o.id
                         /\ r.prior = IF r.key \in DOMAIN before THEN prior ELSE None
                         /\ r.status = IF r.key \notin DOMAIN before THEN "NEW"
                                       ELSE IF before[r.key] = o.shapes[r.key] THEN "UNCHANGED" ELSE "CHANGED"
                         /\ r.again = (r.key \notin DOMAIN before /\ r.key \in seen)
                      \/ /\ r.key \in DOMAIN before /\ r.key \notin DOMAIN o.shapes
                         /\ r.rev = None /\ r.prior = prior /\ r.status = "ABSENT" /\ r.again = FALSE
  BY <1>4 DEF Derived
<1>6. \A k \in DOMAIN before \cup DOMAIN o.shapes : \E r \in rows : r.key = k
  <2>1. PICK id, cur : id = o.id /\ cur = o.shapes
    OBVIOUS
  <2>2. rows = Derived(id, cur, before, prior, seen)
    BY <1>4, <2>1
  <2>3. (\A k \in DOMAIN cur : \E r \in rows : r.key = k) /\ (\A k \in DOMAIN before : \E r \in rows : r.key = k)
    BY ONLY <2>2, DerivedHas
  <2> QED
    BY <2>1, <2>3
<1>7. {r.key : r \in rows} = DOMAIN before \cup DOMAIN o.shapes
  BY <1>5, <1>6
<1>8. ASSUME NEW r \in rows
      PROVE  <<r.status, r.rev, r.prior, r.again>> =
               CASE r.key \notin DOMAIN before -> <<"NEW", o.id, None, PriorRevisionWitness(o, r.key)>>
                 [] r.key \notin DOMAIN o.shapes -> <<"ABSENT", None, prior, FALSE>>
                 [] OTHER -> <<IF before[r.key] = o.shapes[r.key] THEN "UNCHANGED" ELSE "CHANGED", o.id, prior, FALSE>>
  <2>1. CASE r.key \notin DOMAIN before
    <3>1. r.again = PriorRevisionWitness(o, r.key)
      <4>1. PriorRevisionWitness(o, r.key) \in BOOLEAN
        BY DEF PriorRevisionWitness
      <4>2. PriorRevisionWitness(o, r.key) <=> r.key \in seen
        BY <1>3
      <4>3. r.again = (r.key \notin DOMAIN before /\ r.key \in seen)
        BY <1>5, <2>1
      <4>4. CASE r.key \in seen
        BY <2>1, <4>1, <4>2, <4>3, <4>4
      <4>5. CASE r.key \notin seen
        BY <4>1, <4>2, <4>3, <4>5
      <4> QED
        BY <4>4, <4>5
    <3> QED
      BY <1>5, <2>1, <3>1
  <2>2. CASE r.key \in DOMAIN before /\ r.key \notin DOMAIN o.shapes
    BY <1>5, <2>2
  <2>3. CASE r.key \in DOMAIN before /\ r.key \in DOMAIN o.shapes
    <3>1. r.again = FALSE
      BY <1>5, <2>3
    <3> QED
      BY <1>5, <2>3, <3>1
  <2> QED
    BY <2>1, <2>2, <2>3
<1> QED
  BY <1>1, <1>2, <1>4, <1>7, <1>8 DEF VerifiedTransitions

\* A head whose observation is stored is read as it was published.
LEMMA HeadReads ==
  ASSUME ChanInv, NEW o \in obs
  PROVE  o.seq > 1 => \E p \in Previous(o) : ~Backward(o.id, p.id)
<1> SUFFICES ASSUME o.seq > 1
             PROVE  \E p \in Previous(o) : ~Backward(o.id, p.id)
  OBVIOUS
<1>1. ObsOK /\ HeadsOK /\ o.seq \in Nat \ {0} /\ \A q \in obs : q.seq \in Nat
  BY DEF ChanInv, ObsOK
<1>2. o.seq # 1
  BY <1>1
<1>3. PICK p \in obs : Previous(o) = {p} /\ p.id.stream = o.id.stream /\ p.seq = o.seq - 1
  BY <1>1, <1>2, PreviousOf
<1>4. p.seq < o.seq
  BY <1>1, <1>3
<1>5. ~Backward(o.id, p.id)
  BY <1>1, <1>3, <1>4 DEF ObsOK
<1> QED
  BY <1>3, <1>5

\* Among the heads found there is a latest.
LEMMA LatestIs ==
  ASSUME NEW found, found # {}, \A h \in found : IdOK(h.id)
  PROVE  Latest(found) # {}
<1> DEFINE D == {h.id.at : h \in found}
<1>1. D \subseteq Days /\ D # {}
  BY DEF IdOK
<1>2. \A h \in found : h.id.at \in D
  OBVIOUS
<1>3. \A d \in D : \E h \in found : d = h.id.at
  OBVIOUS
<1> HIDE DEF D
<1>4. Max(D) \in D /\ \A d \in D : Max(D) >= d
  BY <1>1, LatestDay
<1>5. PICK h \in found : Max(D) = h.id.at
  BY <1>3, <1>4
<1>6. \A g \in found : g.id.at <= h.id.at
  <2> TAKE g \in found
  <2>1. g.id.at \in D
    BY <1>2
  <2>2. g.id.at \in Nat /\ h.id.at \in Nat
    BY DEF IdOK, Days
  <2> QED
    BY <1>4, <1>5, <2>1, <2>2
<1> QED
  BY <1>6 DEF Latest

\* Two latest heads of one instrument are of two bases.
LEMMA TwoBases ==
  ASSUME NEW found, IsFiniteSet(found), Latest(found) # {}, Cardinality(Latest(found)) # 1,
         \A h \in found : IdOK(h.id),
         \A g, h \in found : /\ g.id.stream.code = h.id.stream.code /\ g.id.stream.interval = h.id.stream.interval
                             /\ g.id.stream = h.id.stream => g = h
  PROVE  Cardinality({h.id.stream.basis : h \in Latest(found)}) > 1
<1> DEFINE L == Latest(found)
           B == {h.id.stream.basis : h \in L}
<1>1. L \subseteq found /\ L # {} /\ IsFiniteSet(L) /\ Cardinality(L) # 1
  BY FS_Subset DEF Latest
<1> HIDE DEF L
<1>2. PICK g \in L, h \in L : g # h
  <2>1. PICK g \in L : TRUE
    BY <1>1
  <2>2. L # {g}
    BY <1>1, FS_Singleton
  <2> QED
    BY <2>1, <2>2
<1>3. g.id.stream \in Streams /\ h.id.stream \in Streams /\ g.id.stream # h.id.stream
      /\ g.id.stream.code = h.id.stream.code /\ g.id.stream.interval = h.id.stream.interval
  BY <1>1, <1>2 DEF IdOK
<1>4. g.id.stream.basis # h.id.stream.basis
  BY <1>3 DEF Streams
<1>5. [x \in L |-> x.id.stream.basis] \in Surjection(L, B)
  BY DEF Surjection
<1>6. IsFiniteSet(B)
  BY <1>1, <1>5, FS_Surjection
<1>7. g.id.stream.basis \in B /\ h.id.stream.basis \in B
  BY <1>2
<1> HIDE DEF B
<1>8. Cardinality(B) \in Nat /\ Cardinality(B) # 0 /\ Cardinality(B) # 1
  <2>1. Cardinality(B) \in Nat
    BY <1>6, FS_CardinalityType
  <2>2. Cardinality(B) # 0
    BY <1>6, <1>7, FS_EmptySet
  <2>3. Cardinality(B) # 1
    <3>1. ~(\E x : B = {x})
      BY <1>4, <1>7
    <3> QED
      BY <1>6, <3>1, FS_Singleton
  <2> QED
    BY <2>1, <2>2, <2>3
<1>9. Cardinality(B) > 1
  BY <1>8
<1> QED
  BY <1>9 DEF B, L

\* What a reader found is verified, or two price bases compete for the chart.
LEMMA ReadRestSafe ==
  ASSUME ChanInv, ReadRest
  PROVE  ChanInv'
<1>1. PICK found : found = view.found
  OBVIOUS
<1>2. /\ IsFiniteSet(found) /\ \A h \in found : VerifyHead(h) /\ IdOK(h.id)
      /\ \A g, h \in found : /\ g.id.stream.code = h.id.stream.code /\ g.id.stream.interval = h.id.stream.interval
                             /\ g.id.stream = h.id.stream => g = h
  BY <1>1 DEF ReadRest, ChanInv, ViewOK
<1>3. PICK r : r = ReadFound(found)
  OBVIOUS
<1>4. UNCHANGED <<today, engine, obs, trans, heads, job>>
  BY DEF ReadRest
<1>5. /\ view'.pc = "shown" /\ view'.reason = r.reason /\ view'.chart = Project(r, view.basis)
      /\ view'.bases = {h.id.stream.basis : h \in Latest(found)}
  BY <1>1, <1>3 DEF ReadRest
<1>6. view'.chart = "blocked" => r.reason \notin {"none", "snapshot_missing"}
  BY <1>5 DEF Project
<1>7. CASE found = {}
  BY <1>3, <1>4, <1>5, <1>6, <1>7, RestKept DEF ReadFound, ViewOK
<1>8. CASE found # {} /\ Cardinality(Latest(found)) # 1
  <2>1. Latest(found) # {}
    BY <1>2, <1>8, LatestIs
  <2>2. Cardinality({h.id.stream.basis : h \in Latest(found)}) > 1
    BY <1>2, <1>8, <2>1, TwoBases
  <2>3. r.reason = "ambiguous_stream_head"
    BY <1>2, <1>3, <1>8 DEF ReadFound
  <2>4. ViewOK'
    BY <1>5, <2>2, <2>3 DEF ViewOK
  <2> QED
    BY <1>4, <2>4, RestKept
<1>9. CASE found # {} /\ Cardinality(Latest(found)) = 1
  <2>1. Latest(found) # {}
    BY <1>2, <1>9, LatestIs
  <2>2. PICK h : h = CHOOSE x \in Latest(found) : TRUE
    OBVIOUS
  <2>3. h \in found
    BY <2>1, <2>2 DEF Latest
  <2>4. PICK o \in obs : o.id = h.id
    BY <1>2, <2>3 DEF VerifyHead
  <2>5. Obs(h.id) = o
    BY <2>4, ObsIs DEF ChanInv
  <2>6. (o.seq > 1 => \E p \in Previous(o) : ~Backward(o.id, p.id)) /\ VerifiedTransitions(o)
    BY HeadReads, Replayed
  <2>7. r.reason = "none"
    <3>1. ~(\E x \in found : ~VerifyHead(x))
      BY <1>2
    <3> QED
      BY <1>3, <1>9, <2>2, <2>5, <2>6, <3>1 DEF ReadFound
  <2>8. ViewOK'
    BY <1>5, <1>6, <2>7 DEF ViewOK
  <2> QED
    BY <1>4, <2>8, RestKept
<1> QED
  BY <1>7, <1>8, <1>9

\* Time passes.
LEMMA TickSafe ==
  ASSUME ChanInv, Tick
  PROVE  ChanInv'
<1>1. today \in Days /\ today' \in Days /\ today' >= today
  BY ChanAssumed DEF ChanAssumption, ChanInv, Tick, Days
<1>2. UNCHANGED <<engine, obs, trans, heads, job, view>>
  BY DEF Tick
<1>3. \A j : JobOK(j) => JobOK(j)'
  BY <1>1, <1>2, JobKept
<1>4. JobsOK'
  <2>1. ASSUME NEW v \in Workers
        PROVE  JobOK(job[v])'
    <3>1. PICK k : k = job[v]
      OBVIOUS
    <3>2. JobOK(k)'
      BY <1>3, <3>1, JobIs
    <3> QED
      BY <1>2, <3>1, <3>2
  <2> QED
    BY <1>2, <2>1 DEF JobsOK, ChanInv
<1>5. ObsOK'
  BY <1>2 DEF ChanInv, ObsOK
<1>6. HeadsOK'
  BY <1>2 DEF ChanInv, HeadsOK, VerifyHead
<1>7. TransOK'
  BY <1>2, TransKept DEF ChanInv
<1>8. ViewOK'
  BY <1>2 DEF ChanInv, ViewOK, VerifyHead
<1> QED
  BY <1>1, <1>2, <1>4, <1>5, <1>6, <1>7, <1>8 DEF ChanInv

\* Bars are stored and restated: what was frozen from them stays.
LEMMA StoreSafe ==
  ASSUME ChanInv, NEW c \in Codes, NEW d \in Days, StoreBar(c, d)
  PROVE  ChanInv'
<1>1. UNCHANGED <<today, engine, obs, trans, heads, job, view>>
  BY DEF StoreBar
<1>2. ViewOK'
  BY <1>1 DEF ChanInv, ViewOK, VerifyHead
<1> QED
  BY <1>1, <1>2, RestKept

\* A step that changes nothing.
LEMMA ChanNothing ==
  ASSUME ChanInv, UNCHANGED chanVars
  PROVE  ChanInv'
<1>1. UNCHANGED <<today, engine, obs, trans, heads, job, view>>
  BY DEF chanVars
<1>2. ViewOK'
  BY <1>1 DEF ChanInv, ViewOK, VerifyHead
<1> QED
  BY <1>1, <1>2, RestKept

\* An empty store.
LEMMA ChanStarts ==
  ASSUME ChanInit
  PROVE  ChanInv
<1>1. today \in Days
  BY ChanAssumed DEF ChanInit, ChanAssumption, Days
<1>2. DOMAIN engine = {} /\ obs = {} /\ trans = {} /\ DOMAIN heads = {} /\ view = Idle
  BY DEF ChanInit
<1>3. DOMAIN job = Workers /\ \A w \in Workers : job[w] = Idle
  BY DEF ChanInit
<1>4. JobOK(Idle)
  BY DEF JobOK, Idle
<1>5. JobsOK
  BY <1>3, <1>4 DEF JobsOK
<1>6. ViewOK
  BY <1>2 DEF ViewOK, Idle
<1>7. ObsOK /\ TransOK
  BY <1>2 DEF ObsOK, TransOK
<1>8. HeadsOK
  BY <1>2, FS_EmptySet DEF HeadsOK
<1> QED
  BY <1>1, <1>2, <1>5, <1>6, <1>7, <1>8 DEF ChanInv

-----------------------------------------------------------------------------
(***************************************************************************)
(* The theorems.                                                           *)
(***************************************************************************)

\* Every state of the published history satisfies the invariant, for any workers, codes, keys and
\* shapes, and whether a publication locks its stream or not.
THEOREM ChanInvariant == ChanSpec => []ChanInv
<1>1. ASSUME ChanInv, [ChanNext]_chanVars
      PROVE  ChanInv'
  <2>1. CASE Tick
    BY <1>1, <2>1, TickSafe
  <2>2. CASE \E c \in Codes, d \in Days : StoreBar(c, d)
    BY <1>1, <2>2, StoreSafe
  <2>3. CASE \E w \in Workers : Enqueue(w) \/ FreezeCode(w) \/ Observe(w)
    BY <1>1, <2>3, EnqueueSafe, FreezeSafe, ObserveSafe
  <2>4. CASE \E w \in Workers : PublishRead(w) \/ PublishWrite(w)
    BY <1>1, <2>4, PublishReadSafe, PublishWriteSafe
  <2>5. CASE \E w \in Workers : Report(w) \/ LeaveJob(w)
    BY <1>1, <2>5, ReportSafe, LeaveSafe
  <2>6. CASE \E c \in Codes, i \in Intervals : ReadHeads(c, i)
    BY <1>1, <2>6, ReadHeadsSafe
  <2>7. CASE ReadRest
    BY <1>1, <2>7, ReadRestSafe
  <2>8. CASE UNCHANGED chanVars
    BY <1>1, <2>8, ChanNothing
  <2> QED
    BY <1>1, <2>1, <2>2, <2>3, <2>4, <2>5, <2>6, <2>7, <2>8 DEF ChanNext
<1> QED
  BY <1>1, ChanStarts, PTL DEF ChanSpec

\* The observations of a stream are as many as its head counts.
LEMMA StreamCount ==
  ASSUME ChanInv, NEW s \in DOMAIN heads
  PROVE  {o.seq : o \in Stream(s)} = 1..heads[s].seq /\ Cardinality(Stream(s)) = heads[s].seq
<1>1. PICK n : n = heads[s].seq
  OBVIOUS
<1>2. n \in Nat \ {0} /\ ObsOK
  BY <1>1 DEF ChanInv, HeadsOK
<1>3. PICK S : S = Stream(s)
  OBVIOUS
<1>4. \A o \in S : o.seq \in 1..n
  BY <1>1, <1>2, <1>3 DEF ChanInv, HeadsOK, ObsOK, Stream
<1>5. \A m \in 1..n : \E o \in S : o.seq = m
  BY <1>1, <1>3 DEF ChanInv, HeadsOK, Stream
<1>6. \A o, p \in S : o.seq = p.seq => o = p
  BY <1>2, <1>3 DEF ObsOK, Stream
<1> DEFINE f == [o \in S |-> o.seq]
<1>7. f \in [S -> 1..n] /\ \A o \in S : f[o] = o.seq
  BY <1>4
<1> HIDE DEF f
<1>8. f \in Injection(S, 1..n) /\ f \in Surjection(S, 1..n)
  <2>1. \A o, p \in S : f[o] = f[p] => o = p
    BY <1>6, <1>7
  <2>2. \A m \in 1..n : \E o \in S : f[o] = m
    BY <1>5, <1>7
  <2>3. f \in Injection(S, 1..n)
    BY <1>7, <2>1 DEF Injection, IsInjective
  <2>4. f \in Surjection(S, 1..n)
    BY <1>7, <2>2 DEF Surjection
  <2> QED
    BY <2>3, <2>4
<1>9. IsFiniteSet(1..n) /\ Cardinality(1..n) = n
  BY <1>2, FS_Interval
<1>10. Cardinality(S) = n
  BY <1>8, <1>9, FS_Injection
<1> QED
  BY <1>1, <1>3, <1>4, <1>5, <1>10

\* A transition is marked as a return exactly if an observation before the previous one had its key.
LEMMA AgainIs ==
  ASSUME ChanInv, NEW r \in trans, NEW o, o = Obs(r.id)
  PROVE  r.again <=> /\ r.key \in DOMAIN o.shapes
                     /\ \A p \in Previous(o) : r.key \notin DOMAIN p.shapes
                     /\ \E p \in Stream(r.id.stream) : p.seq < o.seq /\ r.key \in DOMAIN p.shapes
<1>1. o \in obs /\ o.id = r.id
  BY ObsIs DEF ChanInv, TransOK
<1>2. PICK before, prior, seen : before = ShapesBefore(o) /\ prior = IdBefore(o) /\ seen = KeysBefore(o)
  OBVIOUS
<1>3. r \in Derived(o.id, o.shapes, before, prior, seen)
  BY <1>1, <1>2 DEF ChanInv, TransOK, RowsOf
<1>4. r.again <=> r.key \in DOMAIN o.shapes /\ r.key \notin DOMAIN before /\ r.key \in seen
  <2>1. CASE r.key \in DOMAIN o.shapes
    <3>1. r.again = (r.key \notin DOMAIN before /\ r.key \in seen)
      BY <1>3, <2>1 DEF Derived
    <3> QED
      BY <2>1, <3>1
  <2>2. CASE r.key \notin DOMAIN o.shapes
    BY <1>3, <2>2 DEF Derived
  <2> QED
    BY <2>1, <2>2
<1>5. r.key \in seen <=> \E p \in Stream(r.id.stream) : p.seq < o.seq /\ r.key \in DOMAIN p.shapes
  BY <1>1, <1>2 DEF KeysBefore
<1>6. r.key \notin DOMAIN before <=> \A p \in Previous(o) : r.key \notin DOMAIN p.shapes
  <2>1. CASE o.seq = 1
    BY <1>1, <1>2, <2>1, PreviousOf DEF ChanInv, ShapesBefore
  <2>2. CASE o.seq # 1
    BY <1>1, <1>2, <2>2, PreviousOf DEF ChanInv
  <2> QED
    BY <2>1, <2>2
<1> QED
  BY <1>4, <1>5, <1>6

\* The evidence is sound: what a reader verifies is what was published, the stored history is the
\* one a replay builds, a successful job has its evidence in the store, and a chart is blocked only
\* by a split.
THEOREM ChanIsSound == ChanSpec => []ChanSound
<1>1. ASSUME ChanInv
      PROVE  ChanSound
  <2>1. ReadsVerified /\ ChartUnambiguous
    BY <1>1 DEF ChanInv, ViewOK, ReadsVerified, ChartUnambiguous
  <2>2. SuccessIsStored
    <3> SUFFICES ASSUME NEW w \in Workers, job[w].pc = "done", job[w].status = "succeeded", NEW c \in Codes
                 PROVE  \E o \in obs : o.id = job[w].done[c].id /\ o.id.stream.code = c
      BY DEF SuccessIsStored
    <3>1. PICK j : j = job[w]
      OBVIOUS
    <3>2. JobOK(j) /\ j.pc = "done" /\ j.status = "succeeded"
      BY <1>1, <3>1, JobIs
    <3>3. DoneOK(j) /\ DOMAIN j.done = Codes /\ Good(j.done[c])
      BY <3>2 DEF JobOK
    <3> QED
      BY <3>1, <3>3 DEF DoneOK
  <2>3. HistoryReplays
    <3> SUFFICES ASSUME NEW s \in DOMAIN heads
                 PROVE  /\ {o.seq : o \in Stream(s)} = 1..heads[s].seq /\ Cardinality(Stream(s)) = heads[s].seq
                        /\ \A o, p \in Stream(s) : o.seq < p.seq => ~Backward(p.id, o.id)
                        /\ \A r \in trans : r.id.stream = s => LET o == Obs(r.id) IN
                             r.again <=> /\ r.key \in DOMAIN o.shapes
                                         /\ \A p \in Previous(o) : r.key \notin DOMAIN p.shapes
                                         /\ \E p \in Stream(s) : p.seq < o.seq /\ r.key \in DOMAIN p.shapes
      BY DEF HistoryReplays
    <3>1. \A o, p \in Stream(s) : o.seq < p.seq => ~Backward(p.id, o.id)
      BY <1>1 DEF ChanInv, ObsOK, Stream
    <3>2. ASSUME NEW r \in trans, r.id.stream = s
          PROVE  LET o == Obs(r.id) IN
                 r.again <=> /\ r.key \in DOMAIN o.shapes
                             /\ \A p \in Previous(o) : r.key \notin DOMAIN p.shapes
                             /\ \E p \in Stream(s) : p.seq < o.seq /\ r.key \in DOMAIN p.shapes
      <4>1. PICK o : o = Obs(r.id)
        OBVIOUS
      <4>2. r.again <=> /\ r.key \in DOMAIN o.shapes
                        /\ \A p \in Previous(o) : r.key \notin DOMAIN p.shapes
                        /\ \E p \in Stream(r.id.stream) : p.seq < o.seq /\ r.key \in DOMAIN p.shapes
        BY <1>1, <4>1, AgainIs
      <4> QED
        BY <3>2, <4>1, <4>2
    <3> QED
      BY <1>1, <3>1, <3>2, StreamCount
  <2> QED
    BY <2>1, <2>2, <2>3 DEF ChanSound
<1> QED
  BY <1>1, ChanInvariant, PTL

(***************************************************************************)
(* The page itself (BrowserSession).                                       *)
(*                                                                         *)
(* Sane says what holds of the page, of the ghosts and of every request in *)
(* flight: what kind of request it is and what waits for it (Typed,        *)
(* Chained), whose data it may still uncover (Accounted), and what a mode  *)
(* switch has finished (Switched).  A handler is a composition of loaders, *)
(* and a loader of aborting and sending, so Sane is a predicate of a page  *)
(* that is carried through the pages in between.                           *)
(***************************************************************************)

People == Users \cup {Nobody}
Abortable == {"bootstrap", "reports", "demo", "settings", "board", "events"}
RequestSet ==
  [id : Nat, kind : Abortable \cup {"login", "me", "logout", "mutation", "load", "reset", "exit"},
   chain : {"", "login", "start", "exit settings", "exit bootstrap"}, auth : Nat, active : BOOLEAN, mode : Nat,
   aborted : BOOLEAN, answer : {"none", "ok", "failed", "401"}, user : People]
PageSet ==
  [active : BOOLEAN, auth : Nat, mode : Nat, demo : BOOLEAN, target : {"", "demo", "formal"},
   data : [kind : {"none", "formal", "demo"}, user : People], board : BOOLEAN, overlay : BOOLEAN, refresh : BOOLEAN,
   poll : BOOLEAN, events : {"off", "on", "retry"}, reqs : SUBSET RequestSet, sent : Nat]

\* What may wait for a request of this kind, and what may become of it.
Waits(kind, chain) ==
  /\ kind \in {"login", "me"} => chain = "login"
  /\ chain = "login" => kind \in {"login", "me", "bootstrap", "reports", "demo"}
  /\ chain = "start" => kind \in {"bootstrap", "reports"}
  /\ chain = "exit settings" => kind = "settings"
  /\ chain = "exit bootstrap" => kind \in {"bootstrap", "reports"}
Fits(r) ==
  /\ Waits(r.kind, r.chain)
  /\ r.aborted => r.kind \in Abortable
  /\ r.answer = "401" => r.kind \notin {"login", "me", "logout"}

Typed(p) == p \in PageSet /\ \A r \in p.reqs : Fits(r) /\ r.auth <= p.auth /\ r.id <= p.sent

\* A request that ends a mode switch, itself or through what waits for it.
Ends(kind, chain) == kind \in {"load", "reset", "exit"} \/ chain \in {"exit settings", "exit bootstrap"}
Ticket(r) == Ends(r.kind, r.chain)
TicketFits(p, kind, chain) ==
  /\ kind \in {"load", "reset"} => p.target = "demo"
  /\ kind = "exit" => p.target = "formal"
  /\ chain \in {"exit settings", "exit bootstrap"} => p.target = "formal" /\ ~p.demo

NoLogin(p) == \A r \in p.reqs : r.chain # "login"
NoTicket(p) == \A r \in p.reqs : ~Ticket(r)

\* One login and one mode switch at a time.
Chained(p) ==
  /\ \A r, s \in p.reqs : r.chain = "login" /\ s.chain = "login" => r = s
  /\ \A r, s \in p.reqs : Ticket(r) /\ Ticket(s) => r = s
  /\ \A r \in p.reqs : TicketFits(p, r.kind, r.chain)

\* An answer that takes the login form away, and a login whose account the page does not know yet.
Uncovers(r) == ~r.aborted /\ (r.kind = "reports" \/ (r.kind \in {"bootstrap", "demo"} /\ r.answer = "ok"))
Asks(r) == r.kind = "me" \/ (r.kind = "login" /\ r.answer = "ok")
Asking(p) == \E r \in p.reqs : Asks(r)

\* Who the data in flight belong to.  Between a login at the server and its answer nothing is known; otherwise an
\* inactive page means that the server has no session, so that nothing sent by it is answered with data.
Accounted(p, s, o, lk, ad) ==
  /\ s \in {Nobody, o} /\ o \in People
  /\ \A r \in p.reqs : r.auth = p.auth /\ ~r.active => ~p.active
  /\ \A r \in p.reqs : r.kind = "me" /\ r.answer = "ok" /\ r.user = Nobody => s = Nobody
  /\ lk => s = Nobody /\ p.overlay /\ \A r \in p.reqs : Uncovers(r) => r.auth < p.auth
  /\ ~ad =>
       /\ \A r \in p.reqs : Uncovers(r) /\ r.kind # "demo" /\ r.auth = p.auth /\ r.active = p.active => r.user = o
       /\ ~p.overlay /\ p.data.kind = "formal" => p.data.user = o
       /\ \A r \in p.reqs : r.kind \in {"login", "me"} => ~p.active
       /\ \A r \in p.reqs : r.kind = "login" /\ r.answer = "none" => p.overlay
       /\ ~Asking(p) =>
            /\ ~p.active => s = Nobody
            /\ \A r \in p.reqs : Uncovers(r) /\ r.auth = p.auth => r.active
            /\ \A r \in p.reqs : ~r.aborted /\ r.answer = "401" /\ r.auth = p.auth => s = Nobody

\* What the two modes have.
Switched(p, df, br) ==
  /\ \A r \in p.reqs : r.kind \in {"mutation", "logout"} => ~p.demo /\ p.target = ""
  /\ p.demo \/ p.target # "" => \A r \in p.reqs : r.kind = "board" => r.aborted
  /\ ~df => /\ p.demo => p.data.kind = "demo"
            /\ p.data.kind = "demo" => (p.demo \/ p.target = "formal") /\ (p.board => br)
            /\ ~p.demo /\ p.target = "" /\ p.data.kind # "none" => p.refresh

Sane(p, s, o, lk, ad, df, br) == Typed(p) /\ Chained(p) /\ Accounted(p, s, o, lk, ad) /\ Switched(p, df, br)

\* A mode switch that has not ended waits for a request.
Switching(p) == p.target # "" => ~NoTicket(p)

\* What a page shows and is in; loaders change none of it.
SameView(p, q) ==
  /\ q.active = p.active /\ q.auth = p.auth /\ q.mode = p.mode /\ q.demo = p.demo /\ q.target = p.target
  /\ q.data = p.data /\ q.board = p.board /\ q.overlay = p.overlay

\* The chains of q are those of p.
SameChains(p, q) == (NoLogin(p) <=> NoLogin(q)) /\ (NoTicket(p) <=> NoTicket(q))

\* The ghosts may grow, and the lock be opened.
LEMMA GhostsGrow ==
  ASSUME NEW p, NEW s, NEW o, NEW lk, NEW ad, NEW df, NEW br, Sane(p, s, o, lk, ad, df, br),
         NEW lk1, NEW ad1, NEW df1, NEW br1, lk1 => lk, ad => ad1, df => df1, br => br1
  PROVE  Sane(p, s, o, lk1, ad1, df1, br1)
<1>1. Accounted(p, s, o, lk1, ad1)
  BY Zenon DEF Sane, Accounted
<1>2. Switched(p, df1, br1)
  BY DEF Sane, Switched
<1> QED
  BY <1>1, <1>2 DEF Sane

\* The timers, the stream and the counter of requests are not looked at.
LEMMA Retuned ==
  ASSUME NEW p, NEW s, NEW o, NEW lk, NEW ad, NEW df, NEW br, Sane(p, s, o, lk, ad, df, br),
         NEW q \in PageSet, SameView(p, q), q.reqs = p.reqs, q.sent = p.sent, p.refresh => q.refresh
  PROVE  Sane(q, s, o, lk, ad, df, br) /\ SameChains(p, q)
<1> USE DEF Sane, SameView
<1>1. Typed(q)
  BY DEF Typed
<1>2. Chained(q)
  BY DEF Chained, TicketFits
<1>3. Asking(q) <=> Asking(p)
  BY DEF Asking
<1>4. Accounted(q, s, o, lk, ad)
  BY <1>3 DEF Accounted
<1>5. Switched(q, df, br)
  BY DEF Switched
<1>6. SameChains(p, q)
  BY DEF SameChains, NoLogin, NoTicket
<1> QED
  BY <1>1, <1>2, <1>4, <1>5, <1>6

\* What AbortAll does to a request.
Cut(r, K) == IF r.kind \in K THEN [r EXCEPT !.aborted = TRUE] ELSE r

LEMMA CutRequest ==
  ASSUME NEW r \in RequestSet, Fits(r), NEW K \in SUBSET Abortable
  PROVE  /\ Cut(r, K) \in RequestSet /\ Fits(Cut(r, K))
         /\ Cut(r, K).kind = r.kind /\ Cut(r, K).chain = r.chain /\ Cut(r, K).auth = r.auth /\ Cut(r, K).id = r.id
         /\ Cut(r, K).active = r.active /\ Cut(r, K).answer = r.answer /\ Cut(r, K).user = r.user
         /\ ~Cut(r, K).aborted => Cut(r, K) = r /\ r.kind \notin K
         /\ r.aborted => Cut(r, K).aborted
         /\ Ticket(Cut(r, K)) <=> Ticket(r)
         /\ Uncovers(Cut(r, K)) => Uncovers(r)
         /\ Asks(Cut(r, K)) <=> Asks(r)
<1>1. CASE r.kind \in K
  <2>1. Cut(r, K) = [r EXCEPT !.aborted = TRUE]
    BY <1>1 DEF Cut
  <2> QED
    BY <1>1, <2>1 DEF RequestSet, Fits, Ticket, Uncovers, Asks
<1>2. CASE r.kind \notin K
  <2>1. Cut(r, K) = r
    BY <1>2 DEF Cut
  <2> QED
    BY <1>2, <2>1
<1> QED
  BY <1>1, <1>2

\* Aborting keeps what holds of the page: an aborted request uncovers nothing.
LEMMA AbortKeeps ==
  ASSUME NEW p, NEW s, NEW o, NEW lk, NEW ad, NEW df, NEW br, Sane(p, s, o, lk, ad, df, br),
         NEW K \in SUBSET Abortable
  PROVE  /\ Sane(AbortAll(p, K), s, o, lk, ad, df, br)
         /\ SameView(p, AbortAll(p, K)) /\ AbortAll(p, K).refresh = p.refresh /\ AbortAll(p, K).sent = p.sent
         /\ SameChains(p, AbortAll(p, K))
         /\ \A r \in AbortAll(p, K).reqs : r.kind \in K => r.aborted
<1> DEFINE q == AbortAll(p, K)
<1>0. Typed(p) /\ Chained(p) /\ Accounted(p, s, o, lk, ad) /\ Switched(p, df, br)
  BY DEF Sane
<1>1. p \in PageSet /\ p.reqs \subseteq RequestSet /\ \A r \in p.reqs : Fits(r) /\ r.auth <= p.auth /\ r.id <= p.sent
  BY <1>0 DEF Typed, PageSet
<1>2. q = [p EXCEPT !.reqs = {Cut(r, K) : r \in p.reqs}]
  BY DEF AbortAll, Cut
<1>3. q.reqs = {Cut(r, K) : r \in p.reqs}
  BY <1>1, <1>2 DEF PageSet
<1>4. q.reqs \subseteq RequestSet
  BY <1>1, <1>3, CutRequest
<1>5. q \in PageSet /\ SameView(p, q) /\ q.refresh = p.refresh /\ q.sent = p.sent
  BY <1>1, <1>2, <1>3, <1>4 DEF PageSet, SameView
<1> HIDE DEF q
<1>6. \A r \in q.reqs : \E t \in p.reqs : r = Cut(t, K)
  BY <1>3
<1>7. \A t \in p.reqs : Cut(t, K) \in q.reqs
  BY <1>3
<1>8. \A r \in q.reqs : \E t \in p.reqs :
        /\ r = Cut(t, K) /\ Fits(r) /\ t \in RequestSet
        /\ r.kind = t.kind /\ r.chain = t.chain /\ r.auth = t.auth /\ r.active = t.active /\ r.id = t.id
        /\ r.answer = t.answer /\ r.user = t.user
        /\ (t.aborted => r.aborted) /\ (r.kind \in K => r.aborted)
        /\ (Ticket(r) <=> Ticket(t)) /\ (Uncovers(r) => Uncovers(t)) /\ (Asks(r) <=> Asks(t))
        /\ (~r.aborted => ~t.aborted)
  <2> TAKE r \in q.reqs
  <2>1. PICK t \in p.reqs : r = Cut(t, K)
    BY <1>6
  <2>2. t \in RequestSet /\ Fits(t)
    BY <1>1
  <2> QED
    BY <2>1, <2>2, CutRequest
<1>9. Typed(q)
  BY <1>1, <1>5, <1>8 DEF Typed, SameView
<1>10. Chained(q)
  <2>1. \A r, t \in q.reqs : r.chain = "login" /\ t.chain = "login" => r = t
    BY <1>0, <1>8 DEF Chained
  <2>2. \A r, t \in q.reqs : Ticket(r) /\ Ticket(t) => r = t
    BY <1>0, <1>8 DEF Chained
  <2>3. \A r \in q.reqs : TicketFits(q, r.kind, r.chain)
    <3> TAKE r \in q.reqs
    <3>1. PICK t \in p.reqs : r.kind = t.kind /\ r.chain = t.chain
      BY <1>8
    <3>2. TicketFits(p, t.kind, t.chain)
      BY <1>0 DEF Chained
    <3> QED
      BY <1>5, <3>1, <3>2 DEF TicketFits, SameView
  <2> QED
    BY <2>1, <2>2, <2>3 DEF Chained
<1>11. Asking(q) <=> Asking(p)
  <2>1. Asking(q) => Asking(p)
    BY <1>8 DEF Asking
  <2>2. Asking(p) => Asking(q)
    BY <1>1, <1>7, CutRequest DEF Asking
  <2> QED
    BY <2>1, <2>2
<1>12. Accounted(q, s, o, lk, ad)
  BY <1>0, <1>5, <1>8, <1>11 DEF Accounted, SameView
<1>13. Switched(q, df, br)
  <2>1. \A r \in q.reqs : r.kind \in {"mutation", "logout"} => ~p.demo /\ p.target = ""
    BY <1>0, <1>8 DEF Switched
  <2>2. p.demo \/ p.target # "" => \A r \in q.reqs : r.kind = "board" => r.aborted
    <3> SUFFICES ASSUME p.demo \/ p.target # "", NEW r \in q.reqs, r.kind = "board"
                 PROVE  r.aborted
      OBVIOUS
    <3>1. PICK t \in p.reqs : r.kind = t.kind /\ (t.aborted => r.aborted)
      BY <1>8
    <3>2. t.aborted
      BY <1>0, <3>1 DEF Switched
    <3> QED
      BY <3>1, <3>2
  <2>3. ~df => /\ p.demo => p.data.kind = "demo"
               /\ p.data.kind = "demo" => (p.demo \/ p.target = "formal") /\ (p.board => br)
               /\ ~p.demo /\ p.target = "" /\ p.data.kind # "none" => p.refresh
    BY <1>0 DEF Switched
  <2> QED
    BY <1>5, <2>1, <2>2, <2>3 DEF Switched, SameView
<1>14. SameChains(p, q)
  <2>1. \A t \in p.reqs : Cut(t, K).chain = t.chain /\ (Ticket(Cut(t, K)) <=> Ticket(t))
    BY <1>1, CutRequest
  <2> QED
    BY <1>7, <1>8, <2>1 DEF SameChains, NoLogin, NoTicket
<1> QED
  BY <1>5, <1>8, <1>9, <1>10, <1>12, <1>13, <1>14 DEF Sane, q

\* When a handler may send a request: at most one login and one mode switch, formal writes and boards in formal
\* mode, and the question who logged in only for a page that belongs to nobody.
MaySend(p, kind, chain, ad) ==
  /\ kind \in (Abortable \ {"reports"}) \cup {"login", "me", "logout", "mutation", "load", "reset", "exit"}
  /\ chain \in {"", "login", "start", "exit settings", "exit bootstrap"} /\ Waits(kind, chain)
  /\ kind \in {"board", "mutation", "logout"} => ~p.demo /\ p.target = ""
  /\ chain = "login" => NoLogin(p)
  /\ Ends(kind, chain) => NoTicket(p)
  /\ TicketFits(p, kind, chain)
  /\ kind \in {"login", "me"} => ad \/ ~p.active
  /\ kind = "login" => ad \/ p.overlay

Outgoing(p, kind, chain, u) ==
  [id |-> p.sent + 1, kind |-> kind, chain |-> chain, auth |-> p.auth, active |-> p.active, mode |-> p.mode,
   aborted |-> FALSE, answer |-> "none", user |-> u]

IsSent(n, p, kind, chain) ==
  /\ n.id = p.sent + 1 /\ n.kind = kind /\ n.chain = chain /\ n.auth = p.auth /\ n.active = p.active
  /\ ~n.aborted /\ n.answer = "none"

\* A request in flight more, whatever account a login is for.
LEMMA SentKeeps ==
  ASSUME NEW p, NEW s, NEW o, NEW lk, NEW ad, NEW df, NEW br, Sane(p, s, o, lk, ad, df, br),
         NEW kind, NEW chain, NEW n, IsSent(n, p, kind, chain), MaySend(p, kind, chain, ad),
         NEW q \in PageSet, SameView(p, q), p.refresh = q.refresh, q.sent = p.sent + 1, q.reqs = p.reqs \cup {n}
  PROVE  /\ Sane(q, s, o, lk, ad, df, br)
         /\ NoLogin(q) <=> (NoLogin(p) /\ chain # "login")
         /\ NoTicket(q) <=> (NoTicket(p) /\ ~Ends(kind, chain))
<1>0. Typed(p) /\ Chained(p) /\ Accounted(p, s, o, lk, ad) /\ Switched(p, df, br)
  BY DEF Sane
<1>1. p \in PageSet /\ p.auth \in Nat /\ p.sent \in Nat /\ p.reqs \subseteq RequestSet /\ p.active \in BOOLEAN /\ \A r \in p.reqs : Fits(r) /\ r.auth <= p.auth /\ r.id <= p.sent
  BY <1>0 DEF Typed, PageSet
<1>2. /\ n.id = p.sent + 1 /\ n.kind = kind /\ n.chain = chain /\ n.auth = p.auth /\ n.active = p.active
      /\ ~n.aborted /\ n.answer = "none"
  BY DEF IsSent
<1>3. ~Uncovers(n) /\ (Ticket(n) <=> Ends(kind, chain)) /\ (Asks(n) <=> kind = "me")
  BY <1>2 DEF Uncovers, Ticket, Asks, MaySend, Abortable
<1>4. Fits(n)
  BY <1>2 DEF Fits, MaySend
<1>5. n \in q.reqs /\ \A r \in q.reqs : r \in p.reqs \/ r = n
  OBVIOUS
<1>6. \A r \in p.reqs : r \in q.reqs
  OBVIOUS
<1>7. Typed(q)
  <2> SUFFICES \A r \in q.reqs : Fits(r) /\ r.auth <= q.auth /\ r.id <= q.sent
    BY DEF Typed
  <2> TAKE r \in q.reqs
  <2>1. CASE r = n
    BY <1>1, <1>2, <1>4, <2>1 DEF SameView
  <2>2. CASE r \in p.reqs
    <3>1. r.id \in Nat
      BY <1>1, <2>2 DEF RequestSet
    <3> QED
      BY <1>1, <2>2, <3>1 DEF SameView
  <2> QED
    BY <1>5, <2>1, <2>2
<1>8. Chained(q)
  <2>1. \A r, t \in q.reqs : r.chain = "login" /\ t.chain = "login" => r = t
    <3>1. chain = "login" => NoLogin(p)
      BY DEF MaySend
    <3> QED
      BY <1>0, <1>2, <1>5, <3>1 DEF Chained, NoLogin
  <2>2. \A r, t \in q.reqs : Ticket(r) /\ Ticket(t) => r = t
    <3>1. Ends(kind, chain) => NoTicket(p)
      BY DEF MaySend
    <3> QED
      BY <1>0, <1>3, <1>5, <3>1 DEF Chained, NoTicket
  <2>3. \A r \in q.reqs : TicketFits(q, r.kind, r.chain)
    <3> TAKE r \in q.reqs
    <3>1. TicketFits(p, r.kind, r.chain)
      BY <1>0, <1>2, <1>5 DEF Chained, MaySend
    <3> QED
      BY <3>1 DEF TicketFits, SameView
  <2> QED
    BY <2>1, <2>2, <2>3 DEF Chained
<1>9. Asking(p) => Asking(q)
  BY <1>6 DEF Asking
<1>10. Accounted(q, s, o, lk, ad)
  <2>1. s \in {Nobody, o} /\ o \in People
    BY <1>0 DEF Accounted
  <2>2. \A r \in q.reqs : r.auth = q.auth /\ ~r.active => ~q.active
    BY <1>0, <1>2, <1>5 DEF Accounted, SameView
  <2>3. \A r \in q.reqs : r.kind = "me" /\ r.answer = "ok" /\ r.user = Nobody => s = Nobody
    BY <1>0, <1>2, <1>5 DEF Accounted
  <2>4. lk => s = Nobody /\ q.overlay /\ \A r \in q.reqs : Uncovers(r) => r.auth < q.auth
    BY <1>0, <1>3, <1>5 DEF Accounted, SameView
  <2>5. ~ad => \A r \in q.reqs : Uncovers(r) /\ r.kind # "demo" /\ r.auth = q.auth /\ r.active = q.active => r.user = o
    BY <1>0, <1>3, <1>5 DEF Accounted, SameView
  <2>6. ~ad => (~q.overlay /\ q.data.kind = "formal" => q.data.user = o)
    BY <1>0 DEF Accounted, SameView
  <2>7. ~ad => \A r \in q.reqs : r.kind \in {"login", "me"} => ~q.active
    <3>1. ~ad /\ kind \in {"login", "me"} => ~p.active
      BY DEF MaySend
    <3> QED
      BY <1>0, <1>2, <1>5, <3>1 DEF Accounted, SameView
  <2>8. ~ad => \A r \in q.reqs : r.kind = "login" /\ r.answer = "none" => q.overlay
    <3>1. ~ad /\ kind = "login" => p.overlay
      BY DEF MaySend
    <3> QED
      BY <1>0, <1>2, <1>5, <3>1 DEF Accounted, SameView
  <2>9. ~ad /\ ~Asking(q) =>
          /\ ~q.active => s = Nobody
          /\ \A r \in q.reqs : Uncovers(r) /\ r.auth = q.auth => r.active
          /\ \A r \in q.reqs : ~r.aborted /\ r.answer = "401" /\ r.auth = q.auth => s = Nobody
    BY <1>0, <1>2, <1>3, <1>5, <1>9 DEF Accounted, SameView
  <2> QED
    BY <2>1, <2>2, <2>3, <2>4, <2>5, <2>6, <2>7, <2>8, <2>9 DEF Accounted
<1>11. Switched(q, df, br)
  <2>1. \A r \in q.reqs : r.kind \in {"mutation", "logout"} => ~q.demo /\ q.target = ""
    <3>1. kind \in {"mutation", "logout"} => ~p.demo /\ p.target = ""
      BY DEF MaySend
    <3> QED
      BY <1>0, <1>2, <1>5, <3>1 DEF Switched, SameView
  <2>2. q.demo \/ q.target # "" => \A r \in q.reqs : r.kind = "board" => r.aborted
    <3>1. kind = "board" => ~p.demo /\ p.target = ""
      BY DEF MaySend
    <3> QED
      BY <1>0, <1>2, <1>5, <3>1 DEF Switched, SameView
  <2> QED
    BY <1>0, <2>1, <2>2 DEF Switched, SameView
<1>12. NoLogin(q) <=> (NoLogin(p) /\ chain # "login")
  BY <1>2, <1>5, <1>6 DEF NoLogin
<1>13. NoTicket(q) <=> (NoTicket(p) /\ ~Ends(kind, chain))
  BY <1>3, <1>5, <1>6 DEF NoTicket
<1> QED
  BY <1>7, <1>8, <1>10, <1>11, <1>12, <1>13 DEF Sane

\* The same for Send.
LEMMA SendKeeps ==
  ASSUME NEW p, NEW s, NEW o, NEW lk, NEW ad, NEW df, NEW br, Sane(p, s, o, lk, ad, df, br),
         NEW kind, NEW chain, MaySend(p, kind, chain, ad)
  PROVE  /\ Sane(Send(p, kind, chain), s, o, lk, ad, df, br)
         /\ SameView(p, Send(p, kind, chain)) /\ Send(p, kind, chain).refresh = p.refresh
         /\ NoLogin(Send(p, kind, chain)) <=> (NoLogin(p) /\ chain # "login")
         /\ NoTicket(Send(p, kind, chain)) <=> (NoTicket(p) /\ ~Ends(kind, chain))
<1> DEFINE q == Send(p, kind, chain)
           n == Outgoing(p, kind, chain, Nobody)
<1>1. p \in PageSet
  BY DEF Sane, Typed
<1>2. Nobody \in People
  BY DEF People
<1>3. n \in RequestSet
  <2>1. /\ kind \in Abortable \cup {"login", "me", "logout", "mutation", "load", "reset", "exit"}
        /\ chain \in {"", "login", "start", "exit settings", "exit bootstrap"}
    BY DEF MaySend
  <2>2. p.sent + 1 \in Nat /\ p.auth \in Nat /\ p.mode \in Nat /\ p.active \in BOOLEAN
    <3>1. p.sent \in Nat /\ p.auth \in Nat /\ p.mode \in Nat /\ p.active \in BOOLEAN
      BY <1>1 DEF PageSet
    <3> QED
      BY <3>1
  <2> QED
    BY <1>2, <2>1, <2>2 DEF Outgoing, RequestSet
<1>4. q = [p EXCEPT !.sent = @ + 1, !.reqs = @ \cup {n}] /\ IsSent(n, p, kind, chain)
  BY DEF Send, Outgoing, IsSent
<1>5. p.reqs \cup {n} \in SUBSET RequestSet /\ p.sent + 1 \in Nat
  <2>1. p.reqs \subseteq RequestSet /\ p.sent \in Nat
    BY <1>1 DEF PageSet
  <2> HIDE DEF n
  <2> QED
    BY <1>3, <2>1
<1> HIDE DEF n
<1>6. q \in PageSet /\ SameView(p, q) /\ q.refresh = p.refresh /\ q.sent = p.sent + 1 /\ q.reqs = p.reqs \cup {n}
  <2>1. q = [p EXCEPT !.sent = p.sent + 1, !.reqs = p.reqs \cup {n}]
    BY <1>1, <1>4 DEF PageSet
  <2> HIDE DEF q
  <2> QED
    BY <1>1, <1>5, <2>1 DEF PageSet, SameView
<1> HIDE DEF q
<1>7. q \in PageSet /\ SameView(p, q) /\ p.refresh = q.refresh /\ IsSent(n, p, kind, chain)
  BY <1>4, <1>6
<1>8. Sane(q, s, o, lk, ad, df, br)
  BY <1>6, <1>7, SentKeeps
<1>9. NoLogin(q) <=> (NoLogin(p) /\ chain # "login")
  BY <1>6, <1>7, SentKeeps
<1>10. NoTicket(q) <=> (NoTicket(p) /\ ~Ends(kind, chain))
  BY <1>6, <1>7, SentKeeps
<1> QED
  BY <1>6, <1>8, <1>9, <1>10 DEF q

\* The parts of Sane that make room for a request.
LEMMA Room ==
  ASSUME NEW p, NEW s, NEW o, NEW lk, NEW ad, NEW df, NEW br, Sane(p, s, o, lk, ad, df, br), NEW q,
         SameView(p, q), SameChains(p, q), NEW kind, NEW chain, MaySend(p, kind, chain, ad)
  PROVE  MaySend(q, kind, chain, ad)
BY DEF MaySend, SameView, SameChains, TicketFits

LEMMA ReadKeeps ==
  ASSUME NEW p, NEW s, NEW o, NEW lk, NEW ad, NEW df, NEW br, Sane(p, s, o, lk, ad, df, br),
         NEW kind \in {"board", "settings", "events"}, kind = "board" => ~p.demo /\ p.target = ""
  PROVE  /\ Sane(Read(p, kind), s, o, lk, ad, df, br)
         /\ SameView(p, Read(p, kind)) /\ SameChains(p, Read(p, kind)) /\ Read(p, kind).refresh = p.refresh
<1>1. MaySend(p, kind, "", ad)
  BY DEF MaySend, Abortable, Waits, Ends, TicketFits
<1>2. ~Ends(kind, "")
  BY DEF Ends
<1>3. /\ Sane(Send(p, kind, ""), s, o, lk, ad, df, br)
      /\ SameView(p, Send(p, kind, "")) /\ Send(p, kind, "").refresh = p.refresh
      /\ NoLogin(Send(p, kind, "")) <=> (NoLogin(p) /\ "" # "login")
      /\ NoTicket(Send(p, kind, "")) <=> (NoTicket(p) /\ ~Ends(kind, ""))
  BY <1>1, SendKeeps
<1>4. SameView(p, p) /\ SameChains(p, p)
  BY DEF SameView, SameChains
<1> QED
  BY <1>2, <1>3, <1>4 DEF Read, SameChains

\* loadDecisionBoard, before its await.
LEMMA LoadBoardKeeps ==
  ASSUME NEW p, NEW s, NEW o, NEW lk, NEW ad, NEW df, NEW br, Sane(p, s, o, lk, ad, df, br)
  PROVE  /\ Sane(LoadBoard(p), s, o, lk, ad, df, br)
         /\ SameView(p, LoadBoard(p)) /\ SameChains(p, LoadBoard(p)) /\ LoadBoard(p).refresh = p.refresh
<1> DEFINE q == AbortAll(p, {"board"})
<1>1. CASE p.demo \/ p.target # ""
  BY <1>1 DEF LoadBoard, SameView, SameChains
<1>2. CASE ~(p.demo \/ p.target # "")
  <2>1. {"board"} \in SUBSET Abortable
    BY DEF Abortable
  <2>2. /\ Sane(q, s, o, lk, ad, df, br) /\ SameView(p, q) /\ SameChains(p, q) /\ q.refresh = p.refresh
    BY <2>1, AbortKeeps
  <2>3. LoadBoard(p) = Read(q, "board")
    BY <1>2 DEF LoadBoard
  <2> HIDE DEF q
  <2>4. ~q.demo /\ q.target = ""
    BY <1>2, <2>2 DEF SameView
  <2>5. /\ Sane(Read(q, "board"), s, o, lk, ad, df, br)
        /\ SameView(q, Read(q, "board")) /\ SameChains(q, Read(q, "board")) /\ Read(q, "board").refresh = q.refresh
    BY <2>2, <2>4, ReadKeeps
  <2> QED
    BY <2>2, <2>3, <2>5 DEF SameView, SameChains
<1> QED
  BY <1>1, <1>2

\* loadSettings, before its await, when nothing waits for it.
LEMMA LoadSettingsKeeps ==
  ASSUME NEW p, NEW s, NEW o, NEW lk, NEW ad, NEW df, NEW br, Sane(p, s, o, lk, ad, df, br)
  PROVE  /\ Sane(LoadSettings(p, ""), s, o, lk, ad, df, br)
         /\ SameView(p, LoadSettings(p, "")) /\ SameChains(p, LoadSettings(p, ""))
<1> DEFINE q == AbortAll(p, {"settings"})
<1>1. CASE p.demo \/ p.target = "demo"
  BY <1>1 DEF LoadSettings, SameView, SameChains
<1>2. CASE ~(p.demo \/ p.target = "demo")
  <2>1. {"settings"} \in SUBSET Abortable
    BY DEF Abortable
  <2>2. Sane(q, s, o, lk, ad, df, br) /\ SameView(p, q) /\ SameChains(p, q)
    BY <2>1, AbortKeeps
  <2>3. LoadSettings(p, "") = Read(q, "settings")
    BY <1>2 DEF LoadSettings
  <2> HIDE DEF q
  <2>4. /\ Sane(Read(q, "settings"), s, o, lk, ad, df, br)
        /\ SameView(q, Read(q, "settings")) /\ SameChains(q, Read(q, "settings"))
    BY <2>2, ReadKeeps
  <2> QED
    BY <2>2, <2>3, <2>4 DEF SameView, SameChains
<1> QED
  BY <1>1, <1>2

\* connectEvents, before its await.
LEMMA ConnectEventsKeeps ==
  ASSUME NEW p, NEW s, NEW o, NEW lk, NEW ad, NEW df, NEW br, Sane(p, s, o, lk, ad, df, br)
  PROVE  /\ Sane(ConnectEvents(p), s, o, lk, ad, df, br)
         /\ SameView(p, ConnectEvents(p)) /\ SameChains(p, ConnectEvents(p))
<1> DEFINE a == AbortAll(p, {"events"})
           q == [a EXCEPT !.events = "off"]
<1>1. {"events"} \in SUBSET Abortable
  BY DEF Abortable
<1>2. Sane(a, s, o, lk, ad, df, br) /\ SameView(p, a) /\ SameChains(p, a)
  BY <1>1, AbortKeeps
<1>3. ConnectEvents(p) = IF p.target # "" THEN q ELSE Read(q, "events")
  <2>1. q.target = p.target
    BY <1>2 DEF Sane, Typed, PageSet, SameView
  <2> QED
    BY <2>1 DEF ConnectEvents
<1> HIDE DEF a
<1>4. q \in PageSet /\ SameView(a, q) /\ q.reqs = a.reqs /\ q.sent = a.sent /\ q.refresh = a.refresh
  BY <1>2 DEF Sane, Typed, PageSet, SameView
<1>5. Sane(q, s, o, lk, ad, df, br) /\ SameChains(a, q)
  BY <1>2, <1>4, Retuned
<1> HIDE DEF q
<1>6. /\ Sane(Read(q, "events"), s, o, lk, ad, df, br)
      /\ SameView(q, Read(q, "events")) /\ SameChains(q, Read(q, "events"))
  BY <1>5, ReadKeeps
<1> QED
  BY <1>2, <1>3, <1>4, <1>5, <1>6 DEF SameView, SameChains

\* The end of a login.
LEMMA AfterLoginKeeps ==
  ASSUME NEW p, NEW s, NEW o, NEW lk, NEW ad, NEW df, NEW br, Sane(p, s, o, lk, ad, df, br)
  PROVE  Sane(AfterLogin(p), s, o, lk, ad, df, br) /\ SameView(p, AfterLogin(p)) /\ SameChains(p, AfterLogin(p))
<1>1. CASE p.active
  <2>1. AfterLogin(p) = LoadSettings(ConnectEvents(p), "")
    BY <1>1 DEF AfterLogin
  <2>2. /\ Sane(ConnectEvents(p), s, o, lk, ad, df, br)
        /\ SameView(p, ConnectEvents(p)) /\ SameChains(p, ConnectEvents(p))
    BY ConnectEventsKeeps
  <2> DEFINE c == ConnectEvents(p)
  <2> HIDE DEF c
  <2>3. Sane(c, s, o, lk, ad, df, br)
    BY <2>2 DEF c
  <2>4. /\ Sane(LoadSettings(c, ""), s, o, lk, ad, df, br)
        /\ SameView(c, LoadSettings(c, "")) /\ SameChains(c, LoadSettings(c, ""))
    BY <2>3, LoadSettingsKeeps
  <2> QED
    BY <2>1, <2>2, <2>4 DEF SameView, SameChains, c
<1>2. CASE ~p.active
  BY <1>2 DEF AfterLogin, SameView, SameChains
<1> QED
  BY <1>1, <1>2

\* loadBootstrap, before its await: what waits for it goes on at once or waits for the new request.
LEMMA LoadBootstrapKeeps ==
  ASSUME NEW p, NEW s, NEW o, NEW lk, NEW ad, NEW df, NEW br, Sane(p, s, o, lk, ad, df, br),
         NEW chain \in {"", "login", "start", "exit bootstrap"},
         chain = "login" => NoLogin(p),
         chain = "start" => ~p.demo,
         chain = "exit bootstrap" => NoTicket(p) /\ p.target = "formal" /\ ~p.demo
  PROVE  /\ Sane(LoadBootstrap(p, chain), s, o, lk, ad, df, br)
         /\ SameView(p, LoadBootstrap(p, chain))
         /\ NoTicket(LoadBootstrap(p, chain)) <=> (NoTicket(p) /\ chain # "exit bootstrap")
<1>1. CASE p.target # "" /\ ~(p.target = "formal" /\ ~p.demo)
  <2>1. LoadBootstrap(p, chain) = IF chain = "login" THEN AfterLogin(p) ELSE p
    BY <1>1 DEF LoadBootstrap
  <2>2. chain # "exit bootstrap"
    BY <1>1
  <2> QED
    BY <2>1, <2>2, AfterLoginKeeps DEF SameView, SameChains
<1>2. CASE p.target = "" /\ p.demo
  <2> DEFINE q == AbortAll(p, {"demo"})
  <2>1. LoadBootstrap(p, chain) = Send(q, "demo", chain)
    BY <1>2 DEF LoadBootstrap, LoadDemo
  <2>2. {"demo"} \in SUBSET Abortable
    BY DEF Abortable
  <2>3. Sane(q, s, o, lk, ad, df, br) /\ SameView(p, q) /\ SameChains(p, q)
    BY <2>2, AbortKeeps
  <2>4. chain \in {"", "login"}
    BY <1>2
  <2>5. MaySend(p, "demo", chain, ad)
    BY <2>4 DEF MaySend, Abortable, Waits, Ends, TicketFits
  <2> HIDE DEF q
  <2>6. MaySend(q, "demo", chain, ad) /\ ~Ends("demo", chain)
    BY <2>3, <2>4, <2>5, Room DEF Ends
  <2>7. /\ Sane(Send(q, "demo", chain), s, o, lk, ad, df, br) /\ SameView(q, Send(q, "demo", chain))
        /\ NoTicket(Send(q, "demo", chain)) <=> (NoTicket(q) /\ ~Ends("demo", chain))
    BY <2>3, <2>6, SendKeeps
  <2> QED
    BY <2>1, <2>3, <2>4, <2>6, <2>7 DEF SameView, SameChains
<1>3. CASE ~(p.target # "" /\ ~(p.target = "formal" /\ ~p.demo)) /\ ~(p.target = "" /\ p.demo)
  <2> DEFINE q == AbortAll(p, {"bootstrap", "reports"})
  <2>1. LoadBootstrap(p, chain) = Send(q, "bootstrap", chain)
    BY <1>3 DEF LoadBootstrap
  <2>2. {"bootstrap", "reports"} \in SUBSET Abortable
    BY DEF Abortable
  <2>3. Sane(q, s, o, lk, ad, df, br) /\ SameView(p, q) /\ SameChains(p, q)
    BY <2>2, AbortKeeps
  <2>5. MaySend(p, "bootstrap", chain, ad)
    BY DEF MaySend, Abortable, Waits, Ends, TicketFits
  <2> HIDE DEF q
  <2>6. MaySend(q, "bootstrap", chain, ad) /\ (Ends("bootstrap", chain) <=> chain = "exit bootstrap")
    BY <2>3, <2>5, Room DEF Ends
  <2>7. /\ Sane(Send(q, "bootstrap", chain), s, o, lk, ad, df, br) /\ SameView(q, Send(q, "bootstrap", chain))
        /\ NoTicket(Send(q, "bootstrap", chain)) <=> (NoTicket(q) /\ ~Ends("bootstrap", chain))
    BY <2>3, <2>6, SendKeeps
  <2> QED
    BY <2>1, <2>3, <2>6, <2>7 DEF SameView, SameChains
<1> QED
  BY <1>1, <1>2, <1>3

\* What waits for a request when it has gone.
Without(p, r) == [p EXCEPT !.reqs = @ \ {r}]

\* A request leaves; the question who logged in takes with it what was not known.
LEMMA Removed ==
  ASSUME NEW p, NEW s, NEW o, NEW lk, NEW ad, NEW df, NEW br, Sane(p, s, o, lk, ad, df, br),
         NEW r \in p.reqs, NEW ad1, ad => ad1, Asks(r) => ad1
  PROVE  /\ Sane(Without(p, r), s, o, lk, ad1, df, br)
         /\ SameView(p, Without(p, r)) /\ Without(p, r).refresh = p.refresh /\ Without(p, r).events = p.events
         /\ Without(p, r).sent = p.sent /\ Without(p, r).reqs = p.reqs \ {r}
         /\ r.chain = "login" => NoLogin(Without(p, r))
         /\ Ticket(r) => NoTicket(Without(p, r))
         /\ ~Ticket(r) => (NoTicket(Without(p, r)) <=> NoTicket(p))
<1> DEFINE q == Without(p, r)
<1>0. Typed(p) /\ Chained(p) /\ Accounted(p, s, o, lk, ad) /\ Switched(p, df, br)
  BY DEF Sane
<1>1. /\ q \in PageSet /\ SameView(p, q) /\ q.refresh = p.refresh /\ q.events = p.events /\ q.sent = p.sent
      /\ q.reqs = p.reqs \ {r}
  BY <1>0 DEF Without, Typed, PageSet, SameView
<1> HIDE DEF q
<1>2. Typed(q)
  BY <1>0, <1>1 DEF Typed, SameView
<1>3. Chained(q)
  BY <1>0, <1>1 DEF Chained, TicketFits, SameView
<1>4. Asks(r) \/ (Asking(p) => Asking(q))
  BY <1>1 DEF Asking
<1>5. Accounted(q, s, o, lk, ad1)
  BY <1>0, <1>1, <1>4 DEF Accounted, SameView
<1>6. Switched(q, df, br)
  BY <1>0, <1>1 DEF Switched, SameView
<1>7. r.chain = "login" => NoLogin(q)
  BY <1>0, <1>1 DEF Chained, NoLogin
<1>8. Ticket(r) => NoTicket(q)
  BY <1>0, <1>1 DEF Chained, NoTicket
<1>9. ~Ticket(r) => (NoTicket(q) <=> NoTicket(p))
  BY <1>1 DEF NoTicket
<1> QED
  BY <1>1, <1>2, <1>3, <1>5, <1>6, <1>7, <1>8, <1>9 DEF Sane, q

\* When n may take the place of r.
MayReplace(p, r, n, s, o, lk, ad) ==
  /\ n \in RequestSet /\ Fits(n) /\ n.auth <= p.auth
  /\ n.chain = r.chain /\ (Ticket(n) <=> Ticket(r)) /\ TicketFits(p, n.kind, n.chain)
  /\ (n.kind = r.kind /\ (r.aborted => n.aborted)) \/ n.kind \notin {"mutation", "logout", "board"}
  /\ n.auth = p.auth /\ ~n.active => ~p.active
  /\ n.kind = "me" /\ n.answer = "ok" /\ n.user = Nobody => s = Nobody
  /\ lk /\ Uncovers(n) => n.auth < p.auth
  /\ ~ad =>
       /\ Uncovers(n) /\ n.kind # "demo" /\ n.auth = p.auth /\ n.active = p.active => n.user = o
       /\ n.kind \in {"login", "me"} => ~p.active
       /\ n.kind = "login" /\ n.answer = "none" => p.overlay
       /\ Asks(r) => Asks(n)
       /\ ~Asking(p) => /\ Uncovers(n) /\ n.auth = p.auth => n.active
                        /\ ~n.aborted /\ n.answer = "401" /\ n.auth = p.auth => s = Nobody

\* A request takes the place of another, or its answer has come.
LEMMA Replaced ==
  ASSUME NEW p, NEW s, NEW o, NEW lk, NEW ad, NEW df, NEW br, Sane(p, s, o, lk, ad, df, br),
         NEW r \in p.reqs, NEW n, MayReplace(p, r, n, s, o, lk, ad),
         NEW q \in PageSet, SameView(p, q), q.refresh = p.refresh, q.sent >= p.sent, n.id <= q.sent,
         q.reqs = (p.reqs \ {r}) \cup {n}
  PROVE  Sane(q, s, o, lk, ad, df, br) /\ SameChains(p, q)
<1>0. Typed(p) /\ Chained(p) /\ Accounted(p, s, o, lk, ad) /\ Switched(p, df, br)
  BY DEF Sane
<1>1. \A t \in q.reqs : (t \in p.reqs /\ t # r) \/ t = n
  OBVIOUS
<1>2. n \in q.reqs /\ \A t \in p.reqs : t = r \/ t \in q.reqs
  OBVIOUS
<1>3. Typed(q)
  <2> SUFFICES \A t \in q.reqs : Fits(t) /\ t.auth <= q.auth /\ t.id <= q.sent
    BY DEF Typed
  <2> TAKE t \in q.reqs
  <2>1. CASE t = n
    BY <2>1 DEF MayReplace, SameView
  <2>2. CASE t \in p.reqs
    <3>1. t.id \in Nat /\ p.sent \in Nat /\ q.sent \in Nat /\ t.id <= p.sent /\ Fits(t) /\ t.auth <= p.auth
      BY <1>0, <2>2 DEF Typed, PageSet, RequestSet
    <3> QED
      BY <3>1 DEF SameView
  <2> QED
    BY <1>1, <2>1, <2>2
<1>4. Chained(q)
  <2>1. \A t, u \in q.reqs : t.chain = "login" /\ u.chain = "login" => t = u
    BY <1>0, <1>1 DEF Chained, MayReplace
  <2>2. \A t, u \in q.reqs : Ticket(t) /\ Ticket(u) => t = u
    BY <1>0, <1>1 DEF Chained, MayReplace
  <2>3. \A t \in q.reqs : TicketFits(q, t.kind, t.chain)
    <3> TAKE t \in q.reqs
    <3>1. TicketFits(p, t.kind, t.chain)
      BY <1>0, <1>1 DEF Chained, MayReplace
    <3> QED
      BY <3>1 DEF TicketFits, SameView
  <2> QED
    BY <2>1, <2>2, <2>3 DEF Chained
<1>5. ~ad /\ Asking(p) => Asking(q)
  BY <1>2 DEF Asking, MayReplace
<1>6. ~ad /\ ~Asking(q) => ~Asking(p)
  BY <1>5
<1>7. Accounted(q, s, o, lk, ad)
  <2>1. s \in {Nobody, o} /\ o \in People
    BY <1>0 DEF Accounted
  <2>2. \A t \in q.reqs : t.auth = q.auth /\ ~t.active => ~q.active
    BY <1>0, <1>1 DEF Accounted, SameView, MayReplace
  <2>3. \A t \in q.reqs : t.kind = "me" /\ t.answer = "ok" /\ t.user = Nobody => s = Nobody
    BY <1>0, <1>1 DEF Accounted, MayReplace
  <2>4. lk => s = Nobody /\ q.overlay /\ \A t \in q.reqs : Uncovers(t) => t.auth < q.auth
    BY <1>0, <1>1 DEF Accounted, SameView, MayReplace
  <2>5. ~ad => \A t \in q.reqs : Uncovers(t) /\ t.kind # "demo" /\ t.auth = q.auth /\ t.active = q.active => t.user = o
    BY <1>0, <1>1 DEF Accounted, SameView, MayReplace
  <2>6. ~ad => (~q.overlay /\ q.data.kind = "formal" => q.data.user = o)
    BY <1>0 DEF Accounted, SameView
  <2>7. ~ad => \A t \in q.reqs : t.kind \in {"login", "me"} => ~q.active
    BY <1>0, <1>1 DEF Accounted, SameView, MayReplace
  <2>8. ~ad => \A t \in q.reqs : t.kind = "login" /\ t.answer = "none" => q.overlay
    BY <1>0, <1>1 DEF Accounted, SameView, MayReplace
  <2>9. ~ad /\ ~Asking(q) =>
          /\ ~q.active => s = Nobody
          /\ \A t \in q.reqs : Uncovers(t) /\ t.auth = q.auth => t.active
          /\ \A t \in q.reqs : ~t.aborted /\ t.answer = "401" /\ t.auth = q.auth => s = Nobody
    BY <1>0, <1>1, <1>6 DEF Accounted, SameView, MayReplace
  <2> QED
    BY <2>1, <2>2, <2>3, <2>4, <2>5, <2>6, <2>7, <2>8, <2>9 DEF Accounted
<1>8. Switched(q, df, br)
  <2>1. \A t \in q.reqs : t.kind \in {"mutation", "logout"} => ~q.demo /\ q.target = ""
    BY <1>0, <1>1 DEF Switched, SameView, MayReplace
  <2>2. q.demo \/ q.target # "" => \A t \in q.reqs : t.kind = "board" => t.aborted
    BY <1>0, <1>1 DEF Switched, SameView, MayReplace
  <2> QED
    BY <1>0, <2>1, <2>2 DEF Switched, SameView
<1>9. SameChains(p, q)
  BY <1>1, <1>2 DEF SameChains, NoLogin, NoTicket, MayReplace
<1> QED
  BY <1>3, <1>4, <1>7, <1>8, <1>9 DEF Sane

\* The page shows something else or changes its mode: what the mode demands of the new view, and that it is uncovered
\* only with the data of the account.
LEMMA Reshown ==
  ASSUME NEW p, NEW s, NEW o, NEW lk, NEW ad, NEW df0, NEW br0, Sane(p, s, o, lk, ad, df0, br0), NEW df, NEW br,
         NEW q \in PageSet, q.reqs = p.reqs, q.sent = p.sent, q.auth = p.auth, q.active = p.active,
         \A r \in p.reqs : TicketFits(q, r.kind, r.chain),
         \A r \in p.reqs : r.kind \in {"mutation", "logout"} => ~q.demo /\ q.target = "",
         q.demo \/ q.target # "" => \A r \in p.reqs : r.kind = "board" => r.aborted,
         lk => q.overlay,
         ~ad => /\ ~q.overlay /\ q.data.kind = "formal" => q.data.user = o
                /\ q.overlay \/ ~p.overlay \/ \A r \in p.reqs : r.kind = "login" => r.answer # "none",
         ~df => /\ q.demo => q.data.kind = "demo"
                /\ q.data.kind = "demo" => (q.demo \/ q.target = "formal") /\ (q.board => br)
                /\ ~q.demo /\ q.target = "" /\ q.data.kind # "none" => q.refresh
  PROVE  Sane(q, s, o, lk, ad, df, br) /\ SameChains(p, q)
<1>0. Typed(p) /\ Chained(p) /\ Accounted(p, s, o, lk, ad) /\ Switched(p, df0, br0)
  BY DEF Sane
<1>1. Typed(q)
  BY <1>0 DEF Typed
<1>2. Chained(q)
  BY <1>0 DEF Chained
<1>3. Asking(q) <=> Asking(p)
  BY DEF Asking
<1>4. Accounted(q, s, o, lk, ad)
  BY <1>0, <1>3 DEF Accounted
<1>5. Switched(q, df, br)
  BY DEF Switched
<1>6. SameChains(p, q)
  BY DEF SameChains, NoLogin, NoTicket
<1> QED
  BY <1>1, <1>2, <1>4, <1>5, <1>6 DEF Sane

\* A 401 ends the session of the page.
LEMMA Deactivated ==
  ASSUME NEW p, NEW s, NEW o, NEW lk, NEW ad, NEW df, NEW br, Sane(p, s, o, lk, ad, df, br),
         ~ad => Asking(p) \/ s = Nobody,
         NEW q \in PageSet, q.reqs = p.reqs, q.sent = p.sent, q.auth = p.auth, ~q.active, q.overlay,
         q.demo = p.demo, q.target = p.target, q.data = p.data, q.board = p.board, p.refresh => q.refresh
  PROVE  Sane(q, s, o, lk, ad, df, br) /\ SameChains(p, q)
<1>0. Typed(p) /\ Chained(p) /\ Accounted(p, s, o, lk, ad) /\ Switched(p, df, br)
  BY DEF Sane
<1>1. Typed(q)
  BY <1>0 DEF Typed
<1>2. Chained(q)
  BY <1>0 DEF Chained, TicketFits
<1>3. Asking(q) <=> Asking(p)
  BY DEF Asking
<1>4. ~ad /\ Asking(p) => ~p.active
  BY <1>0 DEF Accounted, Asking, Asks
<1>5. p.active \in BOOLEAN /\ \A r \in p.reqs : r.active \in BOOLEAN
  BY <1>0 DEF Typed, PageSet, RequestSet
<1>6. ~ad => \A r \in q.reqs : Uncovers(r) /\ r.kind # "demo" /\ r.auth = q.auth /\ r.active = q.active => r.user = o
  <2> SUFFICES ASSUME ~ad, NEW r \in p.reqs, Uncovers(r), r.kind # "demo", r.auth = p.auth, ~r.active
               PROVE  r.user = o
    BY <1>5
  <2>1. Asking(p)
    BY <1>0 DEF Accounted
  <2>2. r.active = p.active
    BY <1>4, <1>5, <2>1
  <2> QED
    BY <1>0, <2>2 DEF Accounted
<1>7. Accounted(q, s, o, lk, ad)
  BY <1>0, <1>3, <1>6 DEF Accounted
<1>8. Switched(q, df, br)
  BY <1>0 DEF Switched
<1>9. SameChains(p, q)
  BY DEF SameChains, NoLogin, NoTicket
<1> QED
  BY <1>1, <1>2, <1>7, <1>8, <1>9 DEF Sane

\* A new account or none: what was sent before is nobody's any more.
LEMMA Renewed ==
  ASSUME NEW p, NEW s, NEW o, NEW lk0, NEW df, NEW br, Sane(p, s, o, lk0, TRUE, df, br), NEW lk, NEW ad,
         NEW q \in PageSet, q.reqs = p.reqs, q.sent = p.sent, q.auth = p.auth + 1,
         q.demo = p.demo, q.target = p.target, q.data = p.data, q.board = p.board, q.refresh = p.refresh,
         lk => s = Nobody /\ q.overlay,
         ~ad => /\ ~q.overlay /\ q.data.kind = "formal" => q.data.user = o
                /\ \A r \in p.reqs : r.kind \in {"login", "me"} => ~q.active
                /\ \A r \in p.reqs : r.kind = "login" /\ r.answer = "none" => q.overlay
                /\ ~Asking(p) /\ ~q.active => s = Nobody
  PROVE  Sane(q, s, o, lk, ad, df, br) /\ SameChains(p, q)
<1>0. Typed(p) /\ Chained(p) /\ Accounted(p, s, o, lk0, TRUE) /\ Switched(p, df, br)
  BY DEF Sane
<1>1. \A r \in p.reqs : r.auth < q.auth
  <2> TAKE r \in p.reqs
  <2>1. r.auth \in Nat /\ p.auth \in Nat /\ r.auth <= p.auth
    BY <1>0 DEF Typed, PageSet, RequestSet
  <2> QED
    BY <2>1
<1>2. \A r \in p.reqs : r.auth # q.auth /\ r.auth <= q.auth
  <2> TAKE r \in p.reqs
  <2>1. r.auth \in Nat /\ q.auth \in Nat
    BY <1>0 DEF Typed, PageSet, RequestSet
  <2> QED
    BY <1>1, <2>1
<1>3. Typed(q)
  BY <1>0, <1>2 DEF Typed
<1>4. Chained(q)
  BY <1>0 DEF Chained, TicketFits
<1>5. Asking(q) <=> Asking(p)
  BY DEF Asking
<1>6. Accounted(q, s, o, lk, ad)
  BY <1>0, <1>1, <1>2, <1>5 DEF Accounted
<1>7. Switched(q, df, br)
  BY <1>0 DEF Switched
<1>8. SameChains(p, q)
  BY DEF SameChains, NoLogin, NoTicket
<1> QED
  BY <1>3, <1>4, <1>6, <1>7, <1>8 DEF Sane

\* The session ends at the server, and with it nothing becomes wrong.
LEMMA SessionEnds ==
  ASSUME NEW p, NEW s, NEW o, NEW lk, NEW ad, NEW df, NEW br, Sane(p, s, o, lk, ad, df, br)
  PROVE  Sane(p, Nobody, o, lk, ad, df, br)
<1>1. Accounted(p, Nobody, o, lk, ad)
  BY DEF Sane, Accounted
<1> QED
  BY <1>1 DEF Sane

\* A page that shows formal data and refreshes them has what its mode demands, whatever failed.
LEMMA Refreshed ==
  ASSUME NEW p, NEW s, NEW o, NEW lk, NEW ad, NEW df, NEW br, Sane(p, s, o, lk, ad, TRUE, br),
         ~p.demo, p.data.kind # "demo", p.refresh
  PROVE  Sane(p, s, o, lk, ad, df, br)
BY DEF Sane, Switched

\* An answer that may uncover the page, once it is found to be for the account the page has.
LEMMA Uncovered ==
  ASSUME NEW p, NEW s, NEW o, NEW lk, NEW ad, NEW df, NEW br, Sane(p, s, o, lk, ad, df, br),
         NEW r \in p.reqs, Uncovers(r), r.auth = p.auth, r.active = p.active \/ ~r.active
  PROVE  /\ ~lk
         /\ ~ad => /\ r.kind # "demo" => r.user = o
                   /\ \A t \in p.reqs : t.kind = "login" => t.answer # "none"
<1>0. Typed(p) /\ Chained(p) /\ Accounted(p, s, o, lk, ad)
  BY DEF Sane
<1>1. ~lk
  <2>1. p.auth \in Nat
    BY <1>0 DEF Typed, PageSet
  <2> QED
    BY <1>0, <2>1 DEF Accounted
<1>2. ~ad /\ ~Asking(p) => r.active
  BY <1>0 DEF Accounted
<1>3. ~ad /\ Asking(p) => ~p.active
  BY <1>0 DEF Accounted, Asking, Asks
<1>4. p.active \in BOOLEAN /\ r.active \in BOOLEAN
  BY <1>0 DEF Typed, PageSet, RequestSet
<1>5. ~ad => r.active = p.active
  BY <1>2, <1>3, <1>4
<1>6. ~ad /\ r.kind # "demo" => r.user = o
  BY <1>0, <1>5 DEF Accounted
<1>7. ASSUME ~ad, NEW t \in p.reqs, t.kind = "login", t.answer = "none"
      PROVE  FALSE
  <2>1. ~p.active
    BY <1>0, <1>7 DEF Accounted
  <2>2. Asking(p)
    BY <1>2, <1>5, <1>7, <2>1
  <2>3. PICK m \in p.reqs : Asks(m)
    BY <2>2 DEF Asking
  <2>4. m.kind \in {"login", "me"} /\ Fits(m) /\ Fits(t)
    BY <1>0, <2>3 DEF Typed, Asks
  <2>5. m.chain = "login" /\ t.chain = "login"
    BY <1>7, <2>4 DEF Fits, Waits
  <2>6. m = t
    BY <1>0, <2>5 DEF Chained
  <2> QED
    BY <1>7, <2>3, <2>6 DEF Asks
<1> QED
  BY <1>1, <1>6, <1>7

\* exitDemoMode after the formal reload.
LEMMA ExitEndKeeps ==
  ASSUME NEW p, NEW s, NEW o, NEW lk, NEW ad, NEW df, NEW br, Sane(p, s, o, lk, ad, df, br),
         NoTicket(p), p.target = "formal", ~p.demo
  PROVE  Sane(ExitEnd(p), s, o, lk, ad, df, br) /\ ExitEnd(p).target = ""
<1> DEFINE left == p.data.kind # "demo"
           q == [p EXCEPT !.target = "", !.demo = ~left]
           f == [q EXCEPT !.refresh = TRUE]
<1>0. Typed(p) /\ Chained(p) /\ Accounted(p, s, o, lk, ad) /\ Switched(p, df, br)
  BY DEF Sane
<1>1. ExitEnd(p) = IF left THEN ConnectEvents(f) ELSE q
  BY DEF ExitEnd
<1>2. /\ q \in PageSet /\ q.reqs = p.reqs /\ q.sent = p.sent /\ q.auth = p.auth /\ q.active = p.active
      /\ q.target = "" /\ q.demo = ~left /\ q.overlay = p.overlay /\ q.data = p.data /\ q.board = p.board
      /\ q.refresh = p.refresh
  BY <1>0 DEF Typed, PageSet
<1> HIDE DEF q
<1>3. /\ f \in PageSet /\ f.reqs = p.reqs /\ f.sent = p.sent /\ f.auth = p.auth /\ f.active = p.active
      /\ f.target = "" /\ f.demo = ~left /\ f.overlay = p.overlay /\ f.data = p.data /\ f.board = p.board
      /\ f.refresh
  BY <1>2 DEF PageSet
<1>4. \A r \in p.reqs : ~Ends(r.kind, r.chain)
  BY DEF NoTicket, Ticket
<1> HIDE DEF f
<1>5. /\ \A r \in p.reqs : TicketFits(q, r.kind, r.chain)
      /\ \A r \in p.reqs : TicketFits(f, r.kind, r.chain)
  BY <1>4 DEF Ends, TicketFits
<1>6. /\ \A r \in p.reqs : r.kind \notin {"mutation", "logout"}
      /\ \A r \in p.reqs : r.kind = "board" => r.aborted
      /\ lk => p.overlay
      /\ ~ad => (~p.overlay /\ p.data.kind = "formal" => p.data.user = o)
      /\ ~df /\ p.data.kind = "demo" /\ p.board => br
  BY <1>0 DEF Switched, Accounted
<1>7. CASE left
  <2>1. /\ \A r \in p.reqs : r.kind \in {"mutation", "logout"} => ~f.demo /\ f.target = ""
        /\ f.demo \/ f.target # "" => \A r \in p.reqs : r.kind = "board" => r.aborted
        /\ lk => f.overlay
        /\ ~ad => /\ ~f.overlay /\ f.data.kind = "formal" => f.data.user = o
                  /\ f.overlay \/ ~p.overlay \/ \A r \in p.reqs : r.kind = "login" => r.answer # "none"
        /\ ~df => /\ f.demo => f.data.kind = "demo"
                  /\ f.data.kind = "demo" => (f.demo \/ f.target = "formal") /\ (f.board => br)
                  /\ ~f.demo /\ f.target = "" /\ f.data.kind # "none" => f.refresh
    BY <1>3, <1>6, <1>7
  <2>2. Sane(f, s, o, lk, ad, df, br)
    BY <1>3, <1>5, <2>1, Reshown
  <2>3. Sane(ConnectEvents(f), s, o, lk, ad, df, br) /\ SameView(f, ConnectEvents(f))
    BY <2>2, ConnectEventsKeeps
  <2> QED
    BY <1>1, <1>3, <1>7, <2>3 DEF SameView
<1>8. CASE ~left
  <2>1. /\ \A r \in p.reqs : r.kind \in {"mutation", "logout"} => ~q.demo /\ q.target = ""
        /\ q.demo \/ q.target # "" => \A r \in p.reqs : r.kind = "board" => r.aborted
        /\ lk => q.overlay
        /\ ~ad => /\ ~q.overlay /\ q.data.kind = "formal" => q.data.user = o
                  /\ q.overlay \/ ~p.overlay \/ \A r \in p.reqs : r.kind = "login" => r.answer # "none"
        /\ ~df => /\ q.demo => q.data.kind = "demo"
                  /\ q.data.kind = "demo" => (q.demo \/ q.target = "formal") /\ (q.board => br)
                  /\ ~q.demo /\ q.target = "" /\ q.data.kind # "none" => q.refresh
    BY <1>2, <1>6, <1>8
  <2>2. Sane(q, s, o, lk, ad, df, br)
    BY <1>2, <1>5, <2>1, Reshown
  <2> QED
    BY <1>1, <1>2, <1>8, <2>2
<1> QED
  BY <1>7, <1>8

\* What waited for a request goes on.
LEMMA ContinueKeeps ==
  ASSUME NEW p, NEW s, NEW o, NEW lk, NEW ad, NEW df, NEW br, Sane(p, s, o, lk, ad, df, br),
         NEW chain \in {"", "login", "start", "exit settings", "exit bootstrap"},
         chain \in {"exit settings", "exit bootstrap"} => NoTicket(p) /\ p.target = "formal" /\ ~p.demo,
         chain \notin {"exit settings", "exit bootstrap"} => Switching(p)
  PROVE  Sane(Continue(p, chain), s, o, lk, ad, df, br) /\ Switching(Continue(p, chain))
<1>1. CASE chain = "login"
  <2>1. Continue(p, chain) = AfterLogin(p)
    BY <1>1 DEF Continue
  <2>2. Sane(AfterLogin(p), s, o, lk, ad, df, br) /\ SameView(p, AfterLogin(p)) /\ SameChains(p, AfterLogin(p))
    BY AfterLoginKeeps
  <2> QED
    BY <1>1, <2>1, <2>2 DEF SameView, SameChains, Switching
<1>2. CASE chain = "start"
  <2> DEFINE a == ConnectEvents(p)
             b == LoadSettings(a, "")
             c == LoadBoard(b)
             q == [c EXCEPT !.poll = TRUE]
  <2>1. Continue(p, chain) = IF p.data.kind # "none" THEN q ELSE p
    BY <1>2 DEF Continue
  <2>2. Sane(a, s, o, lk, ad, df, br) /\ SameView(p, a) /\ SameChains(p, a)
    BY ConnectEventsKeeps
  <2> HIDE DEF a
  <2>3. Sane(b, s, o, lk, ad, df, br) /\ SameView(a, b) /\ SameChains(a, b)
    BY <2>2, LoadSettingsKeeps
  <2> HIDE DEF b
  <2>4. Sane(c, s, o, lk, ad, df, br) /\ SameView(b, c) /\ SameChains(b, c)
    BY <2>3, LoadBoardKeeps
  <2> HIDE DEF c
  <2>5. q \in PageSet /\ SameView(c, q) /\ q.reqs = c.reqs /\ q.sent = c.sent /\ q.refresh = c.refresh
    BY <2>4 DEF Sane, Typed, PageSet, SameView
  <2>6. Sane(q, s, o, lk, ad, df, br) /\ SameChains(c, q)
    BY <2>4, <2>5, Retuned
  <2> HIDE DEF q
  <2>7. q.target = p.target /\ (NoTicket(q) <=> NoTicket(p))
    BY <2>2, <2>3, <2>4, <2>5, <2>6 DEF SameView, SameChains
  <2> QED
    BY <1>2, <2>1, <2>6, <2>7 DEF Switching
<1>3. CASE chain = "exit settings"
  <2>1. Continue(p, chain) = LoadBootstrap(p, "exit bootstrap")
    BY <1>3 DEF Continue
  <2>2. /\ Sane(LoadBootstrap(p, "exit bootstrap"), s, o, lk, ad, df, br)
        /\ NoTicket(LoadBootstrap(p, "exit bootstrap")) <=> (NoTicket(p) /\ "exit bootstrap" # "exit bootstrap")
    BY <1>3, LoadBootstrapKeeps
  <2> QED
    BY <2>1, <2>2 DEF Switching
<1>4. CASE chain = "exit bootstrap"
  <2>1. Continue(p, chain) = ExitEnd(p)
    BY <1>4 DEF Continue
  <2>2. Sane(ExitEnd(p), s, o, lk, ad, df, br) /\ ExitEnd(p).target = ""
    BY <1>4, ExitEndKeeps
  <2> QED
    BY <2>1, <2>2 DEF Switching
<1>5. CASE chain = ""
  <2>1. Continue(p, chain) = p
    BY <1>5 DEF Continue
  <2> QED
    BY <1>5, <2>1
<1> QED
  BY <1>1, <1>2, <1>3, <1>4, <1>5

Switches(kind, target) == <<kind, target>> \in {<<"load", "demo">>, <<"reset", "demo">>, <<"exit", "formal">>}

\* beginModeTransition, when it begins, and the request that follows it.
LEMMA SwitchKeeps ==
  ASSUME NEW p, NEW s, NEW o, NEW lk, NEW ad, NEW df, NEW br, Sane(p, s, o, lk, ad, df, br),
         NEW kind, NEW target, Switches(kind, target), BeginTransition(p, target) # p
  PROVE  LET q == Send(BeginTransition(p, target), kind, "")
         IN Sane(q, s, o, lk, ad, df, br) /\ Switching(q)
<1> DEFINE a == AbortAll(p, {"bootstrap", "reports", "demo", "settings", "board", "events"})
           b == BeginTransition(p, target)
<1>0. Typed(p) /\ Chained(p) /\ Accounted(p, s, o, lk, ad) /\ Switched(p, df, br)
  BY DEF Sane
<1>1. p.target = "" /\ Mutating(p) = {}
  BY DEF BeginTransition
<1>2. kind \in {"load", "reset", "exit"} /\ target \in {"demo", "formal"} /\ (kind = "exit" <=> target = "formal")
  BY DEF Switches
<1>3. {"bootstrap", "reports", "demo", "settings", "board", "events"} \in SUBSET Abortable
  BY DEF Abortable
<1>4. /\ Sane(a, s, o, lk, ad, df, br) /\ SameView(p, a) /\ a.refresh = p.refresh /\ SameChains(p, a)
      /\ \A r \in a.reqs : r.kind \in {"bootstrap", "reports", "demo", "settings", "board", "events"} => r.aborted
  BY <1>3, AbortKeeps
<1>5. NoTicket(p)
  BY <1>0, <1>1 DEF Chained, TicketFits, NoTicket, Ticket, Ends
<1>6. \A r \in a.reqs : r.kind \notin {"mutation", "logout"}
  <2>1. \A r \in p.reqs : r.kind \notin {"mutation", "logout"}
    BY <1>1 DEF Mutating
  <2>2. \A r \in a.reqs : \E t \in p.reqs : r.kind = t.kind
    <3>1. a.reqs = {IF t.kind \in {"bootstrap", "reports", "demo", "settings", "board", "events"}
                    THEN [t EXCEPT !.aborted = TRUE] ELSE t : t \in p.reqs}
      BY <1>0 DEF AbortAll, Typed, PageSet
    <3> TAKE r \in a.reqs
    <3>2. PICK t \in p.reqs : r = IF t.kind \in {"bootstrap", "reports", "demo", "settings", "board", "events"}
                                  THEN [t EXCEPT !.aborted = TRUE] ELSE t
      BY <3>1
    <3>3. t \in RequestSet
      BY <1>0 DEF Typed, PageSet
    <3> QED
      BY <3>2, <3>3 DEF RequestSet
  <2> QED
    BY <2>1, <2>2
<1>7. b = [a EXCEPT !.mode = @ + 1, !.target = target, !.refresh = FALSE, !.poll = FALSE, !.events = "off"]
  BY <1>1 DEF BeginTransition
<1> HIDE DEF a, b
<1>8. /\ b \in PageSet /\ b.reqs = a.reqs /\ b.sent = a.sent /\ b.auth = a.auth /\ b.active = a.active
      /\ b.target = target /\ b.demo = a.demo /\ b.overlay = a.overlay /\ b.data = a.data /\ b.board = a.board
  <2>1. a \in PageSet /\ a.mode \in Nat
    BY <1>4 DEF Sane, Typed, PageSet
  <2> DEFINE m == a.mode + 1
  <2>2. m \in Nat
    BY <2>1
  <2>3. b = [a EXCEPT !.mode = m, !.target = target, !.refresh = FALSE, !.poll = FALSE, !.events = "off"]
    BY <1>7
  <2> HIDE DEF m
  <2>4. target \in {"", "demo", "formal"}
    BY <1>2
  <2> QED
    BY <2>1, <2>2, <2>3, <2>4 DEF PageSet
<1>9. \A r \in a.reqs : TicketFits(b, r.kind, r.chain)
  BY <1>4, <1>5 DEF SameChains, NoTicket, Ticket, Ends, TicketFits
<1>10. /\ \A r \in a.reqs : r.kind \in {"mutation", "logout"} => ~b.demo /\ b.target = ""
       /\ b.demo \/ b.target # "" => \A r \in a.reqs : r.kind = "board" => r.aborted
       /\ lk => b.overlay
       /\ ~ad => /\ ~b.overlay /\ b.data.kind = "formal" => b.data.user = o
                 /\ b.overlay \/ ~a.overlay \/ \A r \in a.reqs : r.kind = "login" => r.answer # "none"
  BY <1>4, <1>6, <1>8 DEF Sane, Accounted
<1>11. ~df => /\ b.demo => b.data.kind = "demo"
              /\ b.data.kind = "demo" => (b.demo \/ b.target = "formal") /\ (b.board => br)
              /\ ~b.demo /\ b.target = "" /\ b.data.kind # "none" => b.refresh
  <2>1. ~df => /\ a.demo => a.data.kind = "demo"
               /\ a.data.kind = "demo" => (a.demo \/ a.target = "formal") /\ (a.board => br)
    BY <1>4 DEF Sane, Switched
  <2>2. a.target = ""
    BY <1>1, <1>4 DEF SameView
  <2> QED
    BY <1>2, <1>8, <2>1, <2>2
<1>12. Sane(b, s, o, lk, ad, df, br) /\ SameChains(a, b)
  BY <1>4, <1>8, <1>9, <1>10, <1>11, Reshown
<1>13. MaySend(b, kind, "", ad)
  <2>1. NoTicket(b)
    BY <1>4, <1>5, <1>12 DEF SameChains
  <2> QED
    BY <1>2, <1>8, <2>1 DEF MaySend, Waits, Ends, TicketFits
<1>14. /\ Sane(Send(b, kind, ""), s, o, lk, ad, df, br)
       /\ NoTicket(Send(b, kind, "")) <=> (NoTicket(b) /\ ~Ends(kind, ""))
  BY <1>12, <1>13, SendKeeps
<1> QED
  BY <1>2, <1>14 DEF Switching, Ends, b

\* The answer to a request, on its way back.
WithAnswer(r, a, u) == [r EXCEPT !.answer = a, !.user = u]

LEMMA AnswerFits ==
  ASSUME NEW p, Typed(p), NEW r \in p.reqs, ~r.aborted, r.answer = "none",
         NEW a \in {"ok", "failed", "401"}, NEW u \in People, a = "401" => r.kind \notin {"login", "me", "logout"}
  PROVE  /\ WithAnswer(r, a, u) \in RequestSet /\ Fits(WithAnswer(r, a, u))
         /\ WithAnswer(r, a, u).id = r.id /\ WithAnswer(r, a, u).kind = r.kind /\ WithAnswer(r, a, u).chain = r.chain
         /\ WithAnswer(r, a, u).auth = r.auth /\ WithAnswer(r, a, u).active = r.active
         /\ ~WithAnswer(r, a, u).aborted
         /\ WithAnswer(r, a, u).answer = a /\ WithAnswer(r, a, u).user = u
         /\ Ticket(WithAnswer(r, a, u)) <=> Ticket(r)
         /\ Uncovers(WithAnswer(r, a, u)) <=> (r.kind = "reports" \/ (r.kind \in {"bootstrap", "demo"} /\ a = "ok"))
         /\ Asks(WithAnswer(r, a, u)) <=> (r.kind = "me" \/ (r.kind = "login" /\ a = "ok"))
         /\ r.auth <= p.auth /\ r.id <= p.sent
<1>1. r \in RequestSet /\ Fits(r) /\ r.auth <= p.auth /\ r.id <= p.sent
  BY DEF Typed, PageSet
<1>2. /\ WithAnswer(r, a, u) \in RequestSet
      /\ WithAnswer(r, a, u).id = r.id /\ WithAnswer(r, a, u).kind = r.kind /\ WithAnswer(r, a, u).chain = r.chain
      /\ WithAnswer(r, a, u).auth = r.auth /\ WithAnswer(r, a, u).active = r.active
      /\ ~WithAnswer(r, a, u).aborted
      /\ WithAnswer(r, a, u).answer = a /\ WithAnswer(r, a, u).user = u
  BY <1>1 DEF WithAnswer, RequestSet
<1>3. Fits(WithAnswer(r, a, u))
  BY <1>1, <1>2 DEF Fits
<1>4. Ticket(WithAnswer(r, a, u)) <=> Ticket(r)
  BY <1>2 DEF Ticket
<1> QED
  BY <1>1, <1>2, <1>3, <1>4 DEF Uncovers, Asks

\* The page after the answer has been given.
LEMMA AnswerStays ==
  ASSUME NEW p, Typed(p), NEW r \in p.reqs, NEW n \in RequestSet
  PROVE  LET q == [p EXCEPT !.reqs = (@ \ {r}) \cup {n}]
         IN /\ q \in PageSet /\ SameView(p, q) /\ q.refresh = p.refresh /\ q.sent = p.sent
            /\ q.reqs = (p.reqs \ {r}) \cup {n}
<1>1. p \in PageSet /\ (p.reqs \ {r}) \cup {n} \in SUBSET RequestSet
  BY DEF Typed, PageSet
<1> QED
  BY <1>1 DEF PageSet, SameView

\* Any answer but a login's, given by the session the server has: data for its account, 401 without one.
LEMMA ReplyKeeps ==
  ASSUME NEW p, NEW s, NEW o, NEW lk, NEW ad, NEW df, NEW br, Sane(p, s, o, lk, ad, df, br), Switching(p),
         NEW r \in p.reqs, ~r.aborted, r.answer = "none",
         NEW a \in {"ok", "failed", "401"}, NEW u \in People,
         r.kind = "login" => a = "failed",
         r.kind = "logout" => a # "401",
         a = "401" => s = Nobody /\ r.kind # "me",
         r.kind = "reports" => u = r.user,
         r.kind \in {"bootstrap", "demo", "me"} /\ a = "ok" => u = s,
         a = "ok" /\ s = Nobody => r.kind \in {"me", "logout"}
  PROVE  LET q == [p EXCEPT !.reqs = (@ \ {r}) \cup {WithAnswer(r, a, u)}]
         IN Sane(q, s, o, lk, ad, df, br) /\ Switching(q)
<1> DEFINE n == WithAnswer(r, a, u)
           q == [p EXCEPT !.reqs = (@ \ {r}) \cup {n}]
<1>0. Typed(p) /\ Chained(p) /\ Accounted(p, s, o, lk, ad) /\ Switched(p, df, br)
  BY DEF Sane
<1>1. /\ n \in RequestSet /\ Fits(n) /\ n.id = r.id /\ n.kind = r.kind /\ n.chain = r.chain /\ n.auth = r.auth
      /\ n.active = r.active /\ ~n.aborted /\ n.answer = a /\ n.user = u
      /\ Ticket(n) <=> Ticket(r)
      /\ Uncovers(n) <=> (r.kind = "reports" \/ (r.kind \in {"bootstrap", "demo"} /\ a = "ok"))
      /\ Asks(n) <=> (r.kind = "me" \/ (r.kind = "login" /\ a = "ok"))
      /\ r.auth <= p.auth /\ r.id <= p.sent
  <2>1. a = "401" => r.kind \notin {"login", "me", "logout"}
    OBVIOUS
  <2> QED
    BY <1>0, <2>1, AnswerFits
<1>2. p.active \in BOOLEAN /\ r.active \in BOOLEAN /\ p.auth \in Nat /\ r.auth \in Nat
  BY <1>0 DEF Typed, PageSet, RequestSet
<1> HIDE DEF n
<1>3. TicketFits(p, n.kind, n.chain)
  BY <1>0, <1>1 DEF Chained
<1>4. n.auth = p.auth /\ ~n.active => ~p.active
  BY <1>0, <1>1 DEF Accounted
<1>5. n.kind = "me" /\ n.answer = "ok" /\ n.user = Nobody => s = Nobody
  BY <1>1
<1>6. lk /\ Uncovers(n) => n.auth < p.auth
  <2>1. CASE r.kind = "reports"
    BY <1>0, <1>1, <2>1 DEF Accounted, Uncovers
  <2>2. CASE r.kind # "reports"
    <3>1. lk => s = Nobody
      BY <1>0 DEF Accounted
    <3> QED
      BY <1>1, <2>2, <3>1
  <2> QED
    BY <2>1, <2>2
<1>7. ASSUME ~ad
      PROVE  /\ Uncovers(n) /\ n.kind # "demo" /\ n.auth = p.auth /\ n.active = p.active => n.user = o
             /\ n.kind \in {"login", "me"} => ~p.active
             /\ n.kind = "login" /\ n.answer = "none" => p.overlay
             /\ Asks(r) => Asks(n)
             /\ ~Asking(p) => /\ Uncovers(n) /\ n.auth = p.auth => n.active
                              /\ ~n.aborted /\ n.answer = "401" /\ n.auth = p.auth => s = Nobody
  <2>1. Uncovers(n) /\ n.kind # "demo" /\ n.auth = p.auth /\ n.active = p.active => n.user = o
    <3>1. CASE r.kind = "reports"
      BY <1>0, <1>1, <1>7, <3>1 DEF Accounted, Uncovers
    <3>2. CASE r.kind # "reports"
      <4>1. s \in {Nobody, o}
        BY <1>0 DEF Accounted
      <4> QED
        BY <1>1, <3>2, <4>1
    <3> QED
      BY <3>1, <3>2
  <2>2. n.kind \in {"login", "me"} => ~p.active
    BY <1>0, <1>1, <1>7 DEF Accounted
  <2>3. Asks(r) => Asks(n)
    BY <1>1 DEF Asks
  <2>4. ~Asking(p) => (Uncovers(n) /\ n.auth = p.auth => n.active)
    <3>1. CASE r.kind = "reports"
      BY <1>0, <1>1, <1>7, <3>1 DEF Accounted, Uncovers
    <3>2. CASE r.kind # "reports"
      <4>1. ~Asking(p) /\ ~p.active => s = Nobody
        BY <1>0, <1>7 DEF Accounted
      <4> QED
        BY <1>1, <1>2, <1>4, <3>2, <4>1
    <3> QED
      BY <3>1, <3>2
  <2> QED
    BY <1>1, <2>1, <2>2, <2>3, <2>4
<1>8. MayReplace(p, r, n, s, o, lk, ad)
  BY <1>1, <1>3, <1>4, <1>5, <1>6, <1>7 DEF MayReplace
<1>9. q \in PageSet /\ SameView(p, q) /\ q.refresh = p.refresh /\ q.sent = p.sent /\ q.reqs = (p.reqs \ {r}) \cup {n}
  BY <1>0, <1>1, AnswerStays
<1> HIDE DEF q
<1>10. q.sent >= p.sent /\ n.id <= q.sent
  <2>1. p.sent \in Nat
    BY <1>0 DEF Typed, PageSet
  <2> QED
    BY <1>1, <1>9, <2>1
<1>11. Sane(q, s, o, lk, ad, df, br) /\ SameChains(p, q)
  BY <1>8, <1>9, <1>10, Replaced
<1>12. Switching(q)
  BY <1>9, <1>11 DEF Switching, SameChains, SameView
<1> QED
  BY <1>11, <1>12 DEF q, n

\* A login at the server: from now on the session is another account's, and the page is still covered.
LEMMA LoginServed ==
  ASSUME NEW p, NEW s, NEW o, NEW lk, NEW ad, NEW df, NEW br, Sane(p, s, o, lk, ad, df, br), Switching(p),
         NEW r \in p.reqs, ~r.aborted, r.answer = "none", r.kind = "login", NEW u \in People
  PROVE  LET q == [p EXCEPT !.reqs = (@ \ {r}) \cup {WithAnswer(r, "ok", u)}]
         IN Sane(q, u, u, FALSE, ad, df, br) /\ Switching(q)
<1> DEFINE n == WithAnswer(r, "ok", u)
           q == [p EXCEPT !.reqs = (@ \ {r}) \cup {n}]
<1>0. Typed(p) /\ Chained(p) /\ Accounted(p, s, o, lk, ad) /\ Switched(p, df, br)
  BY DEF Sane
<1>1. /\ n \in RequestSet /\ Fits(n) /\ n.id = r.id /\ n.kind = r.kind /\ n.chain = r.chain /\ n.auth = r.auth
      /\ n.active = r.active /\ ~n.aborted /\ n.answer = "ok" /\ n.user = u
      /\ Ticket(n) <=> Ticket(r)
      /\ ~Uncovers(n) /\ Asks(n) /\ r.auth <= p.auth /\ r.id <= p.sent
  BY <1>0, AnswerFits
<1>2. \A t \in p.reqs : t.kind \in {"login", "me"} => t = r
  <2>1. \A t \in p.reqs : t.kind \in {"login", "me"} => t.chain = "login"
    BY <1>0 DEF Typed, Fits, Waits
  <2> QED
    BY <1>0, <2>1 DEF Chained
<1> HIDE DEF n
<1>3. Accounted(p, u, u, FALSE, TRUE)
  BY <1>0, <1>2 DEF Accounted
<1>4. Sane(p, u, u, FALSE, TRUE, df, br)
  BY <1>0, <1>3 DEF Sane
<1>5. MayReplace(p, r, n, u, u, FALSE, TRUE)
  <2>1. TicketFits(p, n.kind, n.chain)
    BY <1>0, <1>1 DEF Chained
  <2>2. n.auth = p.auth /\ ~n.active => ~p.active
    BY <1>0, <1>1 DEF Accounted
  <2> QED
    BY <1>1, <2>1, <2>2 DEF MayReplace
<1>6. q \in PageSet /\ SameView(p, q) /\ q.refresh = p.refresh /\ q.sent = p.sent /\ q.reqs = (p.reqs \ {r}) \cup {n}
  BY <1>0, <1>1, AnswerStays
<1> HIDE DEF q
<1>7. q.sent >= p.sent /\ n.id <= q.sent
  <2>1. p.sent \in Nat
    BY <1>0 DEF Typed, PageSet
  <2> QED
    BY <1>1, <1>6, <2>1
<1>8. Sane(q, u, u, FALSE, TRUE, df, br) /\ SameChains(p, q)
  <2>1. q \in PageSet /\ SameView(p, q) /\ p.refresh = q.refresh /\ q.reqs = (p.reqs \ {r}) \cup {n}
    BY <1>6
  <2>2. Sane(q, u, u, FALSE, TRUE, df, br)
    BY <1>4, <1>5, <1>7, <2>1, Replaced
  <2>3. SameChains(p, q)
    BY ZenonT(30), <1>4, <1>5, <1>7, <2>1, Replaced
  <2> QED
    BY <2>2, <2>3
<1>9. Asking(q)
  BY <1>1, <1>6 DEF Asking
<1>10. ASSUME ~ad
       PROVE  /\ \A t \in q.reqs : Uncovers(t) => ~(t.auth = q.auth /\ t.active = q.active)
              /\ q.overlay /\ ~q.active
  <2>1. p.overlay /\ ~p.active
    BY <1>0, <1>10 DEF Accounted
  <2>2. ~Asking(p)
    BY <1>2 DEF Asking, Asks
  <2>3. \A t \in p.reqs : Uncovers(t) /\ t.auth = p.auth => t.active
    BY <1>0, <1>10, <2>2 DEF Accounted
  <2> QED
    BY <1>1, <1>6, <2>1, <2>3 DEF SameView
<1>11. Accounted(q, u, u, FALSE, ad)
  BY <1>8, <1>9, <1>10 DEF Sane, Accounted
<1>12. Switching(q)
  BY <1>6, <1>8 DEF Switching, SameChains, SameView
<1> QED
  BY <1>8, <1>11, <1>12 DEF Sane, q, n

PageInvOn == Sane(page, session, owner, locked, adrift, demoFailed, byReset) /\ Switching(page)

\* The server answers.
LEMMA ServeKeeps ==
  ASSUME PageInvOn, NEW r \in page.reqs, Serve(r)
  PROVE  PageInvOn'
<1>0. Sane(page, session, owner, locked, adrift, demoFailed, byReset) /\ Switching(page)
  BY DEF PageInvOn
<1>2. session \in People /\ r.user \in People /\ Nobody \in People
  BY <1>0 DEF Sane, Typed, PageSet, RequestSet, Accounted, People
<1>3. r.answer = "none" /\ ~r.aborted /\ UNCHANGED <<adrift, demoFailed, byReset>>
  BY DEF Serve
<1>4. CASE r.kind = "login" /\ session' = r.user /\ owner' = r.user /\ locked' = FALSE
           /\ page' = [page EXCEPT !.reqs = (@ \ {r}) \cup {WithAnswer(r, "ok", r.user)}]
  <2> DEFINE q == [page EXCEPT !.reqs = (@ \ {r}) \cup {WithAnswer(r, "ok", r.user)}]
  <2>1. Sane(q, r.user, r.user, FALSE, adrift, demoFailed, byReset) /\ Switching(q)
    BY <1>0, <1>2, <1>3, <1>4, LoginServed
  <2> QED
    BY <1>3, <1>4, <2>1 DEF PageInvOn
<1>5. CASE r.kind = "logout" /\ session' = Nobody /\ UNCHANGED <<owner, locked>>
           /\ page' = [page EXCEPT !.reqs = (@ \ {r}) \cup {WithAnswer(r, "ok", Nobody)}]
  <2> DEFINE q == [page EXCEPT !.reqs = (@ \ {r}) \cup {WithAnswer(r, "ok", Nobody)}]
  <2>1. Sane(page, Nobody, owner, locked, adrift, demoFailed, byReset)
    BY <1>0, SessionEnds
  <2>2. Sane(q, Nobody, owner, locked, adrift, demoFailed, byReset) /\ Switching(q)
    BY <1>0, <1>2, <1>3, <1>5, <2>1, ReplyKeeps
  <2> QED
    BY <1>3, <1>5, <2>2 DEF PageInvOn
<1>6. CASE UNCHANGED <<session, owner, locked>> /\ \E a \in {"ok", "failed", "401"}, u \in People :
             /\ page' = [page EXCEPT !.reqs = (@ \ {r}) \cup {WithAnswer(r, a, u)}]
             /\ r.kind = "login" => a = "failed"
             /\ r.kind = "logout" => a # "401"
             /\ a = "401" => session = Nobody /\ r.kind # "me"
             /\ r.kind = "reports" => u = r.user
             /\ r.kind \in {"bootstrap", "demo", "me"} /\ a = "ok" => u = session
             /\ a = "ok" /\ session = Nobody => r.kind \in {"me", "logout"}
  <2>1. PICK a \in {"ok", "failed", "401"}, u \in People :
             /\ page' = [page EXCEPT !.reqs = (@ \ {r}) \cup {WithAnswer(r, a, u)}]
             /\ r.kind = "login" => a = "failed"
             /\ r.kind = "logout" => a # "401"
             /\ a = "401" => session = Nobody /\ r.kind # "me"
             /\ r.kind = "reports" => u = r.user
             /\ r.kind \in {"bootstrap", "demo", "me"} /\ a = "ok" => u = session
             /\ a = "ok" /\ session = Nobody => r.kind \in {"me", "logout"}
    BY <1>6
  <2> DEFINE q == [page EXCEPT !.reqs = (@ \ {r}) \cup {WithAnswer(r, a, u)}]
  <2>2. Sane(q, session, owner, locked, adrift, demoFailed, byReset) /\ Switching(q)
    BY <1>0, <1>3, <2>1, ReplyKeeps
  <2> QED
    BY <1>3, <1>6, <2>1, <2>2 DEF PageInvOn
<1>7. \/ /\ r.kind = "login" /\ session' = r.user /\ owner' = r.user /\ locked' = FALSE
         /\ page' = [page EXCEPT !.reqs = (@ \ {r}) \cup {WithAnswer(r, "ok", r.user)}]
      \/ /\ r.kind = "logout" /\ session' = Nobody /\ UNCHANGED <<owner, locked>>
         /\ page' = [page EXCEPT !.reqs = (@ \ {r}) \cup {WithAnswer(r, "ok", Nobody)}]
      \/ /\ r.kind \notin {"login", "logout"} /\ UNCHANGED <<session, owner, locked>>
         /\ page' = [page EXCEPT !.reqs = (@ \ {r}) \cup
                       {WithAnswer(r, IF session = Nobody /\ r.kind # "me" THEN "401" ELSE "ok",
                                   IF r.kind = "reports" THEN r.user ELSE session)}]
      \/ /\ UNCHANGED <<session, owner, locked>>
         /\ page' = [page EXCEPT !.reqs = (@ \ {r}) \cup {WithAnswer(r, "failed", r.user)}]
  BY DEF Serve, Answered, WithAnswer
<1>8. CASE /\ r.kind \notin {"login", "logout"} /\ UNCHANGED <<session, owner, locked>>
           /\ page' = [page EXCEPT !.reqs = (@ \ {r}) \cup
                         {WithAnswer(r, IF session = Nobody /\ r.kind # "me" THEN "401" ELSE "ok",
                                     IF r.kind = "reports" THEN r.user ELSE session)}]
  <2> DEFINE a == IF session = Nobody /\ r.kind # "me" THEN "401" ELSE "ok"
             u == IF r.kind = "reports" THEN r.user ELSE session
  <2>1. /\ a \in {"ok", "failed", "401"} /\ u \in People
        /\ page' = [page EXCEPT !.reqs = (@ \ {r}) \cup {WithAnswer(r, a, u)}]
        /\ r.kind = "login" => a = "failed"
        /\ r.kind = "logout" => a # "401"
        /\ a = "401" => session = Nobody /\ r.kind # "me"
        /\ r.kind = "reports" => u = r.user
        /\ r.kind \in {"bootstrap", "demo", "me"} /\ a = "ok" => u = session
        /\ a = "ok" /\ session = Nobody => r.kind \in {"me", "logout"}
    BY <1>2, <1>8
  <2> HIDE DEF a, u
  <2> QED
    BY <1>6, <1>8, <2>1
<1>9. CASE /\ UNCHANGED <<session, owner, locked>>
           /\ page' = [page EXCEPT !.reqs = (@ \ {r}) \cup {WithAnswer(r, "failed", r.user)}]
  BY <1>2, <1>6, <1>9
<1> QED
  BY <1>4, <1>5, <1>7, <1>8, <1>9

\* The page when an answer has arrived: a 401 has ended its session already.
Arrived(p, r) == IF r.answer = "401" THEN Unauthorized(Without(p, r), r) ELSE Without(p, r)

\* What waits for a request may go on, and a mode switch that has not ended waits for another.
MayGoOn(p, chain) == IF chain \in {"exit settings", "exit bootstrap"} THEN NoTicket(p) /\ p.target = "formal" /\ ~p.demo ELSE Switching(p)

LEMMA StayReady ==
  ASSUME NEW p, NEW q, NEW chain, MayGoOn(p, chain), q.target = p.target, q.demo = p.demo, NoTicket(q) <=> NoTicket(p)
  PROVE  MayGoOn(q, chain)
BY DEF MayGoOn, Switching

LEMMA ReadyContinues ==
  ASSUME NEW p, NEW s, NEW o, NEW lk, NEW ad, NEW df, NEW br, Sane(p, s, o, lk, ad, df, br),
         NEW chain \in {"", "login", "start", "exit settings", "exit bootstrap"}, MayGoOn(p, chain)
  PROVE  Sane(Continue(p, chain), s, o, lk, ad, df, br) /\ Switching(Continue(p, chain))
<1>1. /\ chain \in {"exit settings", "exit bootstrap"} => NoTicket(p) /\ p.target = "formal" /\ ~p.demo
      /\ chain \notin {"exit settings", "exit bootstrap"} => Switching(p)
  BY DEF MayGoOn
<1> QED
  BY <1>1, ContinueKeeps

LEMMA WithoutReady ==
  ASSUME NEW p, NEW s, NEW o, NEW lk, NEW ad, NEW df, NEW br, Sane(p, s, o, lk, ad, df, br), Switching(p),
         NEW r \in p.reqs, r.kind \notin {"load", "reset", "exit"}, NEW ad1, ad => ad1, Asks(r) => ad1
  PROVE  /\ Sane(Without(p, r), s, o, lk, ad1, df, br) /\ SameView(p, Without(p, r))
         /\ Without(p, r).refresh = p.refresh /\ Without(p, r).reqs = p.reqs \ {r} /\ Without(p, r).sent = p.sent
         /\ MayGoOn(Without(p, r), r.chain)
<1>1. /\ Sane(Without(p, r), s, o, lk, ad1, df, br)
      /\ SameView(p, Without(p, r)) /\ Without(p, r).refresh = p.refresh /\ Without(p, r).events = p.events
      /\ Without(p, r).sent = p.sent /\ Without(p, r).reqs = p.reqs \ {r}
      /\ r.chain = "login" => NoLogin(Without(p, r))
      /\ Ticket(r) => NoTicket(Without(p, r))
      /\ ~Ticket(r) => (NoTicket(Without(p, r)) <=> NoTicket(p))
  BY Removed
<1>2. MayGoOn(Without(p, r), r.chain)
  <2>1. TicketFits(p, r.kind, r.chain)
    BY DEF Sane, Chained
  <2> QED
    BY <1>1, <2>1 DEF MayGoOn, Switching, SameView, TicketFits, Ticket, Ends
<1> QED
  BY <1>1, <1>2

\* An answer has arrived that does not say who logged in.
LEMMA TakenKeeps ==
  ASSUME NEW p, NEW s, NEW o, NEW lk, NEW ad, NEW df, NEW br, Sane(p, s, o, lk, ad, df, br),
         NEW r \in p.reqs, ~r.aborted, ~Asks(r)
  PROVE  LET q == Arrived(p, r)
         IN /\ Sane(q, s, o, lk, ad, df, br)
            /\ q.reqs = p.reqs \ {r} /\ q.sent = p.sent /\ q.auth = p.auth /\ (q.active = p.active \/ ~q.active)
            /\ q.mode = p.mode /\ q.demo = p.demo /\ q.target = p.target /\ q.data = p.data /\ q.board = p.board
            /\ q.refresh = p.refresh /\ (p.overlay => q.overlay)
            /\ Ticket(r) => NoTicket(q)
            /\ ~Ticket(r) => (NoTicket(q) <=> NoTicket(p))
<1> DEFINE w == Without(p, r)
           d == ShowAuth([w EXCEPT !.active = FALSE])
<1>1. /\ Sane(w, s, o, lk, ad, df, br)
      /\ SameView(p, w) /\ w.refresh = p.refresh /\ w.events = p.events
      /\ w.sent = p.sent /\ w.reqs = p.reqs \ {r}
      /\ r.chain = "login" => NoLogin(w)
      /\ Ticket(r) => NoTicket(w)
      /\ ~Ticket(r) => (NoTicket(w) <=> NoTicket(p))
  BY Removed
<1> HIDE DEF w
<1>2. CASE Arrived(p, r) = w
  BY <1>1, <1>2 DEF SameView
<1>3. CASE Arrived(p, r) # w
  <2>1. r.answer = "401" /\ r.auth = w.auth /\ Arrived(p, r) = d
    BY <1>3 DEF Arrived, Unauthorized, w
  <2>2. /\ d \in PageSet /\ d.reqs = w.reqs /\ d.sent = w.sent /\ d.auth = w.auth /\ ~d.active /\ d.overlay
        /\ d.demo = w.demo /\ d.target = w.target /\ d.data = w.data /\ d.board = w.board /\ d.refresh = w.refresh
        /\ d.mode = w.mode
    BY <1>1 DEF Sane, Typed, PageSet, ShowAuth
  <2>3. Asking(p) => Asking(w)
    BY <1>1 DEF Asking
  <2>4. ~ad => Asking(w) \/ s = Nobody
    BY <1>1, <2>1, <2>3 DEF Sane, Accounted, SameView
  <2> HIDE DEF d
  <2>5. Sane(d, s, o, lk, ad, df, br) /\ SameChains(w, d)
    BY <1>1, <2>2, <2>4, Deactivated
  <2> QED
    BY <1>1, <2>1, <2>2, <2>5 DEF SameView, SameChains
<1> QED
  BY <1>2, <1>3

\* The same, with what waits for the answer.
LEMMA TakenReady ==
  ASSUME NEW p, NEW s, NEW o, NEW lk, NEW ad, NEW df, NEW br, Sane(p, s, o, lk, ad, df, br), Switching(p),
         NEW r \in p.reqs, ~r.aborted, ~Asks(r), r.kind \notin {"load", "reset", "exit"}
  PROVE  MayGoOn(Arrived(p, r), r.chain)
<1>1. LET q == Arrived(p, r)
         IN /\ Sane(q, s, o, lk, ad, df, br)
            /\ q.reqs = p.reqs \ {r} /\ q.sent = p.sent /\ q.auth = p.auth /\ (q.active = p.active \/ ~q.active)
            /\ q.mode = p.mode /\ q.demo = p.demo /\ q.target = p.target /\ q.data = p.data /\ q.board = p.board
            /\ q.refresh = p.refresh /\ (p.overlay => q.overlay)
            /\ Ticket(r) => NoTicket(q)
            /\ ~Ticket(r) => (NoTicket(q) <=> NoTicket(p))
  BY TakenKeeps
<1>2. TicketFits(p, r.kind, r.chain)
  BY DEF Sane, Chained
<1> QED
  BY <1>1, <1>2 DEF MayGoOn, Switching, TicketFits, Ticket, Ends

\* What Reshown asks of the requests, when neither the mode nor its target changes.
LEMMA SameMode ==
  ASSUME NEW p, NEW s, NEW o, NEW lk, NEW ad, NEW df, NEW br, Sane(p, s, o, lk, ad, df, br),
         NEW q, q.demo = p.demo, q.target = p.target
  PROVE  /\ \A r \in p.reqs : TicketFits(q, r.kind, r.chain)
         /\ \A r \in p.reqs : r.kind \in {"mutation", "logout"} => ~q.demo /\ q.target = ""
         /\ q.demo \/ q.target # "" => \A r \in p.reqs : r.kind = "board" => r.aborted
BY DEF Sane, Chained, Switched, TicketFits

\* loadBootstrap after both reads: the account's data are shown.
LEMMA BootstrappedKeeps ==
  ASSUME NEW p, NEW s, NEW o, NEW lk, NEW ad, NEW df, NEW br, Sane(p, s, o, lk, ad, df, br), Switching(p),
         NEW r \in p.reqs, r.kind = "reports", ~r.aborted
  PROVE  /\ Sane(Bootstrapped(Arrived(p, r), r), s, o, lk, ad, df, br)
         /\ MayGoOn(Bootstrapped(Arrived(p, r), r), r.chain)
<1> DEFINE q == Arrived(p, r)
           f == [q EXCEPT !.data = [kind |-> "formal", user |-> r.user], !.overlay = FALSE]
           b == LoadBoard(f)
           e == [b EXCEPT !.poll = TRUE, !.refresh = TRUE]
<1>0. r \in RequestSet /\ p.active \in BOOLEAN /\ r.active \in BOOLEAN /\ ~Asks(r)
  BY DEF Sane, Typed, PageSet, RequestSet, Asks
<1>1. /\ Sane(q, s, o, lk, ad, df, br)
      /\ q.reqs = p.reqs \ {r} /\ q.sent = p.sent /\ q.auth = p.auth /\ (q.active = p.active \/ ~q.active)
      /\ q.mode = p.mode /\ q.demo = p.demo /\ q.target = p.target /\ q.data = p.data /\ q.board = p.board
      /\ q.refresh = p.refresh /\ (p.overlay => q.overlay)
  BY <1>0, TakenKeeps
<1>2. MayGoOn(q, r.chain)
  BY <1>0, TakenReady
<1> HIDE DEF q
<1>3. CASE ~Current(q, r, FALSE)
  BY <1>1, <1>2, <1>3 DEF Bootstrapped, q
<1>4. CASE Current(q, r, FALSE)
  <2>1. Bootstrapped(q, r) = e
    BY <1>4 DEF Bootstrapped
  <2>2. r.auth = p.auth /\ (r.active = p.active \/ ~r.active) /\ ~q.demo
    BY <1>0, <1>1, <1>4 DEF Current, CurrentMode, Sane, Typed, PageSet
  <2>3. Uncovers(r)
    BY DEF Uncovers
  <2>4. ~lk /\ (~ad => r.user = o /\ \A t \in p.reqs : t.kind = "login" => t.answer # "none")
    BY <2>2, <2>3, Uncovered
  <2>5. /\ f \in PageSet /\ f.reqs = q.reqs /\ f.sent = q.sent /\ f.auth = q.auth /\ f.active = q.active
        /\ f.demo = q.demo /\ f.target = q.target /\ f.data.kind = "formal" /\ f.data.user = r.user
    BY <1>0, <1>1 DEF Sane, Typed, PageSet, RequestSet
  <2> HIDE DEF f
  <2>6. /\ \A t \in q.reqs : TicketFits(f, t.kind, t.chain)
        /\ \A t \in q.reqs : t.kind \in {"mutation", "logout"} => ~f.demo /\ f.target = ""
        /\ f.demo \/ f.target # "" => \A t \in q.reqs : t.kind = "board" => t.aborted
    BY <1>1, <2>5, SameMode
  <2>7. /\ lk => f.overlay
        /\ ~ad => /\ ~f.overlay /\ f.data.kind = "formal" => f.data.user = o
                  /\ f.overlay \/ ~q.overlay \/ \A t \in q.reqs : t.kind = "login" => t.answer # "none"
        /\ ~TRUE => /\ f.demo => f.data.kind = "demo"
                    /\ f.data.kind = "demo" => (f.demo \/ f.target = "formal") /\ (f.board => br)
                    /\ ~f.demo /\ f.target = "" /\ f.data.kind # "none" => f.refresh
    BY <1>1, <2>4, <2>5
  <2>8. Sane(f, s, o, lk, ad, TRUE, br) /\ SameChains(q, f)
    BY <1>1, <2>5, <2>6, <2>7, Reshown
  <2>9. Sane(b, s, o, lk, ad, TRUE, br) /\ SameView(f, b) /\ SameChains(f, b)
    BY <2>8, LoadBoardKeeps
  <2> HIDE DEF b
  <2>10. e \in PageSet /\ SameView(b, e) /\ e.reqs = b.reqs /\ e.sent = b.sent /\ e.refresh
    BY <2>9 DEF Sane, Typed, PageSet, SameView
  <2> HIDE DEF e
  <2>11. Sane(e, s, o, lk, ad, TRUE, br) /\ SameChains(b, e)
    BY <2>9, <2>10, Retuned
  <2>12. ~e.demo /\ e.data.kind # "demo" /\ e.target = q.target /\ e.demo = q.demo /\ (NoTicket(e) <=> NoTicket(q))
    BY <2>2, <2>5, <2>8, <2>9, <2>10, <2>11 DEF SameView, SameChains
  <2>13. Sane(e, s, o, lk, ad, df, br)
    BY <2>10, <2>11, <2>12, Refreshed
  <2>14. MayGoOn(e, r.chain)
    BY <1>2, <2>12, StayReady
  <2> QED
    BY <2>1, <2>13, <2>14 DEF q
<1> QED
  BY <1>3, <1>4

\* loadDemo after its read.
LEMMA DemoKeeps ==
  ASSUME NEW p, NEW s, NEW o, NEW lk, NEW ad, NEW df, NEW br, Sane(p, s, o, lk, ad, df, br), Switching(p),
         NEW r \in p.reqs, r.kind = "demo", ~r.aborted, r.answer = "ok",
         LET w == Without(p, r) IN Current(w, r, TRUE)
  PROVE  LET d == [Without(p, r) EXCEPT !.data = [kind |-> "demo", user |-> Nobody], !.overlay = FALSE]
         IN Sane(d, s, o, lk, ad, df, br) /\ MayGoOn(d, r.chain)
<1> DEFINE w == Without(p, r)
           d == [w EXCEPT !.data = [kind |-> "demo", user |-> Nobody], !.overlay = FALSE]
<1>0. ~Asks(r) /\ r.kind \notin {"load", "reset", "exit"} /\ Uncovers(r) /\ Nobody \in People
  BY DEF Asks, Uncovers, People
<1>1. /\ Sane(w, s, o, lk, ad, df, br) /\ SameView(p, w)
      /\ w.refresh = p.refresh /\ w.reqs = p.reqs \ {r} /\ w.sent = p.sent
      /\ MayGoOn(w, r.chain)
  BY <1>0, WithoutReady
<1> HIDE DEF w
<1>2. r.auth = p.auth /\ r.active = p.active /\ w.demo
  BY <1>1 DEF Current, CurrentMode, SameView, w
<1>3. ~lk /\ (~ad => \A t \in p.reqs : t.kind = "login" => t.answer # "none")
  BY <1>0, <1>2, Uncovered
<1>4. /\ d \in PageSet /\ d.reqs = w.reqs /\ d.sent = w.sent /\ d.auth = w.auth /\ d.active = w.active
      /\ d.demo = w.demo /\ d.target = w.target /\ d.data.kind = "demo" /\ d.board = w.board
  BY <1>0, <1>1 DEF Sane, Typed, PageSet
<1> HIDE DEF d
<1>5. /\ \A t \in w.reqs : TicketFits(d, t.kind, t.chain)
      /\ \A t \in w.reqs : t.kind \in {"mutation", "logout"} => ~d.demo /\ d.target = ""
      /\ d.demo \/ d.target # "" => \A t \in w.reqs : t.kind = "board" => t.aborted
  BY <1>1, <1>4, SameMode
<1>6. ~df /\ w.board => br
  BY <1>1, <1>2 DEF Sane, Switched
<1>7. /\ lk => d.overlay
      /\ ~ad => /\ ~d.overlay /\ d.data.kind = "formal" => d.data.user = o
                /\ d.overlay \/ ~w.overlay \/ \A t \in w.reqs : t.kind = "login" => t.answer # "none"
      /\ ~df => /\ d.demo => d.data.kind = "demo"
                /\ d.data.kind = "demo" => (d.demo \/ d.target = "formal") /\ (d.board => br)
                /\ ~d.demo /\ d.target = "" /\ d.data.kind # "none" => d.refresh
  BY <1>1, <1>2, <1>3, <1>4, <1>6
<1>8. Sane(d, s, o, lk, ad, df, br) /\ SameChains(w, d)
  BY <1>1, <1>4, <1>5, <1>7, Reshown
<1>9. MayGoOn(d, r.chain)
  BY <1>1, <1>4, <1>8, StayReady DEF SameChains
<1> QED
  BY <1>8, <1>9 DEF d, w

\* The board has arrived.
LEMMA BoardKeeps ==
  ASSUME NEW p, NEW s, NEW o, NEW lk, NEW ad, NEW df, NEW br, Sane(p, s, o, lk, ad, df, br), Switching(p),
         NEW r \in p.reqs, r.kind = "board", ~r.aborted
  PROVE  LET d == [Without(p, r) EXCEPT !.board = TRUE] IN Sane(d, s, o, lk, ad, df, br) /\ Switching(d)
<1> DEFINE w == Without(p, r)
           d == [w EXCEPT !.board = TRUE]
<1>0. ~Asks(r) /\ r.kind \notin {"load", "reset", "exit"}
  BY DEF Asks
<1>1. /\ Sane(w, s, o, lk, ad, df, br) /\ SameView(p, w)
      /\ w.refresh = p.refresh /\ w.reqs = p.reqs \ {r} /\ w.sent = p.sent
      /\ MayGoOn(w, r.chain)
  BY <1>0, WithoutReady
<1> HIDE DEF w
<1>2. ~w.demo /\ w.target = ""
  BY <1>1 DEF Sane, Switched, SameView
<1>3. /\ d \in PageSet /\ d.reqs = w.reqs /\ d.sent = w.sent /\ d.auth = w.auth /\ d.active = w.active
      /\ d.demo = w.demo /\ d.target = w.target /\ d.data = w.data /\ d.overlay = w.overlay /\ d.refresh = w.refresh
  BY <1>1 DEF Sane, Typed, PageSet
<1> HIDE DEF d
<1>4. /\ \A t \in w.reqs : TicketFits(d, t.kind, t.chain)
      /\ \A t \in w.reqs : t.kind \in {"mutation", "logout"} => ~d.demo /\ d.target = ""
      /\ d.demo \/ d.target # "" => \A t \in w.reqs : t.kind = "board" => t.aborted
  BY <1>1, <1>3, SameMode
<1>5. ~df => w.data.kind # "demo" /\ (w.data.kind # "none" => w.refresh)
  BY <1>1, <1>2 DEF Sane, Switched
<1>6. /\ lk => d.overlay
      /\ ~ad => /\ ~d.overlay /\ d.data.kind = "formal" => d.data.user = o
                /\ d.overlay \/ ~w.overlay \/ \A t \in w.reqs : t.kind = "login" => t.answer # "none"
  BY <1>1, <1>3 DEF Sane, Accounted
<1>7. ~df => /\ d.demo => d.data.kind = "demo"
             /\ d.data.kind = "demo" => (d.demo \/ d.target = "formal") /\ (d.board => br)
             /\ ~d.demo /\ d.target = "" /\ d.data.kind # "none" => d.refresh
  BY <1>2, <1>3, <1>5
<1>8. Sane(d, s, o, lk, ad, df, br)
  BY <1>1, <1>3, <1>4, <1>6, <1>7, Reshown
<1> QED
  BY <1>2, <1>3, <1>8 DEF Switching, d, w

\* enterDemoMode and resetDemoMode after their request.
LEMMA EnteredKeeps ==
  ASSUME NEW p, NEW s, NEW o, NEW lk, NEW ad, NEW df, NEW br, Sane(p, s, o, lk, ad, df, br),
         NEW r \in p.reqs, r.kind = "load" \/ r.kind = "reset", NEW df1, NEW br1,
         df => df1, r.answer # "ok" => df1, r.kind = "reset" /\ br => br1, r.kind = "reset" /\ ~p.demo => br1
  PROVE  LET e == Entered(Arrived(p, r), r) IN Sane(e, s, o, lk, ad, df1, br1) /\ e.target = ""
<1> DEFINE q == Arrived(p, r)
           demo == [kind |-> "demo", user |-> Nobody]
<1>0. ~Asks(r) /\ ~r.aborted /\ Ticket(r) /\ p.target = "demo" /\ demo \in [kind : {"none", "formal", "demo"}, user : People]
  BY DEF Asks, Sane, Typed, Fits, Abortable, Ticket, Ends, Chained, TicketFits, People
<1>1. /\ Sane(q, s, o, lk, ad, df, br)
      /\ q.reqs = p.reqs \ {r} /\ q.sent = p.sent /\ q.auth = p.auth /\ (q.active = p.active \/ ~q.active)
      /\ q.mode = p.mode /\ q.demo = p.demo /\ q.target = p.target /\ q.data = p.data /\ q.board = p.board
      /\ q.refresh = p.refresh /\ (p.overlay => q.overlay)
      /\ NoTicket(q)
  BY <1>0, TakenKeeps
<1> HIDE DEF q, demo
<1>2. q \in PageSet
  BY <1>1 DEF Sane, Typed
<1>3. /\ \A t \in q.reqs : t.kind \notin {"mutation", "logout"}
      /\ \A t \in q.reqs : t.kind = "board" => t.aborted
      /\ lk => q.overlay
      /\ ~ad => (~q.overlay /\ q.data.kind = "formal" => q.data.user = o)
  BY <1>0, <1>1 DEF Sane, Switched, Accounted
<1>4. ASSUME NEW e \in PageSet, e.reqs = q.reqs, e.sent = q.sent, e.auth = q.auth, e.active = q.active,
             e.overlay = q.overlay, e.target = "", e.data = q.data \/ e.data.kind = "demo",
             ~df1 => e.demo /\ e.data.kind = "demo" /\ (e.board => br1)
      PROVE  Sane(e, s, o, lk, ad, df1, br1)
  <2>1. \A t \in q.reqs : TicketFits(e, t.kind, t.chain)
    BY <1>1 DEF NoTicket, Ticket, Ends, TicketFits
  <2>2. /\ \A t \in q.reqs : t.kind \in {"mutation", "logout"} => ~e.demo /\ e.target = ""
        /\ e.demo \/ e.target # "" => \A t \in q.reqs : t.kind = "board" => t.aborted
        /\ lk => e.overlay
        /\ ~ad => /\ ~e.overlay /\ e.data.kind = "formal" => e.data.user = o
                  /\ e.overlay \/ ~q.overlay \/ \A t \in q.reqs : t.kind = "login" => t.answer # "none"
        /\ ~df1 => /\ e.demo => e.data.kind = "demo"
                   /\ e.data.kind = "demo" => (e.demo \/ e.target = "formal") /\ (e.board => br1)
                   /\ ~e.demo /\ e.target = "" /\ e.data.kind # "none" => e.refresh
    BY <1>3, <1>4
  <2> QED
    BY <1>1, <1>4, <2>1, <2>2, Reshown
<1>5. CASE r.answer = "ok" /\ r.kind = "load"
  <2> DEFINE e == [q EXCEPT !.demo = TRUE, !.data = demo, !.board = FALSE, !.target = ""]
  <2>1. Entered(q, r) = e
    BY <1>5 DEF Entered, demo
  <2>2. /\ e \in PageSet /\ e.reqs = q.reqs /\ e.sent = q.sent /\ e.auth = q.auth /\ e.active = q.active
        /\ e.overlay = q.overlay /\ e.target = "" /\ e.data = demo /\ e.demo /\ ~e.board
    BY <1>0, <1>2 DEF PageSet
  <2> HIDE DEF e
  <2>3. demo.kind = "demo"
    BY DEF demo
  <2> QED
    BY <1>4, <2>1, <2>2, <2>3 DEF q
<1>6. CASE r.answer = "ok" /\ r.kind = "reset"
  <2> DEFINE e == [q EXCEPT !.demo = TRUE, !.data = demo, !.target = ""]
  <2>1. Entered(q, r) = e
    BY <1>6 DEF Entered, demo
  <2>2. /\ e \in PageSet /\ e.reqs = q.reqs /\ e.sent = q.sent /\ e.auth = q.auth /\ e.active = q.active
        /\ e.overlay = q.overlay /\ e.target = "" /\ e.data = demo /\ e.demo /\ e.board = q.board
    BY <1>0, <1>2 DEF PageSet
  <2> HIDE DEF e
  <2>3. demo.kind = "demo"
    BY DEF demo
  <2>4. ~df1 /\ q.board => br1
    BY <1>1, <1>6 DEF Sane, Switched
  <2> QED
    BY <1>4, <2>1, <2>2, <2>3, <2>4 DEF q
<1>7. CASE r.answer # "ok" /\ r.kind = "load"
  <2> DEFINE e == [q EXCEPT !.demo = FALSE, !.refresh = TRUE, !.target = ""]
  <2>1. Entered(q, r) = ConnectEvents(e)
    BY <1>7 DEF Entered
  <2>2. /\ e \in PageSet /\ e.reqs = q.reqs /\ e.sent = q.sent /\ e.auth = q.auth /\ e.active = q.active
        /\ e.overlay = q.overlay /\ e.target = "" /\ e.data = q.data
    BY <1>2 DEF PageSet
  <2> HIDE DEF e
  <2>3. Sane(e, s, o, lk, ad, df1, br1)
    BY <1>4, <1>7, <2>2
  <2>4. Sane(ConnectEvents(e), s, o, lk, ad, df1, br1) /\ SameView(e, ConnectEvents(e))
    BY <2>3, ConnectEventsKeeps
  <2> QED
    BY <2>1, <2>2, <2>4 DEF q, SameView
<1>8. CASE r.answer # "ok" /\ r.kind = "reset"
  <2> DEFINE e == [q EXCEPT !.target = ""]
  <2>1. Entered(q, r) = e
    BY <1>8 DEF Entered
  <2>2. /\ e \in PageSet /\ e.reqs = q.reqs /\ e.sent = q.sent /\ e.auth = q.auth /\ e.active = q.active
        /\ e.overlay = q.overlay /\ e.target = "" /\ e.data = q.data
    BY <1>2 DEF PageSet
  <2> HIDE DEF e
  <2> QED
    BY <1>4, <1>8, <2>1, <2>2 DEF q
<1> QED
  BY <1>5, <1>6, <1>7, <1>8

\* exitDemoMode after its reset.
LEMMA LeftKeeps ==
  ASSUME NEW p, NEW s, NEW o, NEW lk, NEW ad, NEW df, NEW br, Sane(p, s, o, lk, ad, df, br),
         NEW r \in p.reqs, r.kind = "exit", NEW df1, df => df1, r.answer # "ok" /\ ~p.demo => df1
  PROVE  LET e == Left(Arrived(p, r), r) IN Sane(e, s, o, lk, ad, df1, br) /\ Switching(e)
<1> DEFINE q == Arrived(p, r)
<1>0. ~Asks(r) /\ ~r.aborted /\ Ticket(r) /\ p.target = "formal"
  BY DEF Asks, Sane, Typed, Fits, Abortable, Ticket, Ends, Chained, TicketFits
<1>1. /\ Sane(q, s, o, lk, ad, df, br)
      /\ q.reqs = p.reqs \ {r} /\ q.sent = p.sent /\ q.auth = p.auth /\ (q.active = p.active \/ ~q.active)
      /\ q.mode = p.mode /\ q.demo = p.demo /\ q.target = p.target /\ q.data = p.data /\ q.board = p.board
      /\ q.refresh = p.refresh /\ (p.overlay => q.overlay)
      /\ NoTicket(q)
  BY <1>0, TakenKeeps
<1> HIDE DEF q
<1>2. q \in PageSet
  BY <1>1 DEF Sane, Typed
<1>3. /\ \A t \in q.reqs : t.kind \notin {"mutation", "logout"}
      /\ \A t \in q.reqs : t.kind = "board" => t.aborted
      /\ lk => q.overlay
      /\ ~ad => (~q.overlay /\ q.data.kind = "formal" => q.data.user = o)
      /\ ~df => (q.demo => q.data.kind = "demo") /\ (q.data.kind = "demo" /\ q.board => br)
  BY <1>0, <1>1 DEF Sane, Switched, Accounted
<1>4. ASSUME NEW e \in PageSet, e.reqs = q.reqs, e.sent = q.sent, e.auth = q.auth, e.active = q.active,
             e.overlay = q.overlay, e.data = q.data, e.board = q.board,
             (e.target = "" /\ e.demo) \/ (e.target = "formal" /\ ~e.demo),
             ~df1 /\ e.demo => q.demo
      PROVE  Sane(e, s, o, lk, ad, df1, br) /\ NoTicket(e)
  <2>1. \A t \in q.reqs : TicketFits(e, t.kind, t.chain)
    BY <1>1 DEF NoTicket, Ticket, Ends, TicketFits
  <2>2. /\ \A t \in q.reqs : t.kind \in {"mutation", "logout"} => ~e.demo /\ e.target = ""
        /\ e.demo \/ e.target # "" => \A t \in q.reqs : t.kind = "board" => t.aborted
        /\ lk => e.overlay
        /\ ~ad => /\ ~e.overlay /\ e.data.kind = "formal" => e.data.user = o
                  /\ e.overlay \/ ~q.overlay \/ \A t \in q.reqs : t.kind = "login" => t.answer # "none"
        /\ ~df1 => /\ e.demo => e.data.kind = "demo"
                   /\ e.data.kind = "demo" => (e.demo \/ e.target = "formal") /\ (e.board => br)
                   /\ ~e.demo /\ e.target = "" /\ e.data.kind # "none" => e.refresh
    BY <1>3, <1>4
  <2>3. Sane(e, s, o, lk, ad, df1, br) /\ SameChains(q, e)
    BY <1>1, <1>4, <2>1, <2>2, Reshown
  <2> QED
    BY <1>1, <2>3 DEF SameChains
<1>5. CASE r.answer = "ok"
  <2> DEFINE e == [q EXCEPT !.demo = FALSE]
             a == AbortAll(e, {"settings"})
  <2>1. /\ e \in PageSet /\ e.reqs = q.reqs /\ e.sent = q.sent /\ e.auth = q.auth /\ e.active = q.active
        /\ e.overlay = q.overlay /\ e.data = q.data /\ e.board = q.board /\ e.target = "formal" /\ ~e.demo
    BY <1>0, <1>1, <1>2 DEF PageSet
  <2>2. Left(q, r) = Send(a, "settings", "exit settings")
    BY <1>5, <2>1 DEF Left, LoadSettings
  <2> HIDE DEF e
  <2>3. Sane(e, s, o, lk, ad, df1, br) /\ NoTicket(e)
    BY <1>4, <2>1
  <2>4. {"settings"} \in SUBSET Abortable
    BY DEF Abortable
  <2>5. Sane(a, s, o, lk, ad, df1, br) /\ SameView(e, a) /\ SameChains(e, a)
    BY <2>3, <2>4, AbortKeeps
  <2> HIDE DEF a
  <2>6. a.target = "formal" /\ ~a.demo /\ NoTicket(a)
    BY <2>1, <2>3, <2>5 DEF SameView, SameChains
  <2>7. MaySend(a, "settings", "exit settings", ad)
    BY <2>6 DEF MaySend, Abortable, Waits, TicketFits
  <2>8. /\ Sane(Send(a, "settings", "exit settings"), s, o, lk, ad, df1, br)
        /\ NoTicket(Send(a, "settings", "exit settings")) <=> (NoTicket(a) /\ ~Ends("settings", "exit settings"))
    BY <2>5, <2>7, SendKeeps
  <2>9. Sane(Left(q, r), s, o, lk, ad, df1, br) /\ ~NoTicket(Left(q, r))
    BY <2>2, <2>8 DEF Ends
  <2> QED
    BY <2>9 DEF Switching, q
<1>6. CASE r.answer # "ok"
  <2> DEFINE e == [q EXCEPT !.demo = TRUE, !.target = ""]
  <2>1. /\ e \in PageSet /\ e.reqs = q.reqs /\ e.sent = q.sent /\ e.auth = q.auth /\ e.active = q.active
        /\ e.overlay = q.overlay /\ e.data = q.data /\ e.board = q.board /\ e.target = "" /\ e.demo
    BY <1>2 DEF PageSet
  <2>2. Left(q, r) = e
    BY <1>6 DEF Left
  <2> HIDE DEF e
  <2>3. ~df1 => q.demo
    BY <1>1, <1>6
  <2>4. Sane(e, s, o, lk, ad, df1, br)
    BY <1>4, <2>1, <2>3
  <2> QED
    BY <2>1, <2>2, <2>4 DEF Switching, q
<1> QED
  BY <1>5, <1>6

\* What advanceAuthRequestGeneration aborts.
Owned == {"bootstrap", "reports", "settings", "events"}

\* advanceAuthRequestGeneration for a page that has just got an account or lost it.
LEMMA AdvanceShape ==
  ASSUME NEW p \in PageSet, NEW b \in BOOLEAN, AbortAll(p, Owned) \in PageSet
  PROVE  LET q == AdvanceAuth([p EXCEPT !.active = b])
             a == AbortAll(p, Owned)
         IN /\ q \in PageSet /\ q.reqs = a.reqs /\ q.sent = a.sent /\ q.auth = a.auth + 1 /\ q.active = b
            /\ q.demo = a.demo /\ q.target = a.target /\ q.data = a.data /\ q.board = a.board
            /\ q.refresh = a.refresh /\ q.overlay = a.overlay
<1> DEFINE a == AbortAll(p, Owned)
           m == a.auth + 1
<1>1. AdvanceAuth([p EXCEPT !.active = b]) = [a EXCEPT !.active = b, !.auth = m, !.events = "off"]
  BY DEF AdvanceAuth, AbortAll, Owned, PageSet
<1>2. m \in Nat
  <2>1. a.auth \in Nat
    BY DEF PageSet
  <2> QED
    BY <2>1
<1> HIDE DEF a, m
<1>3. a \in PageSet
  BY DEF a
<1>4. LET q == [a EXCEPT !.active = b, !.auth = m, !.events = "off"]
      IN /\ q \in PageSet /\ q.reqs = a.reqs /\ q.sent = a.sent /\ q.auth = m /\ q.active = b
         /\ q.demo = a.demo /\ q.target = a.target /\ q.data = a.data /\ q.board = a.board
         /\ q.refresh = a.refresh /\ q.overlay = a.overlay
  BY <1>2, <1>3 DEF PageSet
<1> QED
  BY <1>1, <1>4 DEF a, m

\* The page is locked: covered, and nobody's.
LEMMA LockedKeeps ==
  ASSUME NEW p, NEW s, NEW o, NEW lk0, NEW ad0, NEW df, NEW br, Sane(p, s, o, lk0, ad0, df, br), Switching(p),
         NEW lk, NEW ad, lk => s = Nobody, ~ad => s = Nobody
  PROVE  Sane(Locked(p), s, o, lk, ad, df, br) /\ Switching(Locked(p))
<1> DEFINE a == AbortAll(p, Owned)
           v == AdvanceAuth([p EXCEPT !.active = FALSE])
           q == Locked(p)
<1>0. Owned \in SUBSET Abortable
  BY DEF Owned, Abortable
<1>1. Sane(p, s, o, FALSE, TRUE, df, br)
  <2>1. Accounted(p, s, o, FALSE, TRUE)
    BY DEF Sane, Accounted
  <2> QED
    BY <2>1 DEF Sane
<1>2. Sane(a, s, o, FALSE, TRUE, df, br) /\ SameView(p, a) /\ SameChains(p, a)
  BY <1>0, <1>1, AbortKeeps
<1>3. p \in PageSet /\ a \in PageSet
  BY <1>1, <1>2 DEF Sane, Typed
<1>4. /\ v \in PageSet /\ v.reqs = a.reqs /\ v.sent = a.sent /\ v.auth = a.auth + 1 /\ ~v.active
      /\ v.demo = a.demo /\ v.target = a.target /\ v.data = a.data /\ v.board = a.board /\ v.refresh = a.refresh
  BY <1>3, AdvanceShape
<1>5. q = [v EXCEPT !.overlay = TRUE]
  BY DEF Locked, ShowAuth
<1> HIDE DEF a, v, q
<1>6. /\ q \in PageSet /\ q.reqs = a.reqs /\ q.sent = a.sent /\ q.auth = a.auth + 1 /\ ~q.active
      /\ q.demo = a.demo /\ q.target = a.target /\ q.data = a.data /\ q.board = a.board /\ q.refresh = a.refresh
      /\ q.overlay
  BY <1>4, <1>5 DEF PageSet
<1>7. /\ lk => s = Nobody /\ q.overlay
      /\ ~ad => /\ ~q.overlay /\ q.data.kind = "formal" => q.data.user = o
                /\ \A r \in a.reqs : r.kind \in {"login", "me"} => ~q.active
                /\ \A r \in a.reqs : r.kind = "login" /\ r.answer = "none" => q.overlay
                /\ ~Asking(a) /\ ~q.active => s = Nobody
  BY <1>6
<1>8. Sane(q, s, o, lk, ad, df, br) /\ SameChains(a, q)
  BY <1>2, <1>6, <1>7, Renewed
<1>9. Switching(q)
  BY <1>2, <1>6, <1>8 DEF Switching, SameChains, SameView
<1> QED
  BY <1>8, <1>9 DEF q

\* The page knows who logged in: its generation advances, and the account's data are asked for.
LEMMA IdentifiedKeeps ==
  ASSUME NEW p, NEW s, NEW o, NEW lk, NEW ad, NEW df, NEW br, Sane(p, s, o, lk, TRUE, df, br), Switching(p), NoLogin(p),
         NEW b \in BOOLEAN, ~b => s = Nobody,
         ~ad => (~p.overlay /\ p.data.kind = "formal" => p.data.user = o)
  PROVE  LET q == LoadBootstrap(AdvanceAuth([p EXCEPT !.active = b]), "login")
         IN Sane(q, s, o, lk, ad, df, br) /\ Switching(q)
<1> DEFINE a == AbortAll(p, Owned)
           v == AdvanceAuth([p EXCEPT !.active = b])
           q == LoadBootstrap(v, "login")
<1>0. Owned \in SUBSET Abortable
  BY DEF Owned, Abortable
<1>2. Sane(a, s, o, lk, TRUE, df, br) /\ SameView(p, a) /\ SameChains(p, a)
  BY <1>0, AbortKeeps
<1>3. p \in PageSet /\ a \in PageSet
  BY <1>2 DEF Sane, Typed
<1>4. /\ v \in PageSet /\ v.reqs = a.reqs /\ v.sent = a.sent /\ v.auth = a.auth + 1 /\ v.active = b
      /\ v.demo = a.demo /\ v.target = a.target /\ v.data = a.data /\ v.board = a.board /\ v.refresh = a.refresh
      /\ v.overlay = a.overlay
  BY <1>3, AdvanceShape
<1> HIDE DEF a, v
<1>5. \A r \in a.reqs : r.kind \notin {"login", "me"}
  BY <1>2 DEF SameChains, NoLogin, Sane, Typed, Fits, Waits
<1>6. /\ lk => s = Nobody /\ v.overlay
      /\ ~ad => /\ ~v.overlay /\ v.data.kind = "formal" => v.data.user = o
                /\ \A r \in a.reqs : r.kind \in {"login", "me"} => ~v.active
                /\ \A r \in a.reqs : r.kind = "login" /\ r.answer = "none" => v.overlay
                /\ ~Asking(a) /\ ~v.active => s = Nobody
  BY <1>2, <1>4, <1>5 DEF SameView, Sane, Accounted
<1>7. Sane(v, s, o, lk, ad, df, br) /\ SameChains(a, v)
  BY <1>2, <1>4, <1>6, Renewed
<1>8. NoLogin(v)
  BY <1>2, <1>7 DEF SameChains
<1>9. /\ Sane(LoadBootstrap(v, "login"), s, o, lk, ad, df, br)
      /\ SameView(v, LoadBootstrap(v, "login"))
      /\ NoTicket(LoadBootstrap(v, "login")) <=> (NoTicket(v) /\ "login" # "exit bootstrap")
  BY <1>7, <1>8, LoadBootstrapKeeps
<1>10. Switching(q)
  BY <1>2, <1>4, <1>7, <1>9 DEF Switching, SameChains, SameView
<1> QED
  BY <1>9, <1>10 DEF v

\* A login has been answered, and the page asks who logged in.
LEMMA LoginAnswered ==
  ASSUME NEW p, NEW s, NEW o, NEW lk, NEW ad, NEW df, NEW br, Sane(p, s, o, lk, ad, df, br), Switching(p),
         NEW r \in p.reqs, r.kind = "login"
  PROVE  LET q == Send(Without(p, r), "me", "login") IN Sane(q, s, o, lk, ad, df, br) /\ Switching(q)
<1> DEFINE n == Outgoing(p, "me", "login", Nobody)
           q == Send(Without(p, r), "me", "login")
<1>0. Typed(p) /\ Chained(p) /\ Accounted(p, s, o, lk, ad) /\ r.chain = "login" /\ Nobody \in People
  BY DEF Sane, Typed, Fits, Waits, People
<1>1. /\ n.id = p.sent + 1 /\ n.kind = "me" /\ n.chain = "login" /\ n.auth = p.auth /\ n.active = p.active
      /\ ~n.aborted /\ n.answer = "none"
  BY DEF Outgoing
<1>2. p.sent \in Nat /\ p.auth \in Nat /\ p.mode \in Nat /\ p.active \in BOOLEAN /\ p.reqs \subseteq RequestSet
  BY <1>0 DEF Typed, PageSet
<1>3. n \in RequestSet
  <2>1. p.sent + 1 \in Nat
    BY <1>2
  <2> QED
    BY <1>0, <1>2, <2>1 DEF Outgoing, RequestSet
<1>4. q = [p EXCEPT !.sent = p.sent + 1, !.reqs = (p.reqs \ {r}) \cup {n}]
  BY <1>0 DEF Send, Without, Outgoing, Typed, PageSet
<1> HIDE DEF n
<1>5. /\ q \in PageSet /\ SameView(p, q) /\ q.refresh = p.refresh /\ q.sent = p.sent + 1
      /\ q.reqs = (p.reqs \ {r}) \cup {n}
  <2>1. (p.reqs \ {r}) \cup {n} \in SUBSET RequestSet /\ p.sent + 1 \in Nat
    BY <1>2, <1>3
  <2> QED
    BY <1>0, <1>4, <2>1 DEF Typed, PageSet, SameView
<1> HIDE DEF q
<1>6. MayReplace(p, r, n, s, o, lk, ad)
  <2>1. /\ Fits(n) /\ n.auth <= p.auth
        /\ ~Ticket(n) /\ ~Ticket(r) /\ TicketFits(p, n.kind, n.chain) /\ ~Uncovers(n) /\ Asks(n)
    BY <1>0, <1>1, <1>2 DEF Fits, Waits, Ticket, Ends, TicketFits, Uncovers, Asks
  <2>2. ~ad => ~p.active
    BY <1>0 DEF Accounted
  <2> QED
    BY <1>0, <1>1, <1>3, <2>1, <2>2 DEF MayReplace
<1>7. q.sent >= p.sent /\ n.id <= q.sent
  BY <1>1, <1>2, <1>5
<1>8. Sane(q, s, o, lk, ad, df, br) /\ SameChains(p, q)
  BY <1>5, <1>6, <1>7, Replaced
<1>9. Switching(q)
  BY <1>5, <1>8 DEF Switching, SameChains, SameView
<1> QED
  BY <1>8, <1>9 DEF q

\* The bootstrap has arrived, and the list of reports is read.
LEMMA BootstrapAnswered ==
  ASSUME NEW p, NEW s, NEW o, NEW lk, NEW ad, NEW df, NEW br, Sane(p, s, o, lk, ad, df, br), Switching(p),
         NEW r \in p.reqs, r.kind = "bootstrap", ~r.aborted, r.answer = "ok"
  PROVE  LET q == [Without(p, r) EXCEPT !.reqs = @ \cup {[r EXCEPT !.kind = "reports", !.answer = "none"]}]
         IN Sane(q, s, o, lk, ad, df, br) /\ Switching(q)
<1> DEFINE n == [r EXCEPT !.kind = "reports", !.answer = "none"]
           q == [Without(p, r) EXCEPT !.reqs = @ \cup {n}]
<1>0. /\ Typed(p) /\ Chained(p) /\ Accounted(p, s, o, lk, ad)
      /\ r \in RequestSet /\ Fits(r) /\ r.auth <= p.auth /\ r.id <= p.sent
      /\ p.sent \in Nat /\ p.reqs \subseteq RequestSet
  BY DEF Sane, Typed, PageSet
<1>1. /\ n \in RequestSet /\ n.id = r.id /\ n.kind = "reports" /\ n.chain = r.chain /\ n.auth = r.auth
      /\ n.active = r.active /\ n.user = r.user /\ ~n.aborted /\ n.answer = "none"
  BY <1>0 DEF RequestSet, Abortable
<1>2. q = [p EXCEPT !.reqs = (p.reqs \ {r}) \cup {n}]
  BY <1>0 DEF Without, Typed, PageSet
<1> HIDE DEF n, q
<1>3. /\ q \in PageSet /\ SameView(p, q) /\ q.refresh = p.refresh /\ q.sent = p.sent
      /\ q.reqs = (p.reqs \ {r}) \cup {n}
  <2>1. LET v == [p EXCEPT !.reqs = (@ \ {r}) \cup {n}]
        IN /\ v \in PageSet /\ SameView(p, v) /\ v.refresh = p.refresh /\ v.sent = p.sent
           /\ v.reqs = (p.reqs \ {r}) \cup {n}
    BY <1>0, <1>1, AnswerStays
  <2> QED
    BY <1>2, <2>1
<1>4. Uncovers(r) /\ ~Asks(r) /\ ~Asks(n)
  BY <1>1 DEF Uncovers, Asks
<1>5. Fits(n) /\ (Ticket(n) <=> Ticket(r)) /\ TicketFits(p, n.kind, n.chain)
  BY <1>0, <1>1 DEF Fits, Waits, Ticket, Ends, Chained, TicketFits
<1>6. MayReplace(p, r, n, s, o, lk, ad)
  BY <1>0, <1>1, <1>4, <1>5 DEF MayReplace, Accounted
<1>7. q.sent >= p.sent /\ n.id <= q.sent
  BY <1>0, <1>1, <1>3
<1>8. Sane(q, s, o, lk, ad, df, br) /\ SameChains(p, q)
  BY <1>3, <1>6, <1>7, Replaced
<1>9. Switching(q)
  BY <1>3, <1>8 DEF Switching, SameChains, SameView
<1> QED
  BY <1>8, <1>9 DEF q, n

\* The answers that concern neither the account nor the mode.
Plain == Abortable \cup {"login", "mutation"}

\* What the page becomes when an answer or the end of an aborted read reaches it.
Delivered(p, r) == IF r.aborted THEN Continue(Without(p, r), r.chain) ELSE Handled(Arrived(p, r), r)

LEMMA PlainDelivered ==
  ASSUME NEW p, NEW s, NEW o, NEW lk, NEW ad, NEW df, NEW br, Sane(p, s, o, lk, ad, df, br), Switching(p),
         NEW r \in p.reqs, r.kind \in Plain, r.aborted \/ r.answer # "none"
  PROVE  Sane(Delivered(p, r), s, o, lk, ad, df, br) /\ Switching(Delivered(p, r))
<1> DEFINE w == Without(p, r)
           q == Arrived(p, r)
<1>0. /\ r.chain \in {"", "login", "start", "exit settings", "exit bootstrap"} /\ Fits(r)
      /\ r.answer \in {"none", "ok", "failed", "401"} /\ r.kind \notin {"load", "reset", "exit"}
  BY DEF Sane, Typed, PageSet, RequestSet, Plain, Abortable
<1>1. ASSUME r.kind # "login" \/ r.answer # "ok"
      PROVE  /\ Sane(w, s, o, lk, ad, df, br) /\ SameView(p, w)
             /\ w.refresh = p.refresh /\ w.reqs = p.reqs \ {r} /\ w.sent = p.sent
             /\ MayGoOn(w, r.chain)
  <2>1. ~Asks(r) /\ r.kind \notin {"load", "reset", "exit"}
    BY <1>1 DEF Asks, Plain, Abortable
  <2> QED
    BY <2>1, WithoutReady
<1>2. CASE r.aborted
  <2>1. Delivered(p, r) = Continue(w, r.chain) /\ r.kind # "login"
    BY <1>0, <1>2 DEF Delivered, Fits, Abortable
  <2> HIDE DEF w
  <2>2. Sane(Continue(w, r.chain), s, o, lk, ad, df, br) /\ Switching(Continue(w, r.chain))
    BY <1>0, <1>1, <2>1, ReadyContinues
  <2> QED
    BY <2>1, <2>2
<1>3. CASE ~r.aborted /\ r.kind = "login"
  <2>1. r.answer # "401"
    BY <1>0, <1>3 DEF Fits
  <2>2. Delivered(p, r) = IF r.answer = "ok" THEN Send(w, "me", "login") ELSE w
    BY <1>3, <2>1 DEF Delivered, Handled, Arrived
  <2>3. CASE r.answer = "ok"
    <3>1. LET v == Send(Without(p, r), "me", "login") IN Sane(v, s, o, lk, ad, df, br) /\ Switching(v)
      BY <1>3, LoginAnswered
    <3> QED
      BY <2>2, <2>3, <3>1
  <2>4. CASE r.answer # "ok"
    <3>1. Sane(w, s, o, lk, ad, df, br) /\ MayGoOn(w, r.chain)
      BY <1>1, <2>4
    <3>2. r.chain = "login"
      BY <1>0, <1>3 DEF Fits, Waits
    <3> QED
      BY <2>2, <2>4, <3>1, <3>2 DEF MayGoOn
  <2> QED
    BY <2>3, <2>4
<1>4. CASE ~r.aborted /\ r.kind # "login"
  <2>0. ~Asks(r) /\ Delivered(p, r) = Handled(q, r)
    BY <1>4 DEF Asks, Delivered, Plain, Abortable
  <2>1. /\ Sane(q, s, o, lk, ad, df, br)
        /\ q.reqs = p.reqs \ {r} /\ q.sent = p.sent /\ q.auth = p.auth /\ (q.active = p.active \/ ~q.active)
        /\ q.mode = p.mode /\ q.demo = p.demo /\ q.target = p.target /\ q.data = p.data /\ q.board = p.board
        /\ q.refresh = p.refresh /\ (p.overlay => q.overlay)
    BY <1>4, <2>0, TakenKeeps
  <2>2. MayGoOn(q, r.chain)
    BY <1>0, <1>4, <2>0, TakenReady
  <2>3. r.chain = "" => Switching(q)
    BY <2>2 DEF MayGoOn
  <2>4. r.answer # "401" => q = w
    BY DEF Arrived
  <2> HIDE DEF q
  <2>5. CASE r.kind = "bootstrap"
    <3>1. CASE r.answer = "ok"
      <4>1. LET v == [Without(p, r) EXCEPT !.reqs = @ \cup {[r EXCEPT !.kind = "reports", !.answer = "none"]}]
            IN Sane(v, s, o, lk, ad, df, br) /\ Switching(v)
        BY <1>4, <2>5, <3>1, BootstrapAnswered
      <4>2. Handled(q, r) = [Without(p, r) EXCEPT !.reqs = @ \cup {[r EXCEPT !.kind = "reports", !.answer = "none"]}]
        BY <2>4, <2>5, <3>1 DEF Handled
      <4> QED
        BY <2>0, <4>1, <4>2
    <3>2. CASE r.answer # "ok"
      <4>1. Handled(q, r) = Continue(q, r.chain)
        BY <2>5, <3>2 DEF Handled
      <4>2. Sane(Continue(q, r.chain), s, o, lk, ad, df, br) /\ Switching(Continue(q, r.chain))
        BY <1>0, <2>1, <2>2, ReadyContinues
      <4> QED
        BY <2>0, <4>1, <4>2
    <3> QED
      BY <3>1, <3>2
  <2>6. CASE r.kind = "reports"
    <3> DEFINE b == Bootstrapped(q, r)
    <3>1. Handled(q, r) = Continue(b, r.chain)
      BY <2>6 DEF Handled
    <3>2. Sane(b, s, o, lk, ad, df, br) /\ MayGoOn(b, r.chain)
      BY <1>4, <2>6, BootstrappedKeeps DEF q
    <3> HIDE DEF b
    <3>3. Sane(Continue(b, r.chain), s, o, lk, ad, df, br) /\ Switching(Continue(b, r.chain))
      BY <1>0, <3>2, ReadyContinues
    <3> QED
      BY <2>0, <3>1, <3>3
  <2>7. CASE r.kind = "demo"
    <3> DEFINE d == [q EXCEPT !.data = [kind |-> "demo", user |-> Nobody], !.overlay = FALSE]
               e == IF r.answer = "ok" /\ Current(q, r, TRUE) THEN d ELSE q
    <3>1. Handled(q, r) = Continue(e, r.chain)
      BY <2>7 DEF Handled
    <3>2. CASE r.answer = "ok" /\ Current(q, r, TRUE)
      <4>1. q = w
        BY <2>4, <3>2
      <4>2. LET v == Without(p, r) IN Current(v, r, TRUE)
        BY <3>2, <4>1
      <4>3. LET v == [Without(p, r) EXCEPT !.data = [kind |-> "demo", user |-> Nobody], !.overlay = FALSE]
            IN Sane(v, s, o, lk, ad, df, br) /\ MayGoOn(v, r.chain)
        BY <1>4, <2>7, <3>2, <4>2, DemoKeeps
      <4>4. e = [Without(p, r) EXCEPT !.data = [kind |-> "demo", user |-> Nobody], !.overlay = FALSE]
        BY <3>2, <4>1
      <4> HIDE DEF e
      <4>5. Sane(e, s, o, lk, ad, df, br) /\ MayGoOn(e, r.chain)
        BY <4>3, <4>4
      <4>6. Sane(Continue(e, r.chain), s, o, lk, ad, df, br) /\ Switching(Continue(e, r.chain))
        BY <1>0, <4>5, ReadyContinues
      <4> QED
        BY <2>0, <3>1, <4>6
    <3>3. CASE ~(r.answer = "ok" /\ Current(q, r, TRUE))
      <4>1. e = q
        BY <3>3
      <4> HIDE DEF e
      <4>2. Sane(Continue(q, r.chain), s, o, lk, ad, df, br) /\ Switching(Continue(q, r.chain))
        BY <1>0, <2>1, <2>2, ReadyContinues
      <4> QED
        BY <2>0, <3>1, <4>1, <4>2
    <3> QED
      BY <3>2, <3>3
  <2>8. CASE r.kind = "settings"
    <3> DEFINE e == Settled(q, r)
    <3>1. Handled(q, r) = Continue(e, r.chain)
      BY <2>8 DEF Handled
    <3>2. e \in PageSet /\ SameView(q, e) /\ e.reqs = q.reqs /\ e.sent = q.sent /\ (q.refresh => e.refresh)
      <4>1. e \in {q, [q EXCEPT !.refresh = TRUE]}
        BY DEF Settled
      <4> HIDE DEF e
      <4>2. q \in PageSet
        BY <2>1 DEF Sane, Typed
      <4>3. [q EXCEPT !.refresh = TRUE] \in PageSet
        BY <4>2 DEF PageSet
      <4>4. SameView(q, e)
        BY <4>1, <4>2 DEF PageSet, SameView
      <4> QED
        <5>1. e \in PageSet
          BY <4>1, <4>2, <4>3
        <5> QED
          BY <4>1, <4>2, <4>4, <5>1 DEF PageSet
    <3> HIDE DEF e
    <3>3. Sane(e, s, o, lk, ad, df, br) /\ SameChains(q, e)
      BY <2>1, <3>2, Retuned
    <3>4. MayGoOn(e, r.chain)
      BY <2>2, <3>2, <3>3, StayReady DEF SameView, SameChains
    <3>5. Sane(Continue(e, r.chain), s, o, lk, ad, df, br) /\ Switching(Continue(e, r.chain))
      BY <1>0, <3>3, <3>4, ReadyContinues
    <3> QED
      BY <2>0, <3>1, <3>5
  <2>9. CASE r.kind = "board"
    <3>1. r.chain = ""
      BY <1>0, <2>9 DEF Fits, Waits
    <3>2. CASE r.answer = "ok"
      <4>1. LET d == [Without(p, r) EXCEPT !.board = TRUE] IN Sane(d, s, o, lk, ad, df, br) /\ Switching(d)
        BY <1>4, <2>9, BoardKeeps
      <4>2. Handled(q, r) = [Without(p, r) EXCEPT !.board = TRUE]
        BY <2>4, <2>9, <3>2 DEF Handled
      <4> QED
        BY <2>0, <4>1, <4>2
    <3>3. CASE r.answer # "ok"
      <4>1. Handled(q, r) = q
        BY <2>9, <3>3 DEF Handled
      <4> QED
        BY <2>0, <2>1, <2>3, <3>1, <4>1
    <3> QED
      BY <3>2, <3>3
  <2>10. CASE r.kind = "mutation"
    <3>1. r.chain = ""
      BY <1>0, <2>10 DEF Fits, Waits, Abortable
    <3>2. Handled(q, r) = IF r.answer = "ok" THEN LoadBootstrap(q, "") ELSE q
      BY <2>10 DEF Handled
    <3>3. /\ Sane(LoadBootstrap(q, ""), s, o, lk, ad, df, br)
          /\ SameView(q, LoadBootstrap(q, ""))
          /\ NoTicket(LoadBootstrap(q, "")) <=> (NoTicket(q) /\ "" # "exit bootstrap")
      BY <2>1, LoadBootstrapKeeps
    <3>4. Switching(LoadBootstrap(q, ""))
      BY <2>3, <3>1, <3>3 DEF Switching, SameView
    <3> QED
      BY <2>0, <2>1, <2>3, <3>1, <3>2, <3>3, <3>4
  <2>11. CASE r.kind = "events"
    <3>1. r.chain = ""
      BY <1>0, <2>11 DEF Fits, Waits
    <3> DEFINE e == Handled(q, r)
    <3>2. e \in {q, [q EXCEPT !.events = "on"], [q EXCEPT !.events = "retry"]}
      BY <2>11 DEF Handled
    <3> HIDE DEF e
    <3>3. e \in PageSet /\ SameView(q, e) /\ e.reqs = q.reqs /\ e.sent = q.sent /\ e.refresh = q.refresh
      <4>1. q \in PageSet
        BY <2>1 DEF Sane, Typed
      <4>2. [q EXCEPT !.events = "on"] \in PageSet /\ [q EXCEPT !.events = "retry"] \in PageSet
        BY <4>1 DEF PageSet
      <4>3. SameView(q, e)
        BY <3>2, <4>1 DEF PageSet, SameView
      <4> QED
        <5>1. e \in PageSet
          BY <3>2, <4>1, <4>2
        <5> QED
          BY <3>2, <4>1, <4>3, <5>1 DEF PageSet
    <3>4. Sane(e, s, o, lk, ad, df, br) /\ SameChains(q, e)
      BY <2>1, <3>3, Retuned
    <3>5. Switching(e)
      BY <2>3, <3>1, <3>3, <3>4 DEF Switching, SameView, SameChains
    <3> QED
      BY <2>0, <3>4, <3>5 DEF e
  <2> QED
    BY <1>4, <2>5, <2>6, <2>7, <2>8, <2>9, <2>10, <2>11 DEF Plain, Abortable
<1> QED
  BY <1>2, <1>3, <1>4

\* An answer reaches the page, or the end of an aborted read.
LEMMA DeliverKeeps ==
  ASSUME PageInvOn, NEW r \in page.reqs, Deliver(r)
  PROVE  PageInvOn'
<1>0. Sane(page, session, owner, locked, adrift, demoFailed, byReset) /\ Switching(page)
  BY DEF PageInvOn
<1>1. /\ r.chain \in {"", "login", "start", "exit settings", "exit bootstrap"} /\ Fits(r)
      /\ r.kind \in Plain \cup {"me", "logout", "load", "reset", "exit"}
      /\ page \in PageSet /\ r.user \in People /\ r.answer \in {"none", "ok", "failed", "401"}
  BY <1>0 DEF Sane, Typed, PageSet, RequestSet, Plain, Abortable
<1>2. /\ r.aborted \/ r.answer # "none"
      /\ page' = Delivered(page, r)
      /\ locked' = (locked \/ (r.kind = "logout" /\ session = Nobody))
      /\ adrift' = (adrift \/ (r.kind = "logout" /\ session # Nobody) \/ (r.kind = "me" /\ r.answer # "ok"))
      /\ demoFailed' = (demoFailed \/ (r.answer # "ok" /\ (r.kind \in {"load", "reset"} \/ (r.kind = "exit" /\ ~page.demo))))
      /\ byReset' = CASE r.kind = "reset" /\ r.answer = "ok" -> byReset \/ ~page.demo
                      [] r.kind = "load" /\ r.answer = "ok" -> FALSE
                      [] OTHER -> byReset
      /\ session' = session /\ owner' = owner
  BY DEF Deliver, Delivered, Without, Arrived
<1>3. /\ adrift => adrift'
      /\ demoFailed => demoFailed'
      /\ r.kind # "logout" => (locked' => locked)
      /\ r.kind \notin {"load", "reset"} => (byReset => byReset')
  BY <1>2
<1>4. SUFFICES Sane(Delivered(page, r), session, owner, locked', adrift', demoFailed', byReset') /\ Switching(Delivered(page, r))
  BY <1>2 DEF PageInvOn
<1>5. CASE r.kind \in Plain
  <2>1. Sane(Delivered(page, r), session, owner, locked, adrift, demoFailed, byReset) /\ Switching(Delivered(page, r))
    BY <1>0, <1>2, <1>5, PlainDelivered
  <2>2. r.kind \notin {"logout", "load", "reset"}
    BY <1>5 DEF Plain, Abortable
  <2>3. Sane(Delivered(page, r), session, owner, locked', adrift', demoFailed', byReset')
    BY <1>3, <2>1, <2>2, GhostsGrow
  <2> QED
    BY <2>1, <2>3
<1>6. ASSUME r.kind \notin Plain
      PROVE  ~r.aborted /\ Delivered(page, r) = Handled(Arrived(page, r), r)
  BY <1>1, <1>6 DEF Fits, Plain, Delivered
<1>7. CASE r.kind = "me"
  <2> DEFINE w == Without(page, r)
             b == r.user # Nobody
  <2>1. r.kind \notin Plain /\ r.answer # "401" /\ r.chain = "login" /\ r.kind \notin {"load", "reset", "exit"}
    BY <1>1, <1>7 DEF Plain, Abortable, Fits, Waits
  <2>2. Arrived(page, r) = w
    BY <2>1 DEF Arrived
  <2>3. /\ Sane(w, session, owner, locked, TRUE, demoFailed, byReset) /\ SameView(page, w)
        /\ w.refresh = page.refresh /\ w.reqs = page.reqs \ {r} /\ w.sent = page.sent
        /\ MayGoOn(w, r.chain)
    BY <1>0, <2>1, WithoutReady
  <2>4. NoLogin(w)
    BY <1>0, <2>1, <2>3 DEF Sane, Chained, NoLogin
  <2>5. Switching(w)
    BY <2>1, <2>3 DEF MayGoOn
  <2> HIDE DEF w
  <2>6. CASE r.answer = "ok"
    <3> DEFINE v == LoadBootstrap(AdvanceAuth([w EXCEPT !.active = b]), "login")
    <3>1. Delivered(page, r) = v
      BY <1>6, <1>7, <2>1, <2>2, <2>6 DEF Handled, Identified
    <3>2. ~b => session = Nobody
      BY <1>0, <1>7, <2>6 DEF Sane, Accounted
    <3>3. ~adrift => (~w.overlay /\ w.data.kind = "formal" => w.data.user = owner)
      BY <1>0, <2>3 DEF Sane, Accounted, SameView
    <3>4. b \in BOOLEAN
      OBVIOUS
    <3> HIDE DEF b
    <3>5. Sane(v, session, owner, locked, adrift, demoFailed, byReset) /\ Switching(v)
      BY <2>3, <2>4, <2>5, <3>2, <3>3, <3>4, IdentifiedKeeps
    <3> HIDE DEF v
    <3>6. Sane(v, session, owner, locked', adrift', demoFailed', byReset')
      BY <1>3, <1>7, <3>5, GhostsGrow
    <3> QED
      BY <3>1, <3>5, <3>6
  <2>7. CASE r.answer # "ok"
    <3>1. Delivered(page, r) = w
      BY <1>6, <1>7, <2>1, <2>2, <2>7 DEF Handled, Identified
    <3>2. adrift' /\ (byReset => byReset') /\ (demoFailed => demoFailed') /\ (locked' => locked)
      BY <1>2, <1>3, <1>7, <2>7
    <3>3. Sane(w, session, owner, locked', adrift', demoFailed', byReset')
      <4>1. Accounted(w, session, owner, locked', adrift')
        BY <2>3, <3>2 DEF Sane, Accounted
      <4>2. Switched(w, demoFailed', byReset')
        BY <2>3, <3>2 DEF Sane, Switched
      <4> QED
        BY <2>3, <4>1, <4>2 DEF Sane
    <3> QED
      BY <2>5, <3>1, <3>3
  <2> QED
    BY <2>6, <2>7
<1>8. CASE r.kind = "logout"
  <2> DEFINE w == Without(page, r)
  <2>0. ~Asks(r) /\ r.kind \notin {"load", "reset", "exit"}
    BY <1>8 DEF Asks
  <2>1. r.kind \notin Plain /\ r.answer # "401" /\ r.chain = ""
    BY <1>1, <1>8 DEF Plain, Abortable, Fits, Waits
  <2>2. Arrived(page, r) = w /\ Delivered(page, r) = Locked(w)
    BY <1>6, <1>8, <2>1 DEF Arrived, Handled
  <2>3. /\ Sane(w, session, owner, locked, adrift, demoFailed, byReset) /\ SameView(page, w)
        /\ w.refresh = page.refresh /\ w.reqs = page.reqs \ {r} /\ w.sent = page.sent
        /\ MayGoOn(w, r.chain)
    BY <1>0, <2>0, WithoutReady
  <2>4. Switching(w)
    BY <2>1, <2>3 DEF MayGoOn
  <2>5. (locked' => session = Nobody) /\ (~adrift' => session = Nobody)
    BY <1>0, <1>2, <1>8 DEF Sane, Accounted
  <2> HIDE DEF w
  <2>6. Sane(Locked(w), session, owner, locked', adrift', demoFailed, byReset) /\ Switching(Locked(w))
    BY <2>3, <2>4, <2>5, LockedKeeps
  <2>7. Sane(Locked(w), session, owner, locked', adrift', demoFailed', byReset')
    BY <1>3, <1>8, <2>6, GhostsGrow
  <2> QED
    BY <2>2, <2>6, <2>7
<1>9. CASE r.kind \in {"load", "reset"}
  <2> DEFINE e == Entered(Arrived(page, r), r)
  <2>1. Delivered(page, r) = e
    BY <1>6, <1>9 DEF Handled, Plain, Abortable
  <2>2. ASSUME NEW d, NEW b, demoFailed => d, r.answer # "ok" => d, r.kind = "reset" /\ byReset => b,
               r.kind = "reset" /\ ~page.demo => b
        PROVE  Sane(e, session, owner, locked, adrift, d, b) /\ e.target = ""
    <3>1. r.kind = "load" \/ r.kind = "reset"
      BY <1>9
    <3>2. Sane(e, session, owner, locked, adrift, d, b)
      BY <1>0, <2>2, <3>1, EnteredKeeps
    <3>3. e.target = ""
      BY <1>0, <2>2, <3>1, EnteredKeeps
    <3> QED
      BY <3>2, <3>3
  <2> HIDE DEF e
  <2>3. /\ demoFailed => demoFailed'
        /\ r.answer # "ok" => demoFailed'
        /\ r.answer = "ok" /\ r.kind = "reset" /\ (byReset \/ ~page.demo) => byReset'
    BY <1>2, <1>9
  <2>4. Sane(e, session, owner, locked, adrift, demoFailed', byReset') /\ e.target = ""
    <3>1. CASE r.answer = "ok"
      BY <2>2, <2>3, <3>1
    <3>2. CASE r.answer # "ok"
      <4>1. Sane(e, session, owner, locked, adrift, demoFailed', TRUE) /\ e.target = ""
        BY <2>2, <2>3, <3>2
      <4>2. Switched(e, demoFailed', byReset')
        BY <2>3, <3>2, <4>1 DEF Sane, Switched
      <4> QED
        BY <4>1, <4>2 DEF Sane
    <3> QED
      BY <3>1, <3>2
  <2>5. Accounted(e, session, owner, locked', adrift')
    BY <1>2, <1>9, <2>4 DEF Sane, Accounted
  <2>6. Sane(e, session, owner, locked', adrift', demoFailed', byReset')
    BY <2>4, <2>5 DEF Sane
  <2> QED
    BY <2>1, <2>4, <2>6 DEF Switching
<1>10. CASE r.kind = "exit"
  <2> DEFINE e == Left(Arrived(page, r), r)
  <2>1. Delivered(page, r) = e
    BY <1>6, <1>10 DEF Handled, Plain, Abortable
  <2>2. (demoFailed => demoFailed') /\ (r.answer # "ok" /\ ~page.demo => demoFailed')
    BY <1>2, <1>10
  <2>3. Sane(e, session, owner, locked, adrift, demoFailed', byReset) /\ Switching(e)
    BY <1>0, <1>10, <2>2, LeftKeeps
  <2> HIDE DEF e
  <2>4. Sane(e, session, owner, locked', adrift', demoFailed', byReset')
    BY <1>3, <1>10, <2>3, GhostsGrow
  <2> QED
    BY <2>1, <2>3, <2>4
<1> QED
  BY <1>1, <1>5, <1>7, <1>8, <1>9, <1>10

\* The page has just been loaded and asks who it is; nothing but the answer can change it.
Blank(p) ==
  /\ p \in PageSet /\ ~p.demo /\ p.target = "" /\ p.data.kind = "none" /\ p.events = "off" /\ ~p.refresh /\ ~p.poll
FirstMe(r) ==
  r \in RequestSet /\ r.kind = "me" /\ r.chain = "start" /\ ~r.aborted /\ r.answer # "401"

StartsWith(p, s, o) ==
  /\ s \in {Nobody, o} /\ o \in People /\ Blank(p) /\ ~p.overlay
  /\ \E r : /\ p.reqs = {r} /\ FirstMe(r)
            /\ r.answer = "ok" /\ r.user = Nobody => s = Nobody
Starting == StartsWith(page, session, owner) /\ locked = FALSE /\ adrift = FALSE /\ demoFailed = FALSE /\ byReset = FALSE

PageInv == Starting \/ PageInvOn

\* A page that waits for nothing, and is not without its account.
Bare(q, s, o, ad) == Blank(q) /\ q.reqs = {} /\ o \in People /\ s \in {Nobody, o} /\ (ad \/ q.active \/ s = Nobody)

LEMMA BareKeeps ==
  ASSUME NEW q, NEW s, NEW o, NEW ad, Bare(q, s, o, ad)
  PROVE  Sane(q, s, o, FALSE, ad, FALSE, FALSE)
<1>1. Typed(q) /\ Chained(q)
  BY DEF Typed, Chained, Blank, Bare
<1>2. Accounted(q, s, o, FALSE, ad)
  BY DEF Accounted, Blank, Bare
<1>3. Switched(q, FALSE, FALSE)
  BY DEF Switched, Blank, Bare
<1> QED
  BY <1>1, <1>2, <1>3 DEF Sane

\* The page starts.
LEMMA StartHolds ==
  ASSUME PageInit
  PROVE  Starting
<1> DEFINE r == [id |-> 1, kind |-> "me", chain |-> "start", auth |-> 0, active |-> FALSE, mode |-> 0,
                 aborted |-> FALSE, answer |-> "none", user |-> Nobody]
<1>1. session \in {Nobody, owner} /\ owner \in People /\ Nobody \in People
  BY DEF PageInit, People
<1>2. r \in RequestSet /\ r.kind = "me" /\ r.chain = "start" /\ ~r.aborted /\ r.answer = "none"
  BY <1>1 DEF RequestSet, Abortable
<1>3. page = [Fresh EXCEPT !.sent = @ + 1, !.reqs = @ \cup {r}]
  <2>1. /\ Fresh.sent + 1 = 1 /\ Fresh.auth = 0 /\ Fresh.active = FALSE /\ Fresh.mode = 0
    BY DEF Fresh
  <2> QED
    BY <2>1 DEF PageInit, Send
<1> HIDE DEF r
<1>4. Blank(page) /\ ~page.overlay /\ page.reqs = {r}
  <2>1. Fresh \in PageSet
    BY <1>1 DEF PageSet, Fresh, NoData
  <2>2. Blank(Fresh) /\ ~Fresh.overlay /\ Fresh.reqs = {} /\ Fresh.sent = 0
    BY <2>1 DEF Blank, Fresh, NoData
  <2>3. page = [Fresh EXCEPT !.sent = 1, !.reqs = {r}]
    BY <1>3, <2>2
  <2> QED
    BY <1>2, <2>2, <2>3 DEF Blank, PageSet
<1> QED
  BY <1>1, <1>2, <1>4 DEF Starting, StartsWith, FirstMe, PageInit

\* A step of a page that starts.
LEMMA StartingStep ==
  ASSUME Starting, PageNext
  PROVE  PageInv'
<1>1. PICK r : /\ page.reqs = {r} /\ FirstMe(r)
               /\ r.answer = "ok" /\ r.user = Nobody => session = Nobody
  BY DEF Starting, StartsWith
<1>2. Blank(page) /\ ~page.overlay /\ session \in {Nobody, owner} /\ owner \in People /\ session \in People
  BY DEF Starting, StartsWith, People
<1>3. /\ ~Lock /\ ~Mutate /\ ~Switch("load", "demo") /\ ~Switch("reset", "demo") /\ ~Switch("exit", "formal")
      /\ ~RefreshTimer /\ ~PollTimer /\ ~Reconnect /\ ~StreamEvent /\ ~StreamEnds
      /\ ~\E v \in Users : Login(v)
  BY <1>2 DEF Lock, Mutate, Switch, RefreshTimer, PollTimer, Reconnect, StreamEvent, StreamEnds, Login, MayClick, Blank
<1>4. CASE Expire
  <2>1. session' = Nobody /\ UNCHANGED <<page, owner, locked, adrift, demoFailed, byReset>>
    BY <1>4 DEF Expire, ghosts
  <2>2. Blank(page') /\ ~page'.overlay /\ page'.reqs = {r}
    BY <1>1, <1>2, <2>1
  <2>3. StartsWith(page', session', owner')
    BY <1>1, <1>2, <2>1, <2>2 DEF StartsWith
  <2>4. Starting'
    BY <2>1, <2>3 DEF Starting
  <2> QED
    BY <2>4 DEF PageInv
<1>5. CASE Serve(r)
  <2>1. r.answer = "none" /\ UNCHANGED <<session, owner, locked, adrift, demoFailed, byReset>>
    BY <1>1, <1>5 DEF Serve, FirstMe
  <2>2. \E a \in {"ok", "failed"}, u \in People : page' = Answered(r, a, u) /\ (a = "ok" => u = session)
    <3>1. r.user \in People
      BY <1>1 DEF FirstMe, RequestSet
    <3> QED
      BY <1>1, <1>2, <1>5, <3>1 DEF Serve, FirstMe
  <2>3. PICK a \in {"ok", "failed"}, u \in People : page' = Answered(r, a, u) /\ (a = "ok" => u = session)
    BY <2>2
  <2> DEFINE n == [r EXCEPT !.answer = a, !.user = u]
  <2>4. FirstMe(n) /\ n.answer = a /\ n.user = u
    BY <1>1, <2>3 DEF FirstMe, RequestSet
  <2>5. page' = [page EXCEPT !.reqs = {n}]
    BY <1>1, <2>3 DEF Answered
  <2> HIDE DEF n
  <2>6. Blank(page') /\ ~page'.overlay /\ page'.reqs = {n}
    BY <1>2, <2>4, <2>5 DEF Blank, PageSet, FirstMe
  <2>7. session' \in {Nobody, owner'} /\ owner' \in People
    BY <1>2, <2>1
  <2>8. n.answer = "ok" /\ n.user = Nobody => session' = Nobody
    BY <2>1, <2>3, <2>4
  <2>9. StartsWith(page', session', owner')
    BY <2>4, <2>6, <2>7, <2>8 DEF StartsWith
  <2>10. Starting'
    BY <2>1, <2>9 DEF Starting
  <2> QED
    BY <2>10 DEF PageInv
<1>6. CASE Deliver(r)
  <2> DEFINE w == [page EXCEPT !.reqs = @ \ {r}]
             q == [w EXCEPT !.active = r.answer = "ok" /\ r.user # Nobody]
             c == ShowAuth(q)
  <2>1. w = [page EXCEPT !.reqs = {}]
    BY <1>1
  <2>2. page' = Identified(w, r)
    BY <1>1, <1>6 DEF Deliver, Handled, FirstMe
  <2>3. /\ locked' = FALSE /\ demoFailed' = FALSE /\ byReset' = FALSE
        /\ adrift' = (r.answer # "ok") /\ session' = session /\ owner' = owner
    BY <1>1, <1>6 DEF Deliver, Starting, FirstMe
  <2>4. page' = IF q.active THEN LoadBootstrap(q, "start") ELSE c
    BY <1>1, <2>2 DEF Identified, FirstMe
  <2> HIDE DEF w
  <2>5. Blank(w) /\ w.reqs = {}
    BY <1>2, <2>1 DEF Blank, PageSet
  <2>6. Blank(q) /\ q.reqs = {} /\ q.active = (r.answer = "ok" /\ r.user # Nobody)
    BY <2>5 DEF Blank, PageSet
  <2> HIDE DEF q
  <2>7. Blank(c) /\ c.reqs = {}
    BY <2>6 DEF Blank, PageSet, ShowAuth
  <2> HIDE DEF c
  <2>8. adrift' \/ q.active \/ session = Nobody
    BY <1>1, <2>3, <2>6
  <2>9. CASE q.active
    <3>0. Switching(q) /\ NoLogin(q) /\ ~q.demo
      BY <2>6 DEF Switching, NoLogin, Blank
    <3>1. Sane(q, session, owner, FALSE, adrift', FALSE, FALSE)
      <4>1. Bare(q, session, owner, adrift')
        BY <1>2, <2>6, <2>8 DEF Bare
      <4> QED
        BY <4>1, BareKeeps
    <3>2. /\ Sane(LoadBootstrap(q, "start"), session, owner, FALSE, adrift', FALSE, FALSE)
          /\ SameView(q, LoadBootstrap(q, "start"))
          /\ NoTicket(LoadBootstrap(q, "start")) <=> (NoTicket(q) /\ "start" # "exit bootstrap")
      BY <3>0, <3>1, LoadBootstrapKeeps
    <3>3. Switching(LoadBootstrap(q, "start"))
      BY <3>0, <3>2 DEF Switching, SameView
    <3> QED
      BY <2>3, <2>4, <2>9, <3>2, <3>3 DEF PageInv, PageInvOn
  <2>10. CASE ~q.active
    <3>1. adrift' \/ c.active \/ session = Nobody
      BY <2>8, <2>10
    <3>2. Sane(c, session, owner, FALSE, adrift', FALSE, FALSE)
      <4>1. Bare(c, session, owner, adrift')
        BY <1>2, <2>7, <3>1 DEF Bare
      <4> QED
        BY <4>1, BareKeeps
    <3>3. Switching(c)
      BY <2>7 DEF Switching, Blank
    <3> QED
      BY <2>3, <2>4, <2>10, <3>2, <3>3 DEF PageInv, PageInvOn
  <2> QED
    BY <2>9, <2>10
<1> QED
  BY <1>1, <1>3, <1>4, <1>5, <1>6 DEF PageNext

\* The login form is sent.
LEMMA LoginKeeps ==
  ASSUME PageInvOn, NEW u \in Users, Login(u)
  PROVE  PageInvOn'
<1> DEFINE n0 == Outgoing(page, "login", "login", Nobody)
           n == [n0 EXCEPT !.user = u]
           q0 == Send(page, "login", "login")
<1>0. Sane(page, session, owner, locked, adrift, demoFailed, byReset) /\ Switching(page) /\ u \in People
  BY DEF PageInvOn, People
<1>1. /\ page \in PageSet /\ page.sent \in Nat /\ page.auth \in Nat /\ page.mode \in Nat /\ page.active \in BOOLEAN
      /\ page.reqs \subseteq RequestSet /\ \A r \in page.reqs : r.id <= page.sent /\ r.id \in Nat
  BY <1>0 DEF Sane, Typed, PageSet, RequestSet
<1>2. /\ page.overlay /\ NoLogin(page) /\ adrift' = (adrift \/ page.active)
      /\ page' = [q0 EXCEPT !.reqs = {IF r.id = page.sent + 1 THEN [r EXCEPT !.user = u] ELSE r : r \in @}]
      /\ UNCHANGED <<session, owner, locked, demoFailed, byReset>>
  BY DEF Login, NoLogin
<1>3. q0 = [page EXCEPT !.sent = @ + 1, !.reqs = @ \cup {n0}]
  BY DEF Send, Outgoing
<1>4. n0.id = page.sent + 1 /\ n0 \in RequestSet /\ IsSent(n0, page, "login", "login")
  <2>1. page.sent + 1 \in Nat /\ Nobody \in People
    BY <1>1 DEF People
  <2> QED
    BY <1>1, <2>1 DEF Outgoing, RequestSet, IsSent
<1> HIDE DEF n0
<1>5. n \in RequestSet /\ IsSent(n, page, "login", "login")
  BY <1>0, <1>4 DEF RequestSet, IsSent
<1>6. {IF r.id = page.sent + 1 THEN [r EXCEPT !.user = u] ELSE r : r \in page.reqs \cup {n0}} = page.reqs \cup {n}
  <2>1. \A r \in page.reqs : r.id # page.sent + 1
    BY <1>1
  <2> QED
    BY <1>4, <2>1
<1> HIDE DEF n
<1>7. page.reqs \cup {n} \in SUBSET RequestSet /\ page.sent + 1 \in Nat
  BY <1>1, <1>5
<1>8. page' = [page EXCEPT !.sent = page.sent + 1, !.reqs = page.reqs \cup {n}]
  <2>1. q0.reqs = page.reqs \cup {n0}
    BY <1>1, <1>3 DEF PageSet
  <2> QED
    BY <1>1, <1>2, <1>3, <1>6, <2>1 DEF PageSet
<1> DEFINE q == [page EXCEPT !.sent = page.sent + 1, !.reqs = page.reqs \cup {n}]
<1>9. /\ q \in PageSet /\ SameView(page, q) /\ page.refresh = q.refresh /\ q.sent = page.sent + 1
      /\ q.reqs = page.reqs \cup {n}
  BY <1>1, <1>7 DEF PageSet, SameView
<1>10. Sane(page, session, owner, locked, adrift', demoFailed, byReset)
  <2>1. adrift => adrift'
    BY <1>2
  <2> QED
    BY <1>0, <2>1, GhostsGrow
<1>11. MaySend(page, "login", "login", adrift')
  BY <1>1, <1>2 DEF MaySend, Waits, Ends, TicketFits
<1> HIDE DEF q
<1>12. /\ Sane(q, session, owner, locked, adrift', demoFailed, byReset)
       /\ NoTicket(q) <=> (NoTicket(page) /\ ~Ends("login", "login"))
  BY <1>5, <1>9, <1>10, <1>11, SentKeeps
<1>13. Switching(q)
  BY <1>0, <1>9, <1>12 DEF Switching, SameView, Ends
<1> QED
  BY <1>2, <1>8, <1>12, <1>13 DEF PageInvOn, q

\* A handler that only loads: it leaves the mode and its ticket as they are.
LEMMA LoadedHolds ==
  ASSUME PageInvOn, UNCHANGED <<session, ghosts>>,
         Sane(page', session, owner, locked, adrift, demoFailed, byReset), page'.target = page.target,
         NoTicket(page') <=> NoTicket(page)
  PROVE  PageInvOn'
BY DEF PageInvOn, ghosts, Switching

\* The lock button.
LEMMA LockKeeps ==
  ASSUME PageInvOn, Lock
  PROVE  PageInvOn'
<1>0. Sane(page, session, owner, locked, adrift, demoFailed, byReset) /\ Switching(page)
  BY DEF PageInvOn
<1>1. UNCHANGED <<session, owner, locked, demoFailed, byReset>>
  BY DEF Lock
<1>2. CASE Blocked(page)
  <2>1. page' = Locked(page) /\ adrift' = TRUE
    BY <1>2 DEF Lock
  <2>2. (locked => session = Nobody) /\ (~TRUE => session = Nobody)
    BY <1>0 DEF Sane, Accounted
  <2>3. Sane(Locked(page), session, owner, locked, TRUE, demoFailed, byReset) /\ Switching(Locked(page))
    BY <1>0, <2>2, LockedKeeps
  <2> QED
    BY <1>1, <2>1, <2>3 DEF PageInvOn
<1>3. CASE ~Blocked(page)
  <2>1. page' = Send(page, "logout", "") /\ UNCHANGED adrift
    BY <1>3 DEF Lock
  <2>2. MaySend(page, "logout", "", adrift)
    BY <1>3 DEF MaySend, Waits, Ends, TicketFits, Blocked, Abortable
  <2>3. /\ Sane(Send(page, "logout", ""), session, owner, locked, adrift, demoFailed, byReset)
        /\ SameView(page, Send(page, "logout", ""))
        /\ NoTicket(Send(page, "logout", "")) <=> (NoTicket(page) /\ ~Ends("logout", ""))
    BY <1>0, <2>2, SendKeeps
  <2> QED
    BY <1>1, <2>1, <2>3, LoadedHolds DEF SameView, Ends, ghosts
<1> QED
  BY <1>2, <1>3

\* A formal write, a timer, an event of the stream or its end.
LEMMA MutateKeeps ==
  ASSUME PageInvOn, Mutate
  PROVE  PageInvOn'
<1>1. page' = Send(page, "mutation", "") /\ UNCHANGED <<session, ghosts>>
  BY DEF Mutate
<1>2. MaySend(page, "mutation", "", adrift)
  BY DEF Mutate, MaySend, Waits, Ends, TicketFits, Blocked, Abortable
<1>3. /\ Sane(Send(page, "mutation", ""), session, owner, locked, adrift, demoFailed, byReset)
      /\ SameView(page, Send(page, "mutation", ""))
      /\ NoTicket(Send(page, "mutation", "")) <=> (NoTicket(page) /\ ~Ends("mutation", ""))
  BY <1>2, SendKeeps DEF PageInvOn
<1> QED
  BY <1>1, <1>3, LoadedHolds DEF SameView, Ends

LEMMA LoadingKeeps ==
  ASSUME PageInvOn, RefreshTimer \/ PollTimer \/ Reconnect \/ StreamEvent \/ StreamEnds
  PROVE  PageInvOn'
<1>0. Sane(page, session, owner, locked, adrift, demoFailed, byReset) /\ UNCHANGED <<session, ghosts>>
  BY DEF PageInvOn, RefreshTimer, PollTimer, Reconnect, StreamEvent, StreamEnds
<1>1. CASE page' = LoadBootstrap(page, "")
  <2>1. /\ Sane(LoadBootstrap(page, ""), session, owner, locked, adrift, demoFailed, byReset)
        /\ SameView(page, LoadBootstrap(page, ""))
        /\ NoTicket(LoadBootstrap(page, "")) <=> (NoTicket(page) /\ "" # "exit bootstrap")
    BY <1>0, LoadBootstrapKeeps
  <2> QED
    BY <1>0, <1>1, <2>1, LoadedHolds DEF SameView
<1>2. CASE page' = LoadBoard(page)
  <2>1. /\ Sane(LoadBoard(page), session, owner, locked, adrift, demoFailed, byReset)
        /\ SameView(page, LoadBoard(page)) /\ SameChains(page, LoadBoard(page))
    BY <1>0, LoadBoardKeeps
  <2> QED
    BY <1>0, <1>2, <2>1, LoadedHolds DEF SameView, SameChains
<1>3. CASE page' = ConnectEvents(page)
  <2>1. /\ Sane(ConnectEvents(page), session, owner, locked, adrift, demoFailed, byReset)
        /\ SameView(page, ConnectEvents(page)) /\ SameChains(page, ConnectEvents(page))
    BY <1>0, ConnectEventsKeeps
  <2> QED
    BY <1>0, <1>3, <2>1, LoadedHolds DEF SameView, SameChains
<1>4. CASE page' = [page EXCEPT !.events = "retry"]
  <2> DEFINE q == [page EXCEPT !.events = "retry"]
  <2>1. q \in PageSet /\ SameView(page, q) /\ q.reqs = page.reqs /\ q.sent = page.sent /\ q.refresh = page.refresh
    BY <1>0 DEF Sane, Typed, PageSet, SameView
  <2> HIDE DEF q
  <2>2. Sane(q, session, owner, locked, adrift, demoFailed, byReset) /\ SameChains(page, q)
    BY <1>0, <2>1, Retuned
  <2> QED
    BY <1>0, <1>4, <2>1, <2>2, LoadedHolds DEF SameView, SameChains, q
<1> QED
  BY <1>1, <1>2, <1>3, <1>4 DEF RefreshTimer, PollTimer, Reconnect, StreamEvent, StreamEnds

\* A button that switches the mode.
LEMMA ModeKeeps ==
  ASSUME PageInvOn, NEW kind, NEW target,
         <<kind, target>> \in {<<"load", "demo">>, <<"reset", "demo">>, <<"exit", "formal">>}, Switch(kind, target)
  PROVE  PageInvOn'
<1>1. /\ BeginTransition(page, target) # page /\ page' = Send(BeginTransition(page, target), kind, "")
      /\ UNCHANGED <<session, ghosts>>
  BY DEF Switch
<1>2. Switches(kind, target) /\ Sane(page, session, owner, locked, adrift, demoFailed, byReset)
  BY DEF PageInvOn, Switches
<1>3. LET q == Send(BeginTransition(page, target), kind, "")
      IN Sane(q, session, owner, locked, adrift, demoFailed, byReset) /\ Switching(q)
  BY <1>1, <1>2, SwitchKeeps
<1> QED
  BY <1>1, <1>3 DEF PageInvOn, ghosts

\* The session ends at the server.
LEMMA ExpireKeeps ==
  ASSUME PageInvOn, Expire
  PROVE  PageInvOn'
<1>1. Sane(page, Nobody, owner, locked, adrift, demoFailed, byReset)
  BY SessionEnds DEF PageInvOn
<1> QED
  BY <1>1 DEF Expire, PageInvOn, ghosts

LEMMA PageStep ==
  ASSUME PageInvOn, PageNext
  PROVE  PageInvOn'
<1>1. CASE \E u \in Users : Login(u)
  BY <1>1, LoginKeeps
<1>2. CASE Lock
  BY <1>2, LockKeeps
<1>3. CASE Mutate
  BY <1>3, MutateKeeps
<1>4. CASE RefreshTimer \/ PollTimer \/ Reconnect \/ StreamEvent \/ StreamEnds
  BY <1>4, LoadingKeeps
<1>5. CASE Expire
  BY <1>5, ExpireKeeps
<1>6. CASE Switch("load", "demo")
  BY <1>6, ModeKeeps
<1>7. CASE Switch("reset", "demo")
  BY <1>7, ModeKeeps
<1>8. CASE Switch("exit", "formal")
  BY <1>8, ModeKeeps
<1>9. CASE \E r \in page.reqs : Serve(r) \/ Deliver(r)
  BY <1>9, ServeKeeps, DeliverKeeps
<1> QED
  BY <1>1, <1>2, <1>3, <1>4, <1>5, <1>6, <1>7, <1>8, <1>9 DEF PageNext

\* What the invariant says of the page: it never uncovers the holdings of an account that another one has replaced
\* unless a logout or a login was left half done, a lock holds until the next login, formal writes are under way in
\* formal mode only, and a mode shows its own data and waits for a request while it switches.
LEMMA SaneIsSound ==
  ASSUME PageInv
  PROVE  PageSound
<1>1. CASE Starting
  BY <1>1 DEF Starting, StartsWith, Blank, FirstMe, PageSound, PrivateView, LockHolds, WritesAreFormal, DemoIsolated,
     FormalIsLive, SwitchEnds, Mutating, Blocked
<1>2. CASE PageInvOn
  <2>0. /\ Typed(page) /\ Chained(page) /\ Accounted(page, session, owner, locked, adrift)
        /\ Switched(page, demoFailed, byReset) /\ Switching(page) /\ page.data.kind \in {"none", "formal", "demo"}
    BY <1>2 DEF PageInvOn, Sane, Typed, PageSet
  <2>1. PrivateView /\ LockHolds
    BY <2>0 DEF Accounted, PrivateView, LockHolds
  <2>2. WritesAreFormal
    BY <2>0 DEF Switched, WritesAreFormal, Mutating, Blocked
  <2>3. DemoIsolated /\ FormalIsLive
    BY <2>0 DEF Switched, DemoIsolated, FormalIsLive
  <2>4. SwitchEnds
    BY <2>0 DEF Switching, NoTicket, Ticket, Ends, SwitchEnds
  <2> QED
    BY <2>1, <2>2, <2>3, <2>4 DEF PageSound
<1> QED
  BY <1>1, <1>2 DEF PageInv

\* Whatever is answered late, and whoever logs in, locks, switches the mode or expires meanwhile: the page uncovers
\* no other account's data, stays locked until the next login, writes in formal mode only and shows a mode's own data.
THEOREM PageIsSound == PageSpec => []PageSound
<1>1. PageInit => PageInv
  BY StartHolds DEF PageInv
<1>2. PageInv /\ [PageNext]_sessionVars => PageInv'
  <2> SUFFICES ASSUME PageInv, [PageNext]_sessionVars
               PROVE  PageInv'
    OBVIOUS
  <2>1. CASE UNCHANGED sessionVars
    BY <2>1 DEF sessionVars, PageInv, PageInvOn, Starting
  <2>2. CASE Starting /\ PageNext
    BY <2>2, StartingStep
  <2>3. CASE PageInvOn /\ PageNext
    BY <2>3, PageStep DEF PageInv
  <2> QED
    BY <2>1, <2>2, <2>3 DEF PageInv
<1>3. PageInv => PageSound
  BY SaneIsSound
<1> QED
  BY <1>1, <1>2, <1>3, PTL DEF PageSpec
=============================================================================
