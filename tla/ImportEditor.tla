----------------------------- MODULE ImportEditor -----------------------------
(***************************************************************************)
(* The review of a holdings screenshot in the browser (static/app.js): the *)
(* user corrects candidates while earlier corrections are still on their   *)
(* way, then confirms or cancels.  Corrections wait for a short timer, are *)
(* sent one after another, and the confirmation carries no values: the     *)
(* server writes the ones it has.  The server's side is ScreenshotImport.  *)
(***************************************************************************)
EXTENDS Integers, FiniteSets, Sequences

CONSTANTS Cards,        \* candidates of a screenshot
          MaxUploads,   \* bound: uploads
          MaxEdits,     \* bound: corrections
          MaxTurns      \* bound: generations of the workflow the user begins

EditorAssumption == MaxUploads \in Nat /\ MaxEdits \in Nat /\ MaxTurns \in Nat

VARIABLES flow,      \* state.holdingImport and the maps of saves beside it
          net,       \* requests in flight
          server,    \* sessions at the server
          edits,     \* corrections made: the next one's value
          clicked,   \* what the screen showed when a session's confirmation was clicked
          lateEdits, \* candidates corrected after that
          regretted, \* sessions whose cancellation failed
          heard      \* what the user was told of a session

editorVars == <<flow, net, server, edits, clicked, lateEdits, regretted, heard>>

Sessions == 1..MaxUploads

\* A correction's value is its number; 0 is what the recognition found, not reviewed yet.
Rejected == -1
Broken == -2     \* fails validateImportPayload
Unread == [c \in Cards |-> 0]

\* resetImportWorkflow; gen counts the generations of the workflow.
IdleFlow(gen) ==
  [gen |-> gen, session |-> 0, uploading |-> FALSE, busy |-> FALSE, canceling |-> FALSE, cancelError |-> FALSE, dialog |-> FALSE,
   cards |-> Unread, screen |-> Unread, version |-> Unread, pend |-> [c \in {} |-> 0], errors |-> {},
   queue |-> <<>>, queued |-> Unread, running |-> <<>>]

EditorInit ==
  /\ flow = IdleFlow(0)
  /\ net = {}
  /\ server = [s \in Sessions |-> [state |-> "none", values |-> Unread]]
  /\ edits = 0
  /\ clicked = [s \in Sessions |-> <<>>]
  /\ lateEdits = {} /\ regretted = {} /\ heard = [s \in Sessions |-> "nothing"]

Request(kind, c, value, version) ==
  [kind |-> kind, gen |-> flow.gen, session |-> flow.session, card |-> c, value |-> value, version |-> version, answer |-> "none"]

(***************************************************************************)
(* Saving corrections.                                                     *)
(***************************************************************************)
Waiting(w) == DOMAIN w.pend
\* inflightSavePromises: saves queued or under way
Saving(w) == {w.queue[i][1] : i \in DOMAIN w.queue} \cup (IF w.running = <<>> THEN {} ELSE {w.running[1]})

\* enqueueSessionPatch
QueueSave(w, c, version) ==
  IF c \in Saving(w) /\ w.queued[c] >= version THEN w
  ELSE [w EXCEPT !.queue = Append(@, <<c, version>>), !.queued[c] = version]

WithPend(w, c, value, timer) ==
  [w EXCEPT !.pend = [x \in (DOMAIN @) \cup {c} |-> IF x = c THEN [value |-> value, version |-> w.version[c], timer |-> timer] ELSE @[x]]]

WithoutPend(w, c) == [w EXCEPT !.pend = [x \in (DOMAIN @) \ {c} |-> @[x]]]

\* A correction is a new version of the card, and its old error is gone.
Bumped(w, c, value) == [w EXCEPT !.version[c] = @ + 1, !.errors = @ \ {c}, !.screen[c] = value]

\* clearTimeout: the record of the earlier correction stays.
Stopped(w, c) == [w EXCEPT !.pend[c].timer = FALSE]

Marked(w, c) == [w EXCEPT !.errors = @ \cup {c}]

\* scheduleImportCandidateSave reads the card's fields as they are on the screen.  A broken number is
\* an error at once.
Scheduled(c, value) ==
  LET w == Bumped(flow, c, value)
      stopped == IF c \in Waiting(w) THEN Stopped(w, c) ELSE w
  IN IF value = Broken THEN Marked(stopped, c) ELSE WithPend(stopped, c, value, TRUE)

\* queueImportCandidateSave with {action: 'reject'} skips the timer.
RejectedAtOnce(c) ==
  LET w == Bumped(flow, c, Rejected) IN QueueSave(WithPend(w, c, Rejected, FALSE), c, w.version[c])

EditCard(c, value) ==
  /\ flow.session # 0 /\ ~flow.canceling
  /\ edits < MaxEdits
  /\ edits' = edits + 1
  /\ flow' = IF value = Rejected THEN RejectedAtOnce(c) ELSE Scheduled(c, value)
  /\ lateEdits' = IF clicked[flow.session] = <<>> THEN lateEdits ELSE lateEdits \cup {<<flow.session, c>>}
  /\ UNCHANGED <<net, server, clicked, regretted, heard>>

\* The 280 ms are over: flushCandidateSave.
TimerFires(c) ==
  /\ c \in Waiting(flow) /\ flow.pend[c].timer
  /\ flow' = QueueSave(Stopped(flow, c), c, flow.pend[c].version)
  /\ UNCHANGED <<net, server, edits, clicked, lateEdits, regretted, heard>>

Dequeued(w) == [w EXCEPT !.queue = Tail(@)]
Sent(w, c) == [WithoutPend(Dequeued(w), c) EXCEPT !.running = <<c, w.pend[c].version>>]

\* The next save of the queue sends the latest correction of its candidate, if one still waits.
RunNext ==
  LET c == Head(flow.queue)[1] IN
  /\ flow.running = <<>> /\ flow.queue # <<>>
  /\ IF c \in Waiting(flow) /\ flow.pend[c].version >= Head(flow.queue)[2]
     THEN /\ flow' = Sent(flow, c)
          /\ net' = net \cup {Request("patch", c, flow.pend[c].value, flow.pend[c].version)}
     ELSE flow' = Dequeued(flow) /\ UNCHANGED net
  /\ UNCHANGED <<server, edits, clicked, lateEdits, regretted, heard>>

\* renderImportReview rebuilds every card from the answers.
Render(w) == [w EXCEPT !.screen = w.cards]

\* The finally of a save: a correction made meanwhile is queued.
SaveEnds(w, c, version) ==
  LET q == [w EXCEPT !.running = <<>>, !.queued[c] = IF @ = version THEN 0 ELSE @] IN
  IF c \in Waiting(q) THEN QueueSave(q, c, q.pend[c].version) ELSE q

\* The server's candidate replaces the page's.
Kept(w, c, value) == [w EXCEPT !.cards[c] = value, !.errors = @ \ {c}]

\* Only the answer of the latest correction counts.
Saved(r) ==
  LET w == IF flow.version[r.card] # r.version THEN flow
           ELSE Render(IF r.answer = "ok" THEN Kept(flow, r.card, r.value) ELSE Marked(flow, r.card))
  IN SaveEnds(w, r.card, r.version)

(***************************************************************************)
(* Upload, confirmation, cancellation.                                     *)
(***************************************************************************)

\* importConfirmState
Ready(w) == /\ w.session # 0 /\ ~w.busy
            /\ Waiting(w) = {} /\ Saving(w) = {} /\ w.errors = {}
            /\ \A c \in Cards : w.cards[c] # 0

\* uploadPortfolioImport: not while a cancellation is under way.
Upload ==
  /\ flow.session = 0 \/ flow.cancelError
  /\ ~flow.uploading /\ ~flow.canceling /\ flow.gen < MaxTurns
  /\ \E s \in Sessions : server[s].state = "none"
  /\ flow' = [IdleFlow(flow.gen + 1) EXCEPT !.uploading = TRUE]
  /\ net' = net \cup {[Request("upload", 0, 0, 0) EXCEPT !.gen = flow.gen + 1, !.session = 0]}
  /\ UNCHANGED <<server, edits, clicked, lateEdits, regretted, heard>>

\* requestPortfolioConfirm: the saves it waits for have ended when the button is enabled.
OpenDialog == /\ Ready(flow) /\ ~flow.dialog
              /\ flow' = [flow EXCEPT !.dialog = TRUE]
              /\ UNCHANGED <<net, server, edits, clicked, lateEdits, regretted, heard>>

CloseDialog == /\ flow.dialog /\ ~flow.busy /\ flow' = [flow EXCEPT !.dialog = FALSE]
               /\ UNCHANGED <<net, server, edits, clicked, lateEdits, regretted, heard>>

\* confirmPortfolioImport that trusts the dialog's earlier look.
ReadyAtDialog(w) == w.session # 0 /\ ~w.busy

\* confirmPortfolioImport looks again.
ReadyAgain(w) == Ready(w)

Confirm == /\ flow.dialog /\ ReadyAgain(flow)
           /\ flow' = [flow EXCEPT !.busy = TRUE]
           /\ net' = net \cup {Request("confirm", 0, 0, 0)}
           /\ clicked' = [clicked EXCEPT ![flow.session] = flow.screen]
           /\ lateEdits' = {x \in lateEdits : x[1] # flow.session}
           /\ UNCHANGED <<server, edits, regretted, heard>>

\* cancelPortfolioImport: every save and its request is given up; without a session nothing is sent.
CancelReview ==
  /\ (flow.session # 0 \/ flow.uploading) /\ ~flow.canceling /\ flow.gen < MaxTurns
  /\ IF flow.session = 0 THEN flow' = IdleFlow(flow.gen + 1) /\ UNCHANGED net
     ELSE /\ flow' = Render([IdleFlow(flow.gen + 1) EXCEPT !.session = flow.session, !.cards = flow.cards, !.busy = TRUE,
                                                       !.canceling = TRUE, !.dialog = flow.dialog])
          /\ net' = net \cup {[Request("cancel", 0, 0, 0) EXCEPT !.gen = flow.gen + 1]}
  /\ UNCHANGED <<server, edits, clicked, lateEdits, regretted, heard>>

\* A login, a logout or a mode switch: the workflow is forgotten.
Leave == /\ flow.session # 0 \/ flow.uploading
         /\ flow.gen < MaxTurns
         /\ flow' = IdleFlow(flow.gen + 1)
         /\ UNCHANGED <<net, server, edits, clicked, lateEdits, regretted, heard>>

(***************************************************************************)
(* The server, and the answers.                                            *)
(***************************************************************************)
Replied(r, answer) == net' = (net \ {r}) \cup {[r EXCEPT !.answer = answer]}

\* The server acts and its answer comes or is lost, refuses, or is never reached.
ServerActs(r) ==
  LET s == r.session IN
  /\ r.answer = "none"
  /\ \/ /\ r.kind = "upload"
        /\ \E new \in Sessions :
             /\ server[new].state = "none" /\ \A old \in 1..(new - 1) : server[old].state # "none"
             /\ server' = [server EXCEPT ![new].state = "open"]
             /\ \/ net' = (net \ {r}) \cup {[r EXCEPT !.answer = "ok", !.session = new]}
                \/ Replied(r, "failed")
     \/ /\ r.kind # "upload" /\ server[s].state = "open"
        /\ server' = CASE r.kind = "patch" -> [server EXCEPT ![s].values[r.card] = r.value]
                       [] r.kind = "confirm" -> [server EXCEPT ![s].state = "confirmed"]
                       [] r.kind = "cancel" -> [server EXCEPT ![s].state = "canceled"]
        /\ Replied(r, "ok") \/ Replied(r, "failed")
     \/ Replied(r, "failed") /\ UNCHANGED server
  /\ UNCHANGED <<flow, edits, clicked, lateEdits, regretted, heard>>

\* isImportCurrent: an answer of an earlier generation changes nothing.
Stale(r) == r.gen # flow.gen

AnswerArrives(r) ==
  LET s == r.session IN
  /\ r.answer # "none"
  /\ net' = net \ {r}
  /\ flow' = CASE Stale(r) -> flow
               [] ~Stale(r) /\ r.kind = "upload" ->
                    IF r.answer = "ok" THEN [flow EXCEPT !.uploading = FALSE, !.session = s]
                    ELSE [flow EXCEPT !.uploading = FALSE]
               [] ~Stale(r) /\ r.kind = "patch" -> Saved(r)
               [] ~Stale(r) /\ r.kind = "confirm" ->
                    IF r.answer = "ok" THEN IdleFlow(flow.gen + 1) ELSE Render([flow EXCEPT !.busy = FALSE])
               [] ~Stale(r) /\ r.kind = "cancel" ->
                    IF r.answer = "ok" THEN IdleFlow(flow.gen + 1)
                    ELSE Render([flow EXCEPT !.busy = FALSE, !.canceling = FALSE, !.cancelError = TRUE])
  /\ heard' = IF ~Stale(r) /\ r.answer = "ok" /\ r.kind \in {"confirm", "cancel"}
             THEN [heard EXCEPT ![s] = r.kind] ELSE heard
  /\ regretted' = IF r.kind = "cancel" /\ r.answer = "failed" THEN regretted \cup {s} ELSE regretted
  /\ UNCHANGED <<server, edits, clicked, lateEdits>>

EditorNext ==
  \/ \E c \in Cards : EditCard(c, edits + 1) \/ EditCard(c, Broken) \/ EditCard(c, Rejected) \/ TimerFires(c)
  \/ RunNext \/ Upload \/ OpenDialog \/ CloseDialog \/ Confirm \/ CancelReview \/ Leave
  \/ \E r \in net : ServerActs(r) \/ AnswerArrives(r)

EditorSpec == EditorInit /\ [][EditorNext]_editorVars

(***************************************************************************)
(* Properties.                                                             *)
(***************************************************************************)

\* Whenever the page offers the confirmation, the server has what the screen shows, unless a
\* cancellation of the session failed before.
SavedIsShown == Ready(flow) /\ flow.session \notin regretted => server[flow.session].values = flow.screen

\* What a confirmation wrote is what the screen showed at the click; a candidate corrected after the
\* click may have either value.
ConfirmedIsShown ==
  \A s \in Sessions \ regretted :
    server[s].state = "confirmed" => \A c \in Cards : <<s, c>> \in lateEdits \/ server[s].values[c] = clicked[s][c]

\* The user is told of a confirmation or a cancellation only if it happened.
ToldIsTrue == \A s \in Sessions : /\ heard[s] = "confirm" => server[s].state = "confirmed"
                                  /\ heard[s] = "cancel" => server[s].state = "canceled"

\* Corrections are sent one at a time, and one that waits is under its timer, queued, or the field
\* is marked as broken.
NoneStranded ==
  /\ Cardinality({r \in net : r.kind = "patch" /\ ~Stale(r)}) =< 1
  /\ \A c \in Waiting(flow) : flow.pend[c].timer \/ c \in Saving(flow) \/ c \in flow.errors

EditorSound == SavedIsShown /\ ConfirmedIsShown /\ ToldIsTrue /\ NoneStranded
=============================================================================
