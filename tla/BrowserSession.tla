---------------------------- MODULE BrowserSession ----------------------------
(***************************************************************************)
(* The browser page (static/app.js): one account after another uses it, it *)
(* shows formal or demonstration data, and everything it knows arrives in  *)
(* answers that may be late, lost, or meant for an earlier account or      *)
(* mode.  A handler runs to its next await without interruption; a request *)
(* carries what the page was when it was sent.                             *)
(***************************************************************************)
EXTENDS Integers, FiniteSets

CONSTANTS Users,    \* accounts
          Nobody,   \* no account
          Reads,    \* background reads an instance follows, of "board", "settings" and "events"
          Demo,     \* whether the demonstration's buttons are used
          MaxSent,  \* bound: requests of one behaviour
          MaxFlight \* bound: the user and the timers act with fewer requests in flight

SessionAssumption == Demo \in BOOLEAN /\ Nobody \notin Users /\ MaxSent \in Nat /\ MaxFlight \in Nat /\ Reads \subseteq {"board", "settings", "events"}

VARIABLES session,    \* whose session the browser's cookie names
          page,       \* the object `state` of app.js, and the requests in flight
          owner,      \* who logged in last
          locked,     \* the lock button ended the session and nobody has logged in since
          adrift,     \* a logout or the question who logged in failed, or a login overtook one
          demoFailed, \* a load or reset failed, or an exit pressed in formal mode
          byReset     \* demonstration mode was entered with the reset button

sessionVars == <<session, page, owner, locked, adrift, demoFailed, byReset>>

NoData == [kind |-> "none", user |-> Nobody]

\* Start: the page asks who it is.
Fresh == [active |-> FALSE, auth |-> 0, mode |-> 0, demo |-> FALSE, target |-> "", data |-> NoData, board |-> FALSE,
          overlay |-> FALSE, refresh |-> FALSE, poll |-> FALSE, events |-> "off", reqs |-> {}, sent |-> 0]

\* fetch: what the continuation needs is captured when the request is sent.
Send(p, kind, chain) ==
  [p EXCEPT !.sent = @ + 1,
            !.reqs = @ \cup {[id |-> p.sent + 1, kind |-> kind, chain |-> chain, auth |-> p.auth, active |-> p.active,
                              mode |-> p.mode, aborted |-> FALSE, answer |-> "none", user |-> Nobody]}]

\* A read in the background, if the instance follows its kind.
Read(p, kind) == IF kind \in Reads THEN Send(p, kind, "") ELSE p

\* AbortController.abort of the latest request of a kind; earlier ones have been aborted before.
AbortAll(p, kinds) == [p EXCEPT !.reqs = {IF r.kind \in kinds THEN [r EXCEPT !.aborted = TRUE] ELSE r : r \in @}]

PageInit ==
        /\ session \in {Nobody} \cup Users
        /\ page = Send(Fresh, "me", "start")
        /\ owner = session
        /\ locked = FALSE /\ adrift = FALSE /\ demoFailed = FALSE /\ byReset = FALSE

(***************************************************************************)
(* Loaders: the part before the first await.                               *)
(***************************************************************************)
ShowAuth(p) == [p EXCEPT !.overlay = TRUE]

LoadBoard(p) == IF p.demo \/ p.target # "" THEN p ELSE Read(AbortAll(p, {"board"}), "board")

LoadSettings(p, chain) ==
  IF p.demo \/ p.target = "demo" THEN p
  ELSE LET q == AbortAll(p, {"settings"}) IN IF chain = "" THEN Read(q, "settings") ELSE Send(q, "settings", chain)

ConnectEvents(p) ==
  LET q == [AbortAll(p, {"events"}) EXCEPT !.events = "off"] IN IF p.target # "" THEN q ELSE Read(q, "events")

\* What follows the first bootstrap after a login or a page load.
AfterLogin(p) == IF p.active THEN LoadSettings(ConnectEvents(p), "") ELSE p

LoadDemo(p, chain) == Send(AbortAll(p, {"demo"}), "demo", chain)

LoadBootstrap(p, chain) ==
  CASE p.target # "" /\ ~(p.target = "formal" /\ ~p.demo) -> IF chain = "login" THEN AfterLogin(p) ELSE p
    [] p.target = "" /\ p.demo -> LoadDemo(p, chain)
    [] OTHER -> Send(AbortAll(p, {"bootstrap", "reports"}), "bootstrap", chain)

\* advanceAuthRequestGeneration
AdvanceAuth(p) == [AbortAll(p, {"bootstrap", "reports", "settings", "events"}) EXCEPT !.auth = @ + 1, !.events = "off"]

Mutating(p) == {r \in p.reqs : r.kind \in {"mutation", "logout"}}

\* beginModeTransition: only one at a time and not during a formal write; the page itself otherwise.
BeginTransition(p, target) ==
  IF p.target # "" \/ Mutating(p) # {} THEN p
  ELSE [AbortAll(p, {"bootstrap", "reports", "demo", "settings", "board", "events"})
          EXCEPT !.mode = @ + 1, !.target = target, !.refresh = FALSE, !.poll = FALSE, !.events = "off"]

(***************************************************************************)
(* The user, the timers and the server.                                    *)
(***************************************************************************)
ghosts == <<owner, locked, adrift, demoFailed, byReset>>

May == page.sent < MaxSent /\ Cardinality(page.reqs) < MaxFlight

\* The login overlay covers every button, and the user acts on a page that shows something.
MayClick == May /\ ~page.overlay /\ page.data.kind # "none"

\* The login form; the user waits for it to finish, but may log in again before data are shown.
Login(u) == /\ May /\ page.overlay
            /\ \A r \in page.reqs : r.chain # "login"
            /\ page' = [Send(page, "login", "login") EXCEPT !.reqs = {IF r.id = page.sent + 1 THEN [r EXCEPT !.user = u] ELSE r : r \in @}]
            /\ adrift' = (adrift \/ page.active)
            /\ UNCHANGED <<session, owner, locked, demoFailed, byReset>>

\* api: a formal write is refused in demonstration mode and during a mode switch.
Blocked(p) == p.demo \/ p.target # ""

Locked(p) == ShowAuth(AdvanceAuth([p EXCEPT !.active = FALSE]))

Lock == /\ MayClick
        /\ IF Blocked(page) THEN page' = Locked(page) /\ adrift' = TRUE
           ELSE page' = Send(page, "logout", "") /\ UNCHANGED adrift
        /\ UNCHANGED <<session, owner, locked, demoFailed, byReset>>

\* saveHolding, deleteHolding, runTask, submitBoardFund, the settings forms
Mutate == MayClick /\ ~Blocked(page) /\ page' = Send(page, "mutation", "") /\ UNCHANGED <<session, ghosts>>

\* Buttons: enterDemoMode, resetDemoMode, exitDemoMode
Switch(kind, target) ==
  LET p == BeginTransition(page, target) IN
  Demo /\ MayClick /\ p # page /\ page' = Send(p, kind, "") /\ UNCHANGED <<session, ghosts>>

\* The intervals of scheduleBrowserRefresh and scheduleDecisionStatusPoll, the reconnect timeout,
\* and an event of the stream.
RefreshTimer == May /\ page.refresh /\ page.target = "" /\ page' = LoadBootstrap(page, "") /\ UNCHANGED <<session, ghosts>>
PollTimer == May /\ page.poll /\ page' = LoadBoard(page) /\ UNCHANGED <<session, ghosts>>
Reconnect == May /\ page.events = "retry" /\ page' = ConnectEvents(page) /\ UNCHANGED <<session, ghosts>>
StreamEvent == May /\ page.events = "on" /\ page' = LoadBoard(page) /\ UNCHANGED <<session, ghosts>>
StreamEnds == /\ page.events = "on"
              /\ page' = [page EXCEPT !.events = "retry"] /\ UNCHANGED <<session, ghosts>>

\* The session ends at the server.
Expire == session # Nobody /\ session' = Nobody /\ UNCHANGED <<page, ghosts>>

Answered(r, answer, user) == [page EXCEPT !.reqs = (@ \ {r}) \cup {[r EXCEPT !.answer = answer, !.user = user]}]

\* The server answers, or the network fails before it does.  What the server does with an
\* aborted read makes no difference.
Serve(r) ==
  /\ r.answer = "none" /\ ~r.aborted
  /\ \/ /\ r.kind = "login" /\ session' = r.user /\ owner' = r.user /\ locked' = FALSE
        /\ page' = Answered(r, "ok", r.user)
     \/ /\ r.kind = "logout" /\ session' = Nobody /\ page' = Answered(r, "ok", Nobody) /\ UNCHANGED <<owner, locked>>
     \/ /\ r.kind \notin {"login", "logout"}
        /\ page' = Answered(r, IF session = Nobody /\ r.kind # "me" THEN "401" ELSE "ok",
                            IF r.kind = "reports" THEN r.user ELSE session)
        /\ UNCHANGED <<session, owner, locked>>
     \/ page' = Answered(r, "failed", r.user) /\ UNCHANGED <<session, owner, locked>>
  /\ UNCHANGED <<adrift, demoFailed, byReset>>

(***************************************************************************)
(* Continuations: an answer reaches the page.                              *)
(***************************************************************************)

\* modeRequestCurrent with the checks of the account around it.
CurrentMode(p, r, demo) == r.mode = p.mode /\ p.demo = demo /\ (p.target = "" \/ p.target = IF demo THEN "demo" ELSE "formal")

Current(p, r, demo) == r.auth = p.auth /\ r.active = p.active /\ CurrentMode(p, r, demo)

\* exitDemoMode after the formal reload: it has failed when the data are still the demonstration's.
ExitEnd(p) ==
  LET left == p.data.kind # "demo"
      q == [p EXCEPT !.target = "", !.demo = ~left]
  IN IF left THEN ConnectEvents([q EXCEPT !.refresh = TRUE]) ELSE q

Continue(p, chain) ==
  CASE chain = "login" -> AfterLogin(p)
    [] chain = "start" -> IF p.data.kind # "none"
                          THEN [LoadBoard(LoadSettings(ConnectEvents(p), "")) EXCEPT !.poll = TRUE] ELSE p
    [] chain = "exit settings" -> LoadBootstrap(p, "exit bootstrap")
    [] chain = "exit bootstrap" -> ExitEnd(p)
    [] OTHER -> p

\* api on 401: the session is over unless the page has changed accounts since.
Unauthorized(p, r) ==
  IF r.auth = p.auth /\ (r.kind = "events" => r.active = p.active) THEN ShowAuth([p EXCEPT !.active = FALSE]) ELSE p

\* refreshAuthIdentity, then what the login form or start does.
Identified(p, r) ==
  LET q == [p EXCEPT !.active = r.answer = "ok" /\ r.user # Nobody] IN
  CASE r.chain = "login" /\ r.answer = "ok" -> LoadBootstrap(AdvanceAuth(q), "login")
    [] r.chain = "login" /\ r.answer # "ok" -> p
    [] OTHER -> IF q.active THEN LoadBootstrap(q, "start") ELSE ShowAuth(q)

\* loadBootstrap after both reads; the list of reports may be missing.
Bootstrapped(p, r) ==
  IF ~Current(p, r, FALSE) THEN p
  ELSE [LoadBoard([p EXCEPT !.data = [kind |-> "formal", user |-> r.user], !.overlay = FALSE])
          EXCEPT !.poll = TRUE, !.refresh = TRUE]

Settled(p, r) == IF r.answer = "ok" /\ Current(p, r, FALSE) THEN [p EXCEPT !.refresh = TRUE] ELSE p

\* enterDemoMode and resetDemoMode after their request.
Entered(p, r) ==
  CASE r.answer = "ok" /\ r.kind = "load" ->
         [p EXCEPT !.demo = TRUE, !.data = [kind |-> "demo", user |-> Nobody], !.board = FALSE, !.target = ""]
    [] r.answer = "ok" /\ r.kind = "reset" ->
         [p EXCEPT !.demo = TRUE, !.data = [kind |-> "demo", user |-> Nobody], !.target = ""]
    [] r.answer # "ok" /\ r.kind = "load" -> ConnectEvents([p EXCEPT !.demo = FALSE, !.refresh = TRUE, !.target = ""])
    [] OTHER -> [p EXCEPT !.target = ""]

\* exitDemoMode after its reset: the formal settings, then the formal data.
Left(p, r) == IF r.answer = "ok" THEN LoadSettings([p EXCEPT !.demo = FALSE], "exit settings")
              ELSE [p EXCEPT !.demo = TRUE, !.target = ""]

\* A live answer of each kind; p has the effect of a 401 already.
Handled(p, r) ==
  CASE r.kind = "login" -> IF r.answer = "ok" THEN Send(p, "me", "login") ELSE p
    [] r.kind = "me" -> Identified(p, r)
    [] r.kind = "logout" -> Locked(p)
    [] r.kind = "bootstrap" ->
         IF r.answer = "ok"
         THEN [p EXCEPT !.reqs = @ \cup {[r EXCEPT !.kind = "reports", !.answer = "none"]}]
         ELSE Continue(p, r.chain)
    [] r.kind = "reports" -> Continue(Bootstrapped(p, r), r.chain)
    [] r.kind = "demo" ->
         Continue(IF r.answer = "ok" /\ Current(p, r, TRUE)
                  THEN [p EXCEPT !.data = [kind |-> "demo", user |-> Nobody], !.overlay = FALSE] ELSE p, r.chain)
    [] r.kind = "settings" -> Continue(Settled(p, r), r.chain)
    [] r.kind = "board" -> IF r.answer = "ok" THEN [p EXCEPT !.board = TRUE] ELSE p
    [] r.kind = "mutation" -> IF r.answer = "ok" THEN LoadBootstrap(p, "") ELSE p
    [] r.kind \in {"load", "reset"} -> Entered(p, r)
    [] r.kind = "exit" -> Left(p, r)
    [] r.kind = "events" -> CASE r.answer = "ok" -> [p EXCEPT !.events = "on"]
                              [] r.answer = "401" -> p
                              [] OTHER -> IF p.target = "" THEN [p EXCEPT !.events = "retry"] ELSE p

\* The answer arrives, or the abort is noticed: then only what awaits the loader goes on.
Deliver(r) ==
  LET p == [page EXCEPT !.reqs = @ \ {r}] IN
  /\ r.aborted \/ r.answer # "none"
  /\ page' = IF r.aborted THEN Continue(p, r.chain)
             ELSE Handled(IF r.answer = "401" THEN Unauthorized(p, r) ELSE p, r)
  /\ locked' = (locked \/ (r.kind = "logout" /\ session = Nobody))
  /\ adrift' = (adrift \/ (r.kind = "logout" /\ session # Nobody) \/ (r.kind = "me" /\ r.answer # "ok"))
  /\ demoFailed' = (demoFailed \/ (r.answer # "ok" /\ (r.kind \in {"load", "reset"} \/ (r.kind = "exit" /\ ~page.demo))))
  /\ byReset' = CASE r.kind = "reset" /\ r.answer = "ok" -> byReset \/ ~page.demo
                  [] r.kind = "load" /\ r.answer = "ok" -> FALSE
                  [] OTHER -> byReset
  /\ UNCHANGED <<session, owner>>

PageNext ==
        \/ \E u \in Users : Login(u)
        \/ Lock \/ Mutate \/ RefreshTimer \/ PollTimer \/ Reconnect \/ StreamEvent \/ StreamEnds \/ Expire
        \/ Switch("load", "demo") \/ Switch("reset", "demo") \/ Switch("exit", "formal")
        \/ \E r \in page.reqs : Serve(r) \/ Deliver(r)

PageSpec == PageInit /\ [][PageNext]_sessionVars

(***************************************************************************)
(* Properties.                                                             *)
(***************************************************************************)

\* Unless a logout or a login was left half done, the page never uncovers the holdings of an account that another one
\* has replaced, however late their answer is.
PrivateView == ~page.overlay /\ page.data.kind = "formal" /\ ~adrift => page.data.user = owner

\* After the lock button ended the session, only a login uncovers the page.
LockHolds == locked => page.overlay

\* A formal write is never under way in demonstration mode or during a switch.
WritesAreFormal == Mutating(page) # {} => ~Blocked(page)

\* As long as the demonstration answers, its mode shows its data, and its board is not a formal one unless the mode
\* was entered with the reset button.
DemoIsolated == page.demo /\ page.target = "" /\ ~demoFailed => page.data.kind = "demo" /\ (page.board => byReset)

\* As long as the demonstration answers, formal mode shows formal data and keeps them fresh.
FormalIsLive ==
  ~page.demo /\ page.target = "" /\ page.data.kind # "none" /\ ~demoFailed =>
    page.data.kind = "formal" /\ page.refresh

\* A mode switch that has not ended waits for a request.
SwitchEnds ==
  page.target # "" => \E r \in page.reqs : r.kind \in {"load", "reset", "exit"} \/ r.chain \in {"exit settings", "exit bootstrap"}

PageSound == PrivateView /\ LockHolds /\ WritesAreFormal /\ DemoIsolated /\ FormalIsLive /\ SwitchEnds
=============================================================================
