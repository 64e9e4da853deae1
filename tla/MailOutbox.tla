------------------------------ MODULE MailOutbox ------------------------------
(***************************************************************************)
(* The owner's mail outbox (backend/app/workspace/local_notifications.py), *)
(* the digests it carries (local_digest.py) and the dispatcher that fills  *)
(* and drains it (scripts/run_local_notifications.py).                     *)
(*                                                                         *)
(* Time is a number of ticks, a tick being the ten minutes after which a   *)
(* digest counts as late; a day has Ticks of them.  A run takes its time   *)
(* once, before it opens the queue and takes the dispatch lock, and uses   *)
(* it to its end.  Both locks are owned by the operating system and end    *)
(* with the process.  A message is identified by session, slot and kind.   *)
(***************************************************************************)
EXTENDS Naturals, FiniteSets

CONSTANTS
  Procs,        \* dispatcher processes: the scheduled task and a run by hand
  Slots,        \* 1..n in the order of MAIL_SLOTS
  Eod,          \* the slot of the settled session
  Planned,      \* Planned[s]: tick of the day at which slot s is due
  Ticks, MailDays,  \* bound: ticks of a day and number of days
  Ttl,          \* ticks until a bundle expires
  MaxAttempts, MaxItems, PruneAge, PruneBatch,
  SendBudget    \* send_one calls of a run

OutboxBounds ==
  /\ {Ttl, MaxAttempts, MaxItems, PruneAge, PruneBatch, SendBudget} \subseteq Nat
  /\ {Ticks, MailDays} \subseteq Nat \ {0}
  /\ IsFiniteSet(Slots) /\ Slots # {} /\ Slots = 1..Cardinality(Slots)
  /\ Planned \in [Slots -> 0..Ticks]

ASSUME OutboxAssumption == OutboxBounds

VARIABLES
  clock,
  material,  \* material[d][s]: the delivered bundle and its receipt [form, at]
  msg,       \* rows of the outbox by identity
  proc,      \* [pc, now, on, next, left, row, tried]
  enabled,   \* the sending policy of the configuration
  sent,      \* ghost: mails the server took, by identity
  starved    \* ghost: an enqueue was refused although a finished row was old enough to prune

mailVars == <<clock, material, msg, proc, enabled, sent, starved>>

Kinds == {"normal", "late", "status", "eod"}
Ids == (0..MailDays-1) \X Slots \X Kinds
Day(t) == t \div Ticks
NoRow == [state |-> "ABSENT", attempts |-> 0, retryable |-> FALSE, at |-> 0, until |-> 0]
IdleProc == [pc |-> "idle", now |-> 0, on |-> FALSE, next |-> 1, left |-> 0, row |-> <<0, 1, "normal">>, tried |-> {}]
Present == {i \in Ids : msg[i].state # "ABSENT"}
Never == MailDays * Ticks + Ttl

MailInit ==
  /\ clock = 0 /\ enabled = FALSE /\ starved = FALSE
  /\ material = [d \in 0..MailDays-1 |-> [s \in Slots |-> [form |-> "none", at |-> 0]]]
  /\ msg = [i \in Ids |-> NoRow] /\ sent = [i \in Ids |-> 0]
  /\ proc = [p \in Procs |-> IdleProc]

-----------------------------------------------------------------------------
(* The environment.                                                         *)

MailTick ==
  /\ clock + 1 < MailDays * Ticks /\ clock' = clock + 1 /\ UNCHANGED <<material, msg, proc, enabled, sent, starved>>

\* The minute dispatcher delivers the slot's bundle of today; it may also be unreadable, mock or incomplete.
Deliver(s, form) ==
  /\ material[Day(clock)][s].form = "none" /\ clock % Ticks >= Planned[s]
  /\ material' = [material EXCEPT ![Day(clock)][s] = [form |-> form, at |-> clock]]
  /\ UNCHANGED <<clock, msg, proc, enabled, sent, starved>>

\* The enable and disable commands.
SetEnabled(on) == enabled # on /\ enabled' = on /\ UNCHANGED <<clock, material, msg, proc, sent, starved>>

-----------------------------------------------------------------------------
(* A run.                                                                   *)

\* main: the time and the policy.
StartRun(p) ==
  /\ proc[p].pc = "idle"
  /\ proc' = [proc EXCEPT ![p] = [IdleProc EXCEPT !.pc = "started", !.now = clock, !.on = enabled, !.left = SendBudget]]
  /\ UNCHANGED <<clock, material, msg, enabled, sent, starved>>

\* Mutant: an interrupted send is queued again.
RecoveredReady(rows) == [i \in Ids |-> IF rows[i].state = "SENDING" THEN [rows[i] EXCEPT !.state = "READY"] ELSE rows[i]]

\* A new queue object marks interrupted sends.
Recovered(rows) ==
  [i \in Ids |-> IF rows[i].state = "SENDING" THEN [rows[i] EXCEPT !.state = "AMBIGUOUS", !.retryable = FALSE] ELSE rows[i]]

Holds(p) == proc[p].pc \in {"slots", "send", "smtp"}

\* The queue is opened; the interrupted sends are marked when nobody holds the send lock.
Open(p) ==
  /\ proc[p].pc = "started"
  /\ msg' = IF \E q \in Procs : proc[q].pc = "smtp" THEN msg ELSE Recovered(msg)
  /\ proc' = [proc EXCEPT ![p].pc = "opened"]
  /\ UNCHANGED <<clock, material, enabled, sent, starved>>

\* The dispatch lock, or BUSY.
Lock(p) ==
  /\ proc[p].pc = "opened"
  /\ proc' = [proc EXCEPT ![p] = IF \E q \in Procs : Holds(q) THEN IdleProc ELSE [proc[p] EXCEPT !.pc = "slots"]]
  /\ UNCHANGED <<clock, material, msg, enabled, sent, starved>>

\* read_delivery finds a bundle with its receipt.
Readable(d, s) == material[d][s].form \in {"good", "unfit"}

\* build_digest accepts it: received by then, not expired, and fit for a live digest.
Qualified(d, s, now) == LET m == material[d][s] IN m.form = "good" /\ m.at <= now /\ now < m.at + Ttl

BaseKind(s) == IF s = Eod THEN "eod" ELSE "normal"
DigestKind(s, now) == IF s # Eod /\ now % Ticks > Planned[s] + 1 THEN "late" ELSE BaseKind(s)
Deadline(s) == IF s = Eod THEN Planned[s] ELSE Planned[s] + 1

\* Mutant: only the kind a digest has now is looked for, not the one it had in time.
WantedAgain(s, now) ==
  LET d == Day(now)  kind == DigestKind(s, now) IN
  IF now % Ticks < Planned[s] \/ (Readable(d, s) /\ <<d, s, kind>> \in Present) THEN {}
  ELSE IF Qualified(d, s, now) THEN {<<d, s, kind>>}
  ELSE IF now % Ticks < Deadline(s) THEN {}
  ELSE {<<d, s, "status">>} \ Present

\* What the run at this time adds for a slot: its digest, a late one, or the status once the deadline passed.
Wanted(s, now) ==
  LET d == Day(now)  kind == DigestKind(s, now) IN
  IF now % Ticks < Planned[s] \/ <<d, s, BaseKind(s)>> \in Present \/ (Readable(d, s) /\ <<d, s, kind>> \in Present) THEN {}
  ELSE IF Qualified(d, s, now) THEN {<<d, s, kind>>}
  ELSE IF now % Ticks < Deadline(s) THEN {}
  ELSE {<<d, s, "status">>} \ Present

Finished(r) == r.state \in {"ACCEPTED", "AMBIGUOUS"} \/ (r.state = "FAILED" /\ ~r.retryable)

\* Rows that no run will ever hand over again.
Terminal(r) == Finished(r) \/ (r.state = "FAILED" /\ r.attempts >= MaxAttempts)

\* A set of oldest accepted rows, as many as a prune takes.
OldestAccepted(rows) ==
  LET acc == {i \in rows : msg[i].state = "ACCEPTED"} IN
  {x \in SUBSET acc : /\ Cardinality(x) = (IF Cardinality(acc) < PruneBatch THEN Cardinality(acc) ELSE PruneBatch)
                      /\ \A i \in x, j \in acc \ x : msg[i].at <= msg[j].at}

\* What stays when a row is added at this time: all, without old finished rows, or also without accepted ones.
Kept(now) ==
  LET aged == {i \in Present : ~(Finished(msg[i]) /\ msg[i].at + PruneAge < now)} IN
  IF Cardinality(Present) < MaxItems THEN {Present}
  ELSE IF Cardinality(aged) < MaxItems THEN {aged}
  ELSE {aged \ x : x \in OldestAccepted(aged)}

\* enqueue: the capacity error ends the run and rolls the pruning back.
Enqueue(p, id, kept) ==
  LET now == proc[p].now IN
  IF Cardinality(kept) >= MaxItems
  THEN /\ proc' = [proc EXCEPT ![p] = IdleProc] /\ UNCHANGED msg
       /\ starved' = (starved \/ \E i \in Present : Terminal(msg[i]) /\ msg[i].at + PruneAge < now)
  ELSE /\ msg' = [i \in Ids |-> IF i = id
                                THEN [state |-> "READY", attempts |-> 0, retryable |-> FALSE, at |-> now,
                                      until |-> IF id[3] = "status" THEN Never ELSE material[id[1]][id[2]].at + Ttl]
                                ELSE IF i \in kept THEN msg[i] ELSE NoRow]
       /\ proc' = [proc EXCEPT ![p].next = @ + 1] /\ UNCHANGED starved

\* The body of the loop over MAIL_SLOTS.
Report(p) ==
  LET s == proc[p].next  now == proc[p].now IN
  /\ proc[p].pc = "slots" /\ s \in Slots
  /\ IF Wanted(s, now) = {}
     THEN proc' = [proc EXCEPT ![p].next = @ + 1] /\ UNCHANGED <<msg, starved>>
     ELSE \E id \in Wanted(s, now), kept \in Kept(now) : Enqueue(p, id, kept)
  /\ UNCHANGED <<clock, material, enabled, sent>>

SlotsDone(p) ==
  /\ proc[p].pc = "slots" /\ proc[p].next \notin Slots
  /\ proc' = [proc EXCEPT ![p].pc = "send"]
  /\ UNCHANGED <<clock, material, msg, enabled, sent, starved>>

\* send_one's selection; the retry time of a row rejected in this run lies after the run's own time.
Offered(p) ==
  {i \in Present : msg[i].attempts < MaxAttempts
                   /\ (msg[i].state = "READY" \/ (msg[i].state = "FAILED" /\ msg[i].retryable /\ i \notin proc[p].tried))}

Expired(i, now) == i[1] < Day(now) \/ now >= msg[i].until

\* send_one claims the oldest row, or sets it aside when it is too old; the run stops when nothing is offered.
Claim(p) ==
  /\ proc[p].pc = "send"
  /\ IF ~proc[p].on \/ proc[p].left = 0 \/ Offered(p) = {}
     THEN proc' = [proc EXCEPT ![p] = IdleProc] /\ UNCHANGED msg
     ELSE \E i \in {x \in Offered(p) : \A y \in Offered(p) : msg[x].at <= msg[y].at} :
            IF Expired(i, proc[p].now)
            THEN /\ msg' = [msg EXCEPT ![i].state = "FAILED", ![i].retryable = FALSE]
                 /\ proc' = [proc EXCEPT ![p].left = @ - 1]
            ELSE /\ msg' = [msg EXCEPT ![i].state = "SENDING", ![i].attempts = @ + 1]
                 /\ proc' = [proc EXCEPT ![p] = [proc[p] EXCEPT !.pc = "smtp", !.row = i, !.left = @ - 1]]
  /\ UNCHANGED <<clock, material, enabled, sent, starved>>

\* The transport and the recorded outcome: a rejection before or instead of the data was not taken by
\* the server; a connection lost while the data went out leaves it open whether it was.
Smtp(p, outcome, taken) ==
  LET i == proc[p].row IN
  /\ proc[p].pc = "smtp" /\ (outcome = "ACCEPTED" => taken) /\ (outcome \in {"refused", "deferred"} => ~taken)
  /\ sent' = [sent EXCEPT ![i] = IF taken THEN @ + 1 ELSE @]
  /\ msg' = [msg EXCEPT ![i].state = IF outcome \in {"refused", "deferred"} THEN "FAILED" ELSE outcome,
                        ![i].retryable = outcome = "deferred"]
  /\ proc' = [proc EXCEPT ![p] = [proc[p] EXCEPT !.pc = "send", !.tried = @ \cup {i}]]
  /\ UNCHANGED <<clock, material, enabled, starved>>

\* The process is killed; while it talks to the server the mail may have been taken.
Die(p, taken) ==
  /\ proc[p].pc # "idle" /\ (taken => proc[p].pc = "smtp")
  /\ proc' = [proc EXCEPT ![p] = IdleProc]
  /\ sent' = IF taken THEN [sent EXCEPT ![proc[p].row] = @ + 1] ELSE sent
  /\ UNCHANGED <<clock, material, msg, enabled, starved>>

Run(p) ==
  \/ StartRun(p) \/ Open(p) \/ Lock(p) \/ Report(p) \/ SlotsDone(p) \/ Claim(p)
  \/ \E o \in {"ACCEPTED", "refused", "deferred", "AMBIGUOUS"}, t \in BOOLEAN : Smtp(p, o, t)

MailNext ==
  \/ MailTick
  \/ \E s \in Slots, f \in {"good", "unfit", "unreadable"} : Deliver(s, f)
  \/ \E on \in BOOLEAN : SetEnabled(on)
  \/ \E p \in Procs : Run(p) \/ \E t \in BOOLEAN : Die(p, t)

MailSpec == MailInit /\ [][MailNext]_mailVars

\* The task scheduler keeps starting the dispatcher, a run goes on, and the last of its kills is final.
FairMailNext ==
  \/ MailTick \/ SetEnabled(TRUE)
  \/ \E s \in Slots : Deliver(s, "good")
  \/ \E p \in Procs : Run(p) \/ (proc[p].pc = "smtp" /\ Die(p, TRUE))

FairMailSpec == MailInit /\ [][FairMailNext]_mailVars /\ \A p \in Procs : WF_mailVars(Run(p))

-----------------------------------------------------------------------------
Delivery == [form : {"none", "good", "unfit", "unreadable"}, at : Nat]
RowStates == {"ABSENT", "READY", "SENDING", "ACCEPTED", "FAILED", "AMBIGUOUS"}
RowRecord == [state : RowStates, attempts : 0..MaxAttempts, retryable : BOOLEAN, at : Nat, until : Nat]
ProcRecord ==
  [pc : {"idle", "started", "opened", "slots", "send", "smtp"}, now : 0..(MailDays * Ticks - 1), on : BOOLEAN,
   next : 1..(Cardinality(Slots) + 1), left : Nat, row : Ids, tried : SUBSET Ids]

\* Every variable stays in its domain: rows within the capacity, attempts within their bound.
OutboxTypeOK ==
  /\ clock \in 0..(MailDays * Ticks - 1) /\ enabled \in BOOLEAN
  /\ material \in [0..MailDays-1 -> [Slots -> Delivery]]
  /\ msg \in [Ids -> RowRecord] /\ Cardinality(Present) <= MaxItems
  /\ proc \in [Procs -> ProcRecord] /\ sent \in [Ids -> Nat]

\* "Repeated wake-ups or a restart do not send twice": whatever is killed, rejected or lost, the mail
\* server takes a message at most once.
NeverTwice == \A i \in Ids : sent[i] <= 1

\* A run that got through its slots has left a message, digest or status, for every slot whose deadline
\* had passed: no slot of the day is silently missing.
NoSilentSlot ==
  \A p \in Procs : proc[p].pc = "send" =>
    \A s \in Slots : proc[p].now % Ticks >= Deadline(s) => \E k \in Kinds : <<Day(proc[p].now), s, k>> \in Present

\* What the owner is mailed: nothing twice, and something for every slot that is over.
MailOnce == OutboxTypeOK /\ NeverTwice /\ NoSilentSlot

\* A slot gets at most one digest, in time or late; runs take their time before the lock.
OneDigestPerSlot ==
  \A d \in 0..MailDays-1, s \in Slots : Cardinality({k \in Kinds \ {"status"} : <<d, s, k>> \in Present}) <= 1

\* "Auto-prune terminal messages older than 30 days": a message is refused for lack of room only if no
\* message that will never be sent again is older than that.
PruneFreesTerminal == ~starved

\* A message whose sending was interrupted does not stay SENDING.
SendingResolved == \A i \in Ids : msg[i].state = "SENDING" ~> msg[i].state # "SENDING"
=============================================================================
