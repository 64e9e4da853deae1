------------------------ MODULE LocalDispatchProofs ------------------------
(***************************************************************************)
(* Proofs about LocalDispatch for every calendar, number of processes,     *)
(* retry policy and clock: the dispatcher is a client of LocalJobLedger,   *)
(* deliveries are sound, a process's view of its attempt stays true, slots *)
(* end once, and generations are numbered in slot order.                   *)
(*                                                                         *)
(* The run lock leaves one process busy, so the invariant is a relation    *)
(* between the ledger and the local variables of that process (Fresh), the *)
(* ledger relations only this client keeps (XLedger), and the outbox.      *)
(***************************************************************************)
EXTENDS LocalDispatch, LocalJobLedgerProofs, FiniteSetTheorems, WellFoundedInduction

-----------------------------------------------------------------------------
(* What the dispatcher's ledger satisfies beyond LInv. *)

\* Attempt statuses that close the slot for good.
Final == {"DELIVERED", "FAILED_DELIVERY", "SUPERSEDED", "QUARANTINED"}
Retiring == {"FAILED_DELIVERY", "EXPIRED", "SUPERSEDED", "INVALIDATED", "QUARANTINED"}

\* Uploads are numbered without gaps and within the budget.
XNumbered(d) ==
  \A a \in DOMAIN d.attempts :
    \E n \in 0..(MaxRetries + 1) : UploadsOf(d, a) = {<<a, k>> : k \in 1..n}

\* An upload that ended without a delivery is lost.
XLost(d) ==
  \A j \in DOMAIN d.jobs :
    j[2] >= 1 => \/ d.jobs[j].status \in {"running", "failed", "interrupted"}
                 \/ d.attempts[j[1]].status = "DELIVERED"

\* A manifest displays its own attempt, and its attempt is past the computation.
XManifest(d) ==
  \A a \in DOMAIN d.attempts : d.attempts[a].manifest # None =>
    /\ d.attempts[a].manifest.content = a
    /\ d.attempts[a].status \notin {"RUNNING", "FAILED", "INTERRUPTED"}

XFinal(d) ==
  \A a \in DOMAIN d.attempts :
    d.attempts[a].status \in Final => d.slots[SlotOf(a)].status \in TERMINAL_SLOTS

XPackage(d) ==
  \A a \in DOMAIN d.attempts : \A b \in AttemptsOf(d, SlotOf(a)) :
    AttemptNo(b) > AttemptNo(a) /\ d.attempts[a].manifest # None
      => d.attempts[a].status \in {"INVALIDATED", "EXPIRED"}

XBehind(d) == \A a \in DOMAIN d.attempts : SlotOf(a) <= d.watermark

XLedger(d) ==
  LInv(d) /\ XNumbered(d) /\ XLost(d) /\ XManifest(d) /\ XFinal(d) /\ XPackage(d) /\ XBehind(d)

\* A terminal slot keeps its status.
SlotsFinal(d, e) ==
  \A s \in Slots : d.slots[s].status \in TERMINAL_SLOTS => e.slots[s].status = d.slots[s].status

\* No attempt becomes DELIVERED.
NoDelivery(d, e) ==
  \A a \in DOMAIN e.attempts :
    e.attempts[a].status = "DELIVERED" =>
      a \in DOMAIN d.attempts /\ d.attempts[a].status = "DELIVERED"

\* What a transaction of the dispatcher does to the rest of the system.
XStep(d, e) ==
  XLedger(e) /\ LHistory(d, e) /\ SlotsFinal(d, e) /\ d.watermark <= e.watermark

-----------------------------------------------------------------------------
(* plan_due, quarantine_export and pending_replay only retire work. *)

Retires(d, e) ==
  /\ DOMAIN e.attempts = DOMAIN d.attempts /\ DOMAIN e.jobs = DOMAIN d.jobs
  /\ e.watermark = d.watermark
  /\ \A a \in DOMAIN d.attempts :
       /\ e.attempts[a].manifest = d.attempts[a].manifest
       /\ \/ e.attempts[a].status = d.attempts[a].status
          \/ e.attempts[a].status \in Retiring /\ d.attempts[a].status \in Unresolved
       /\ e.attempts[a].status \in Final /\ d.attempts[a].status \notin Final
            => e.slots[SlotOf(a)].status \in TERMINAL_SLOTS
  /\ \A j \in DOMAIN d.jobs :
       e.jobs[j].status = d.jobs[j].status \/ e.jobs[j].status = "interrupted"
  /\ SlotsFinal(d, e)

\* _finish_export retires the attempts it is given.
LEMMA FinishRetires ==
  ASSUME NEW d, LType(d), NEW A, NEW as \in Retiring, NEW ss \in SlotStatus, NEW t \in Nat,
         as \in Final => ss \in TERMINAL_SLOTS /\ LFollows(d)
  PROVE  Retires(d, FinishExports(d, A, as, ss, t))
<1> DEFINE e == FinishExports(d, A, as, ss, t)
<1>1. as \in AttemptStatus
  BY DEF Retiring, AttemptStatus, ClosedAttempts
<1>2. Finished(d, A, as, ss, t, e)
  BY <1>1, FinishExportsRows
<1> HIDE DEF e
<1>3. \A x \in TERMINAL_SLOTS : x \notin Unresolved
  BY DEF TERMINAL_SLOTS, Unresolved
<1>4. SlotsFinal(d, e)
  BY <1>2, <1>3 DEF Finished, SlotsFinal
<1>5. ASSUME NEW a \in DOMAIN d.attempts
      PROVE  /\ e.attempts[a].manifest = d.attempts[a].manifest
             /\ \/ e.attempts[a].status = d.attempts[a].status
                \/ e.attempts[a].status \in Retiring /\ d.attempts[a].status \in Unresolved
  BY <1>2 DEF Finished
<1>6. ASSUME NEW a \in DOMAIN d.attempts, e.attempts[a].status \in Final,
             d.attempts[a].status \notin Final
      PROVE  e.slots[SlotOf(a)].status \in TERMINAL_SLOTS
  <2>1. a \in A /\ d.attempts[a].status \in Unresolved /\ as \in Final
    BY <1>2, <1>6 DEF Finished
  <2>2. a \in AttemptsIn(d, Live) /\ d.attempts[a].status # "RUNNING"
    BY <2>1 DEF AttemptsIn, Live, Unresolved
  <2>3. d.slots[SlotOf(a)].status \in Unresolved
    BY <2>1, <2>2 DEF LFollows
  <2>4. SlotOf(a) \in Slots
    BY DEF LType, AttemptIds, SlotOf
  <2>5. e.slots[SlotOf(a)].status = ss
    BY <1>2, <2>1, <2>3, <2>4 DEF Finished
  <2> QED BY <2>1, <2>5
<1> QED BY <1>2, <1>4, <1>5, <1>6 DEF Retires, Finished, e

\* An UPDATE of slots that keeps terminal ones retires nothing.
LEMMA UpdateRetires ==
  ASSUME NEW d, LType(d), NEW S, NEW keep, TERMINAL_SLOTS \subseteq keep, NEW st \in SlotStatus,
         NEW t \in Nat
  PROVE  Retires(d, UpdateSlots(d, S, keep, st, t))
<1> DEFINE e == UpdateSlots(d, S, keep, st, t)
<1>1. Updated(d, S, keep, st, t, e)
  BY UpdateSlotsRows
<1> HIDE DEF e
<1>2. SlotsFinal(d, e)
  BY <1>1 DEF Updated, SlotsFinal
<1>3. e.attempts = d.attempts /\ e.jobs = d.jobs /\ e.watermark = d.watermark
  BY <1>1 DEF Updated
<1>4. Retires(d, e)
  BY <1>2, <1>3 DEF Retires
<1> QED BY <1>4 DEF e

\* Retiring work twice retires it.
LEMMA RetiresTransitive ==
  ASSUME NEW d, NEW e, NEW f, LType(d), Retires(d, e), Retires(e, f)
  PROVE  Retires(d, f)
<1>1. \A a \in DOMAIN d.attempts : SlotOf(a) \in Slots
  BY DEF LType, AttemptIds, SlotOf
<1>2. \A x \in Retiring : x \notin Unresolved
  BY DEF Retiring, Unresolved
<1> QED BY <1>1, <1>2 DEF Retires, SlotsFinal

\* The statuses the retiring methods of the ledger set, by the parts they play.
LEMMA RetireStatuses ==
  /\ Final \ {"DELIVERED"} \subseteq Retiring /\ Final \subseteq AttemptStatus
  /\ {"EXPIRED", "INVALIDATED"} \subseteq Retiring \ Final
  /\ Final \subseteq TERMINAL_SLOTS /\ TERMINAL_SLOTS \subseteq SlotStatus
  /\ {"MISSED", "FAILED", "PENDING"} \subseteq SlotStatus
  /\ "MISSED" \in TERMINAL_SLOTS /\ "ABSENT" \notin TERMINAL_SLOTS
BY DEF Final, Retiring, AttemptStatus, ClosedAttempts, TERMINAL_SLOTS, SlotStatus, Claimable

\* The parts of plan_due: the slot whose package has no upload left.
LEMMA PlanExhaustedRetires ==
  ASSUME NEW d, LInv(d), NEW t \in Nat
  PROVE  Retires(d, PlanExhausted(d, t))
BY FinishRetires, RetireStatuses DEF PlanExhausted, LInv, LTies, LWork, Retiring, TERMINAL_SLOTS

\* The parts of plan_due: packages of earlier sessions.
LEMMA PlanPreviousRetires ==
  ASSUME NEW d, LInv(d), NEW t \in Nat
  PROVE  Retires(d, PlanPrevious(d, t))
<1> DEFINE m == UpdateSlots(d, EarlierSlots(d, t), TERMINAL_SLOTS, "MISSED", t)
<1>1. LType(d)
  BY DEF LInv, LWork
<1>2. LType(m) /\ Retires(d, m)
  BY <1>1, UpdateSlotsRows, UpdateRetires, RetireStatuses
<1> HIDE DEF m
<1> DEFINE A == {a \in AttemptsIn(m, Unresolved) : Session(SlotOf(a)) < Session(t)}
<1>3. Retires(m, FinishExports(m, A, "EXPIRED", "MISSED", t))
  BY <1>2, FinishRetires, RetireStatuses
<1>4. PlanPrevious(d, t) = FinishExports(m, A, "EXPIRED", "MISSED", t)
  BY DEF PlanPrevious, m
<1> QED BY <1>1, <1>2, <1>3, <1>4, RetiresTransitive

\* The parts of plan_due: the slots of the day the clock shows.
LEMMA PlanSessionRetires ==
  ASSUME NEW d, LInv(d), NEW t \in Nat, t <= d.watermark, NEW ident
  PROVE  Retires(d, PlanSession(d, t, ident))
<1> DEFINE i == InsertSlots(d, t)
           p == PlanSupersede(i, t)
           s == LatestDue(t)
<1>1. LType(d)
  BY DEF LInv, LWork
<1>2. LInv(i) /\ i.watermark = d.watermark /\ Retires(d, i)
  <2>1. TERMINAL_SLOTS \subseteq SlotStatus \ {"ABSENT"}
    BY RetireStatuses
  <2> QED BY <1>1, <2>1, InsertSlotsKept, UpdateRetires, RetireStatuses DEF Kept, InsertSlots
<1> HIDE DEF i
<1>3. LInv(p) /\ p.watermark = d.watermark /\ Retires(i, p)
  <2> DEFINE older == DueSlots(t) \ {LatestDue(t)}
             f == FinishExports(i, ExportsOf(i, older), "SUPERSEDED", "SUPERSEDED", t)
  <2>1. Retires(i, f) /\ LType(f)
    BY <1>2, FinishRetires, FinishExportsRows, RetireStatuses DEF LInv, LTies, LWork, Final
  <2> HIDE DEF f
  <2>2. Retires(f, UpdateSlots(f, older, TERMINAL_SLOTS \cup {"RUNNING"}, "SUPERSEDED", t))
    BY <2>1, UpdateRetires, RetireStatuses DEF Final
  <2>3. p = UpdateSlots(f, older, TERMINAL_SLOTS \cup {"RUNNING"}, "SUPERSEDED", t)
    BY DEF PlanSupersede, f
  <2> QED BY <1>2, <2>1, <2>2, <2>3, RetiresTransitive, PlanSupersedeKept DEF Kept, LInv, LWork
<1> HIDE DEF p
<1>4. LType(p) /\ LType(i)
  BY <1>2, <1>3 DEF LInv, LWork
<1>5. Retires(p, PlanLate(p, s, t))
  <2> DEFINE f == FinishExports(p, ExportsOf(p, {s}), "EXPIRED", "MISSED", t)
  <2>1. Retires(p, f) /\ LType(f)
    BY <1>4, FinishRetires, FinishExportsRows, RetireStatuses DEF AttemptStatus, ClosedAttempts
  <2> HIDE DEF f
  <2>2. Retires(f, UpdateSlots(f, {s}, TERMINAL_SLOTS \cup {"RUNNING"}, "MISSED", t))
    BY <2>1, UpdateRetires, RetireStatuses
  <2> QED BY <1>4, <2>1, <2>2, RetiresTransitive DEF PlanLate, f
<1>6. Retires(p, PlanInvalid(p, s, t, ident))
  <2> DEFINE stale == ExportsOf(p, {s}) \cap Mismatched(p, ident)
             old == ExpiredAt(p, ExportsOf(p, {s}) \ stale, t)
             f == FinishExports(p, stale, "INVALIDATED", "FAILED", t)
  <2>1. Retires(p, f) /\ LType(f)
    BY <1>4, FinishRetires, FinishExportsRows, RetireStatuses DEF AttemptStatus, ClosedAttempts
  <2> HIDE DEF f
  <2>2. Retires(f, FinishExports(f, old, "EXPIRED", "FAILED", t))
    BY <2>1, FinishRetires, RetireStatuses
  <2> QED BY <1>4, <2>1, <2>2, RetiresTransitive DEF PlanInvalid, f
<1>7. Retires(d, p)
  BY <1>1, <1>2, <1>3, RetiresTransitive
<1> QED BY <1>1, <1>2, <1>5, <1>6, <1>7, RetiresTransitive DEF PlanSession, i, p

\* plan_due as a whole.
LEMMA PlanDueRetires ==
  ASSUME NEW d, LInv(d), NEW t \in Nat, NEW trading \in BOOLEAN, NEW ident, CanPlanDue(d, t)
  PROVE  Retires(ObserveClock(d, t), PlanDue(d, t, trading, ident))
<1> DEFINE o == ObserveClock(d, t)
           x == PlanExhausted(o, t)
           c == PlanPrevious(x, t)
<1>1. LInv(o) /\ o.watermark = t
  BY ObserveClockKept DEF CanPlanDue
<1> HIDE DEF o
<1>2. LInv(x) /\ x.watermark = t /\ Retires(o, x)
  BY <1>1, PlanExhaustedKept, PlanExhaustedRetires DEF Kept
<1> HIDE DEF x
<1>3. LInv(c) /\ c.watermark = t /\ Retires(x, c)
  BY <1>2, PlanPreviousKept, PlanPreviousRetires DEF Kept
<1> HIDE DEF c
<1>4. Retires(c, PlanSession(c, t, ident))
  BY <1>3, PlanSessionRetires
<1>5. LType(o) /\ LType(x)
  BY <1>1, <1>2 DEF LInv, LWork
<1>6. Retires(o, c)
  BY <1>2, <1>3, <1>5, RetiresTransitive
<1>7. Retires(o, PlanSession(c, t, ident))
  BY <1>4, <1>5, <1>6, RetiresTransitive
<1> QED BY <1>6, <1>7 DEF PlanDue, o, x, c

\* quarantine_export.
LEMMA QuarantineRetires ==
  ASSUME NEW d, LInv(d), NEW a, NEW t \in Nat, CanQuarantine(d, a, t)
  PROVE  Retires(ObserveClock(d, t), QuarantineExport(d, a, t))
<1>1. LInv(ObserveClock(d, t))
  BY ObserveClockKept DEF CanQuarantine
<1> QED BY <1>1, FinishRetires, RetireStatuses DEF QuarantineExport, LInv, LTies, LWork, Final

\* pending_replay expires and invalidates packages on the way to the row it returns.
LEMMA PendingReplayRetires ==
  ASSUME NEW d, LInv(d), NEW t \in Nat, NEW ident, CanPendingReplay(d, t)
  PROVE  Retires(ObserveClock(d, t), PendingReplay(d, t, ident))
<1> DEFINE o == ObserveClock(d, t)
           rows == ScannedRows(d, t, ident)
           late == {a \in rows : WindowClosed(d, a, t)}
           spent == {a \in rows \ late : RetriesSpent(d, a)}
           f == FinishExports(o, late, "EXPIRED", "MISSED", t)
<1>1. LInv(o) /\ o.watermark = t /\ o.attempts = d.attempts
  BY ObserveClockKept DEF CanPendingReplay
<1> HIDE DEF o
<1>2. LType(o)
  BY <1>1 DEF LInv, LWork
<1>3. Retires(o, f)
  BY <1>2, FinishRetires, RetireStatuses
<1>4. LInv(f)
  <2>1. late \subseteq AttemptsIn(o, Live)
    BY <1>1 DEF ScannedRows, ReplayRows, AttemptsIn, Live, Unresolved
  <2> HIDE DEF late
  <2>2. Owns(o, late)
    BY <1>1, <2>1, LiveOwns DEF LInv
  <2> QED BY <1>1, <2>2, FinishExportsInv, EndStatuses
<1> HIDE DEF f, late
<1>5. Retires(f, FinishExports(f, spent, "FAILED_DELIVERY", "FAILED_DELIVERY", t))
  BY <1>4, FinishRetires, RetireStatuses DEF LInv, LTies, LWork, Final
<1>6. PendingReplay(d, t, ident) = FinishExports(f, spent, "FAILED_DELIVERY", "FAILED_DELIVERY", t)
  BY DEF PendingReplay, f, o, late
<1> QED BY <1>2, <1>3, <1>5, <1>6, RetiresTransitive DEF o

-----------------------------------------------------------------------------
(* The dispatcher's invariant. *)

Busy == Points \ {"idle", "start"}
Working == Busy \ {"recover", "plan", "intents", "claim"}
Sending == {"send", "await", "receipt", "settle", "lost"}

Task == [ident : Identities \cup {None}, slot : Slots \cup {None}, at : AttemptIds \cup {None},
         up : Nat, replay : BOOLEAN]

\* The attempt a process works on, and its slot, both show st.
Shows(w, d, st) ==
  d.attempts[w.at].status = st /\ d.slots[SlotOf(w.at)].status = st

\* Nothing was uploaded yet.
Unsent(w, d) == w.up = 1 /\ UploadsOf(d, w.at) = {}

\* No attempt is of a later slot than s.
Newest(d, s) == \A b \in DOMAIN d.attempts : SlotOf(b) <= s

\* What a process at control point l with locals w may rely on, whatever the clock, the
\* deployments, the other wake-ups and the receiver did meanwhile.
Fresh(l, w, d, out, acc) ==
  /\ l # "idle" => w.ident \in Identities
  /\ l \in {"intents", "claim"} /\ w.slot # None => Newest(d, w.slot)
  /\ l = "claim" => w.slot # None
  /\ l \in Working => w.at \in DOMAIN d.attempts
  /\ l \in {"task", "compute", "export"} => Shows(w, d, "RUNNING")
  /\ l \in {"task", "compute", "export", "write", "mark"} => Unsent(w, d)
  /\ l \in {"task", "compute", "export", "write"} => Newest(d, SlotOf(w.at))
  /\ l \in {"write", "mark"} => Shows(w, d, "EXPORTING")
  /\ l = "write" => \A m \in out : m.seq < SeqOf(d, w.at)
  /\ l = "mark" => d.attempts[w.at].manifest \in out
  /\ l \in {"announce", "send", "await", "receipt"} => d.attempts[w.at].status = "EXPORTED"
  /\ l \in {"announce"} \cup Sending => w.up \in 1..(MaxRetries + 1)
  /\ l = "announce" => UploadsOf(d, w.at) = {<<w.at, k>> : k \in 1..(w.up - 1)}
  /\ l \in Sending => <<w.at, w.up>> \in DOMAIN d.jobs
  /\ l \in {"send", "await", "receipt"} => d.jobs[<<w.at, w.up>>].status = "running"
  /\ l = "receipt" => d.attempts[w.at].manifest \in acc
  /\ l = "settle" => d.attempts[w.at].status = "DELIVERED"

\* The bundle files: each is the package of the attempt it displays, those of exported
\* attempts are there, and they are numbered in slot order.
Files(d, out) ==
  /\ out \subseteq Manifests
  /\ \A m \in out : m.content \in DOMAIN d.attempts /\ d.attempts[m.content].manifest = m
  /\ \A a \in AttemptsIn(d, {"EXPORTED"}) : d.attempts[a].manifest \in out
  /\ \A m, n \in out : SlotOf(m.content) < SlotOf(n.content) => m.seq < n.seq
  /\ \E k \in Nat : \A m \in out : m.seq <= k

\* Requests under way and acknowledged generations.
Sent(d, out, rs) ==
  \A r \in rs : /\ r \in Manifests \X Nat /\ r[1] \in out
                /\ \E a \in DOMAIN d.attempts : /\ d.attempts[a].manifest = r[1]
                                                /\ <<a, r[2]>> \in DOMAIN d.jobs

Received(d, acc) == \A a \in AttemptsIn(d, {"DELIVERED"}) : d.attempts[a].manifest \in acc

\* The OS lock leaves at most one process past "start".
Held == \A p \in Procs : pc[p] \in Busy <=> lock = p

Shapes ==
  /\ clock \in 0..MaxTime /\ deployed \in Identities /\ lock \in Procs \cup {None}
  /\ pc \in [Procs -> Points] /\ me \in [Procs -> Task]

World == XLedger(db) /\ Files(db, outbox) /\ Sent(db, outbox, net) /\ Received(db, accepted)
Processes == Shapes /\ Held /\ \A p \in Procs : Fresh(pc[p], me[p], db, outbox, accepted)

DInv == World /\ Processes

-----------------------------------------------------------------------------
(* What a ledger transaction leaves of the invariant. *)

\* The statuses by the parts they play.
LEMMA StatusFacts ==
  /\ "RUNNING" \notin Final \cup Retiring \cup Unresolved \cup ClosedAttempts \cup TERMINAL_SLOTS
  /\ "EXPORTING" \notin Final \cup Retiring \cup ClosedAttempts \cup TERMINAL_SLOTS
  /\ "EXPORTED" \notin Final \cup Retiring \cup ClosedAttempts \cup TERMINAL_SLOTS
  /\ "FAILED" \notin Final \cup Retiring /\ "INTERRUPTED" \notin Final \cup Retiring
  /\ "DELIVERED" \notin Retiring /\ "DELIVERED" \in Final
  /\ Live = {"RUNNING", "EXPORTING", "EXPORTED"} /\ Unresolved = {"EXPORTING", "EXPORTED"}
  /\ Live \subseteq AttemptStatus /\ Live \subseteq SlotStatus
  /\ {"FAILED", "INTERRUPTED", "DELIVERED"} \subseteq ClosedAttempts
  /\ AttemptStatus \ (Final \cup Live) = {"FAILED", "INTERRUPTED", "EXPIRED", "INVALIDATED"}
BY DEF Final, Retiring, Unresolved, Live, ClosedAttempts, AttemptStatus, TERMINAL_SLOTS, SlotStatus

\* A transaction that adds no package and no delivery leaves files, requests and receipts as
\* they are.
LEMMA WorldKept ==
  ASSUME World, XStep(db, db'), UNCHANGED <<outbox, net, accepted>>,
         \A a \in AttemptsIn(db', {"EXPORTED"}) :
           a \in AttemptsIn(db, {"EXPORTED"}) \/ db'.attempts[a].manifest \in outbox,
         \A a \in AttemptsIn(db', {"DELIVERED"}) :
           a \in AttemptsIn(db, {"DELIVERED"}) \/ db'.attempts[a].manifest \in accepted
  PROVE  World'
<1>1. LHistory(db, db') /\ XLedger(db') /\ None \notin Manifests
  BY LedgerAssumption DEF XStep
<1>2. Files(db', outbox)
  BY <1>1 DEF World, Files, LHistory, AttemptsIn, Manifests
<1>3. Sent(db', outbox, net)
  <2> SUFFICES ASSUME NEW r \in net
               PROVE  \E a \in DOMAIN db'.attempts : /\ db'.attempts[a].manifest = r[1]
                                                     /\ <<a, r[2]>> \in DOMAIN db'.jobs
    BY DEF World, Sent
  <2>1. PICK a \in DOMAIN db.attempts :
             db.attempts[a].manifest = r[1] /\ <<a, r[2]>> \in DOMAIN db.jobs
    BY DEF World, Sent
  <2>2. r[1] \in Manifests
    BY DEF World, Sent
  <2> QED BY <1>1, <2>1, <2>2 DEF LHistory
<1>4. Received(db', accepted)
  <2> SUFFICES ASSUME NEW a \in AttemptsIn(db', {"DELIVERED"}), a \in AttemptsIn(db, {"DELIVERED"})
               PROVE  db'.attempts[a].manifest \in accepted
    BY DEF Received
  <2>1. db.attempts[a].manifest # None
    BY DEF World, XLedger, LInv, LWork, LExported, AttemptsIn
  <2> QED BY <1>1, <2>1 DEF World, Received, LHistory, AttemptsIn
<1> QED BY <1>1, <1>2, <1>3, <1>4 DEF World

\* The uploads of an attempt are those in the job table.
LEMMA SameUploads ==
  ASSUME NEW d, NEW e, DOMAIN e.jobs = DOMAIN d.jobs, NEW a
  PROVE  UploadsOf(e, a) = UploadsOf(d, a)
BY DEF UploadsOf

\* The jobs a transaction ends without a delivery count as lost.
LEMMA XLostKept ==
  ASSUME NEW d, LType(d), XLost(d), NEW e, LHistory(d, e),
         \A j \in DOMAIN e.jobs :
           \/ j \in DOMAIN d.jobs /\ e.jobs[j].status = d.jobs[j].status
           \/ e.jobs[j].status \in {"running", "failed", "interrupted"}
           \/ e.attempts[j[1]].status = "DELIVERED"
           \/ ~(j[2] >= 1)
  PROVE  XLost(e)
<1> SUFFICES ASSUME NEW j \in DOMAIN e.jobs, j[2] >= 1, j \in DOMAIN d.jobs,
                    e.jobs[j].status = d.jobs[j].status, d.attempts[j[1]].status = "DELIVERED"
             PROVE  e.attempts[j[1]].status = "DELIVERED"
  BY DEF XLost
<1>1. j[1] \in DOMAIN d.attempts
  BY DEF LType
<1> QED BY <1>1 DEF LHistory, ClosedAttempts

\* Retiring work keeps what the dispatcher's ledger satisfies.
LEMMA RetiresXStep ==
  ASSUME NEW d, XLedger(d), NEW t \in Nat, d.watermark <= t, NEW e,
         Retires(ObserveClock(d, t), e), Commits(d, e)
  PROVE  /\ XStep(d, e) /\ NoDelivery(d, e)
         /\ DOMAIN e.attempts = DOMAIN d.attempts /\ DOMAIN e.jobs = DOMAIN d.jobs
         /\ \A a \in DOMAIN e.attempts : /\ e.attempts[a].manifest = d.attempts[a].manifest
                                         /\ \/ e.attempts[a].status = d.attempts[a].status
                                            \/ e.attempts[a].status \in Retiring
         /\ e.watermark = t
<1> DEFINE o == ObserveClock(d, t)
<1>1. /\ o.slots = d.slots /\ o.attempts = d.attempts /\ o.jobs = d.jobs /\ o.watermark = t
  BY DEF ObserveClock, Ledger
<1> HIDE DEF o
<1>2. Retires(o, e) /\ LInv(e) /\ LHistory(d, e) /\ LType(d) /\ LType(e)
  BY DEF o, Commits, LInv, LWork, XLedger
<1>3. DOMAIN e.attempts = DOMAIN d.attempts /\ DOMAIN e.jobs = DOMAIN d.jobs /\ e.watermark = t
  BY <1>1, <1>2 DEF Retires
<1>4. \A a \in DOMAIN e.attempts :
        /\ e.attempts[a].manifest = d.attempts[a].manifest
        /\ \/ e.attempts[a].status = d.attempts[a].status
           \/ e.attempts[a].status \in Retiring /\ d.attempts[a].status \in Unresolved
        /\ e.attempts[a].status \in Final /\ d.attempts[a].status \notin Final
             => e.slots[SlotOf(a)].status \in TERMINAL_SLOTS
  BY <1>1, <1>2 DEF Retires
<1>5. \A j \in DOMAIN e.jobs :
        e.jobs[j].status = d.jobs[j].status \/ e.jobs[j].status = "interrupted"
  BY <1>1, <1>2 DEF Retires
<1>6. SlotsFinal(d, e)
  BY <1>1, <1>2 DEF Retires, SlotsFinal
<1>7. NoDelivery(d, e)
  BY <1>3, <1>4, StatusFacts DEF NoDelivery
<1>8. XNumbered(e)
  BY <1>3, SameUploads DEF XLedger, XNumbered
<1>9. XLost(e)
  BY <1>2, <1>3, <1>5, XLostKept DEF XLedger
<1>10. XManifest(e)
  BY <1>3, <1>4, StatusFacts DEF XLedger, XManifest
<1>11. XFinal(e)
  <2>1. \A a \in DOMAIN d.attempts : SlotOf(a) \in Slots
    BY <1>2 DEF LType, AttemptIds, SlotOf
  <2> QED BY <1>3, <1>4, <1>6, <2>1 DEF XLedger, XFinal, SlotsFinal
<1>12. XPackage(e)
  <2> SUFFICES ASSUME NEW a \in DOMAIN e.attempts, NEW b \in AttemptsOf(e, SlotOf(a)),
                      AttemptNo(b) > AttemptNo(a), e.attempts[a].manifest # None
               PROVE  e.attempts[a].status \in {"INVALIDATED", "EXPIRED"}
    BY DEF XPackage
  <2>1. d.attempts[a].status \in {"INVALIDATED", "EXPIRED"}
    BY <1>3, <1>4 DEF XLedger, XPackage, AttemptsOf
  <2> QED BY <1>3, <1>4, <2>1, StatusFacts
<1>13. XBehind(e)
  <2>1. \A a \in DOMAIN d.attempts : SlotOf(a) \in Nat
    BY <1>2, LedgerAssumption DEF LType, AttemptIds, SlotOf
  <2>2. d.watermark \in Nat
    BY <1>2 DEF LType
  <2> QED BY <1>3, <2>1, <2>2 DEF XLedger, XBehind
<1> QED BY <1>2, <1>3, <1>4, <1>6, <1>7, <1>8, <1>9, <1>10, <1>11, <1>12, <1>13 DEF XStep, XLedger

-----------------------------------------------------------------------------
(* The dispatcher's calls of the ledger's other methods. *)

\* claim adds a RUNNING attempt, the newest of its slot, without uploads.
LEMMA ClaimXStep ==
  ASSUME NEW d, XLedger(d), NEW s \in Slots, NEW t \in Nat, NEW ident \in Identities,
         CanClaim(d, s, t), NEW id, id = <<s, LastAttempt(d, s) + 1>>,
         NEW e, e = Claim(d, s, t, ident)
  PROVE  /\ XStep(d, e)
         /\ id \in AttemptIds /\ DOMAIN e.attempts = DOMAIN d.attempts \cup {id} /\ e.jobs = d.jobs
         /\ \A a \in DOMAIN d.attempts : e.attempts[a] = d.attempts[a]
         /\ SlotOf(id) = s /\ UploadsOf(e, id) = {} /\ Shows([NoWork EXCEPT !.at = id], e, "RUNNING")
<1>1. LInv(d) /\ LType(d) /\ LBudget(d) /\ d.watermark <= t /\ d.watermark \in Nat
  BY DEF XLedger, LInv, LWork, CanClaim, Observes, LType
<1>2. LInv(e) /\ LHistory(d, e)
  BY <1>1, ClaimCommits DEF Commits
<1>3. PICK n \in 0..MaxAttempts : AttemptsOf(d, s) = {<<s, k>> : k \in 1..n}
  BY <1>1 DEF LBudget
<1>4. n \in Nat /\ id = <<s, n + 1>>
  <2>1. n \in Nat
    BY LedgerAssumption
  <2>2. LastAttempt(d, s) = n
    BY <1>3, <2>1, LastAttemptIs
  <2> QED
    BY <2>1, <2>2
<1>5. id \notin AttemptsOf(d, s)
  BY <1>3, <1>4
<1>6. id \in AttemptIds /\ SlotOf(id) = s /\ AttemptNo(id) = n + 1 /\ id \notin DOMAIN d.attempts
  BY <1>4, <1>5 DEF AttemptIds, SlotOf, AttemptNo, AttemptsOf
<1> DEFINE new == [status |-> "RUNNING", updated |-> t, ident |-> ident, manifest |-> None]
<1>7. /\ e.slots = SetSlots(d.slots, {s}, "RUNNING", t)
      /\ e.attempts = [a \in DOMAIN d.attempts \cup {id} |-> IF a = id THEN new ELSE d.attempts[a]]
      /\ e.jobs = d.jobs /\ e.watermark = t
  BY DEF Claim, Ledger
<1>8. new.status = "RUNNING" /\ new.manifest = None
  OBVIOUS
<1> HIDE DEF new
<1>9. /\ DOMAIN e.attempts = DOMAIN d.attempts \cup {id} /\ e.attempts[id] = new
      /\ \A a \in DOMAIN d.attempts : e.attempts[a] = d.attempts[a]
  BY <1>6, <1>7
<1>10. /\ e.slots[s].status = "RUNNING"
       /\ \A r \in Slots : r # s => e.slots[r] = d.slots[r]
  BY <1>7 DEF SetSlots
<1>11. \A j \in DOMAIN d.jobs : j[1] \in DOMAIN d.attempts
  BY <1>1 DEF LType
<1>12. UploadsOf(e, id) = {} /\ \A a : UploadsOf(e, a) = UploadsOf(d, a)
  BY <1>6, <1>7, <1>11 DEF UploadsOf
<1>13. d.slots[s].status \in Claimable /\ Claimable \cap (TERMINAL_SLOTS \cup Live) = {}
  BY DEF CanClaim, Claimable, TERMINAL_SLOTS, Live, Unresolved
<1>14. SlotsFinal(d, e)
  BY <1>10, <1>13 DEF SlotsFinal
<1>15. XNumbered(e)
  <2> SUFFICES ASSUME NEW a \in DOMAIN e.attempts
               PROVE  \E k \in 0..(MaxRetries + 1) : UploadsOf(e, a) = {<<a, i>> : i \in 1..k}
    BY DEF XNumbered
  <2>1. CASE a = id
    <3>1. {<<a, i>> : i \in 1..0} = {} /\ 0 \in 0..(MaxRetries + 1)
      BY LedgerAssumption
    <3> QED BY <1>12, <2>1, <3>1
  <2>2. CASE a # id
    BY <1>9, <1>12, <2>2 DEF XLedger, XNumbered
  <2> QED BY <2>1, <2>2
<1>16. XLost(e)
  <2>1. XLost(d)
    BY DEF XLedger
  <2>2. ASSUME NEW j \in DOMAIN d.jobs PROVE e.jobs[j] = d.jobs[j] /\ e.attempts[j[1]] = d.attempts[j[1]]
    BY <1>7, <1>9, <1>11
  <2>3. DOMAIN e.jobs = DOMAIN d.jobs
    BY <1>7
  <2> QED
    BY <2>1, <2>2, <2>3 DEF XLost
<1>17. XManifest(e)
  BY <1>8, <1>9 DEF XLedger, XManifest
<1>18. \A a \in DOMAIN d.attempts : d.attempts[a].status \in Final => SlotOf(a) # s
  BY <1>13 DEF XLedger, XFinal
<1>19. XFinal(e)
  <2>1. \A a \in DOMAIN d.attempts : SlotOf(a) \in Slots
    BY <1>1 DEF LType, AttemptIds, SlotOf
  <2> QED BY <1>8, <1>9, <1>10, <1>18, <2>1, StatusFacts DEF XLedger, XFinal
<1>20. XPackage(e)
  <2> SUFFICES ASSUME NEW a \in DOMAIN e.attempts, NEW b \in AttemptsOf(e, SlotOf(a)),
                      AttemptNo(b) > AttemptNo(a), e.attempts[a].manifest # None
               PROVE  e.attempts[a].status \in {"INVALIDATED", "EXPIRED"}
    BY DEF XPackage
  <2>1. a # id /\ a \in DOMAIN d.attempts /\ e.attempts[a] = d.attempts[a]
    BY <1>8, <1>9
  <2>2. CASE b = id
    <3>1. SlotOf(a) = s /\ d.attempts[a].status \in AttemptStatus
      BY <1>1, <1>6, <2>1, <2>2 DEF AttemptsOf, LType, AttemptRow
    <3>2. d.attempts[a].status \notin Live
      BY <1>1, <1>13, <2>1, <3>1, StatusFacts DEF LInv, LTies, LFollows, AttemptsIn, XLedger, XManifest
    <3>3. d.attempts[a].status \notin {"FAILED", "INTERRUPTED"}
      BY <2>1 DEF XLedger, XManifest
    <3> QED BY <1>18, <2>1, <3>1, <3>2, <3>3, StatusFacts
  <2>3. CASE b # id
    BY <1>9, <2>1, <2>3 DEF AttemptsOf, XLedger, XPackage
  <2> QED BY <2>2, <2>3
<1>21. XBehind(e)
  <2>1. \A a \in DOMAIN d.attempts : SlotOf(a) \in Nat /\ SlotOf(a) <= d.watermark
    BY <1>1, LedgerAssumption DEF LType, AttemptIds, SlotOf, XLedger, XBehind
  <2>2. s <= t
    BY DEF CanClaim
  <2> QED BY <1>1, <1>6, <1>7, <1>9, <2>1, <2>2 DEF XBehind
<1>22. Shows([NoWork EXCEPT !.at = id], e, "RUNNING")
  BY <1>6, <1>8, <1>9, <1>10 DEF Shows, NoWork
<1> QED BY <1>1, <1>2, <1>6, <1>7, <1>9, <1>12, <1>14, <1>15, <1>16, <1>17, <1>19, <1>20, <1>21, <1>22
        DEF XStep, XLedger

\* The status changes of recover_interrupted, mark_delivered and fail: live attempts of A take
\* status st, of which no package is lost and no slot is reopened.
Moves(d, e, A, st) ==
  /\ st \in {"FAILED", "INTERRUPTED", "DELIVERED"} \cup Unresolved
  /\ st \in {"FAILED", "INTERRUPTED"} => \A a \in A : d.attempts[a].manifest = None
  /\ st \in Unresolved => \A a \in A : d.attempts[a].status = st
  /\ st = "DELIVERED" => \A a \in A : /\ e.slots[SlotOf(a)].status \in TERMINAL_SLOTS
                                      /\ d.attempts[a].manifest # None
  /\ DOMAIN e.attempts = DOMAIN d.attempts /\ DOMAIN e.jobs = DOMAIN d.jobs
  /\ \A a \in DOMAIN d.attempts :
       /\ e.attempts[a].manifest = d.attempts[a].manifest
       /\ IF a \in A THEN e.attempts[a].status = st /\ d.attempts[a].status \in Live
                     ELSE e.attempts[a].status = d.attempts[a].status
  /\ \A j \in DOMAIN d.jobs :
       \/ e.jobs[j].status = d.jobs[j].status
       \/ e.jobs[j].status \in {"failed", "interrupted"}
       \/ e.attempts[j[1]].status = "DELIVERED"
  /\ SlotsFinal(d, e) /\ d.watermark <= e.watermark

\* Such a change keeps what the dispatcher's ledger satisfies.
LEMMA MovedXStep ==
  ASSUME NEW d, XLedger(d), NEW e, LInv(e), LHistory(d, e), NEW A, NEW st, Moves(d, e, A, st)
  PROVE  XStep(d, e)
<1> USE DEF Moves
<1>1. LType(d) /\ LType(e)
  BY DEF XLedger, LInv, LWork
<1>2. XNumbered(e)
  <2>1. \A a : UploadsOf(e, a) = UploadsOf(d, a)
    BY SameUploads
  <2> QED BY <2>1 DEF XLedger, XNumbered
<1>3. XLost(e)
  BY <1>1, XLostKept DEF XLedger
<1>4. XManifest(e)
  BY StatusFacts DEF XLedger, XManifest
<1>5. XFinal(e)
  <2>1. \A a \in DOMAIN d.attempts : SlotOf(a) \in Slots
    BY <1>1 DEF LType, AttemptIds, SlotOf
  <2> QED BY <2>1, StatusFacts DEF XLedger, XFinal, SlotsFinal
<1>6. XPackage(e)
  <2> SUFFICES ASSUME NEW a \in DOMAIN e.attempts, NEW b \in AttemptsOf(e, SlotOf(a)),
                      AttemptNo(b) > AttemptNo(a), e.attempts[a].manifest # None
               PROVE  e.attempts[a].status \in {"INVALIDATED", "EXPIRED"}
    BY DEF XPackage
  <2>1. d.attempts[a].status \in {"INVALIDATED", "EXPIRED"}
    BY DEF XLedger, XPackage, AttemptsOf
  <2> QED BY <2>1, StatusFacts
<1>7. XBehind(e)
  <2>1. \A a \in DOMAIN d.attempts : SlotOf(a) \in Nat
    BY <1>1, LedgerAssumption DEF LType, AttemptIds, SlotOf
  <2> QED BY <1>1, <2>1 DEF XLedger, XBehind, LType
<1> QED BY <1>2, <1>3, <1>4, <1>5, <1>6, <1>7 DEF XStep, XLedger

\* A crashed computation is interrupted; the uploads it cut short are lost, not forgotten.
LEMMA RecoverXStep ==
  ASSUME NEW d, XLedger(d), NEW t \in Nat, CanRecover(d, t), NEW e, e = RecoverInterrupted(d, t)
  PROVE  XStep(d, e) /\ NoDelivery(d, e) /\ AttemptsIn(e, {"EXPORTED"}) \subseteq AttemptsIn(d, {"EXPORTED"})
<1>1. LInv(d) /\ LType(d) /\ d.watermark <= t
  BY DEF XLedger, LInv, LWork, CanRecover, Observes
<1>2. LInv(e) /\ LHistory(d, e)
  BY <1>1, RecoverCommits DEF Commits
<1> DEFINE dead == AttemptsIn(d, {"RUNNING"})
           J == JobsOf(d, AttemptsIn(d, {"RUNNING", "EXPORTED"}))
<1>3. /\ e.slots = SetSlots(d.slots, SlotsIn(d, dead, {"RUNNING"}), "INTERRUPTED", t)
      /\ e.attempts = SetAttempts(d.attempts, dead, "INTERRUPTED", t)
      /\ e.jobs = CloseJobs(d.jobs, J, "interrupted", t)
      /\ e.watermark = t
  BY DEF RecoverInterrupted, Ledger
<1>4. AttemptsSet(d.attempts, dead, "INTERRUPTED", t, e.attempts)
  BY <1>1, <1>3, SetAttemptsRows, StatusFacts DEF LType, AttemptStatus
<1>5. DOMAIN e.attempts = DOMAIN d.attempts /\ DOMAIN e.jobs = DOMAIN d.jobs
  BY <1>3, <1>4 DEF AttemptsSet, CloseJobs
<1>6. \A j \in DOMAIN d.jobs : e.jobs[j].status = d.jobs[j].status \/ e.jobs[j].status = "interrupted"
  BY <1>3 DEF CloseJobs
<1>7. \A a \in DOMAIN d.attempts :
        /\ e.attempts[a].manifest = d.attempts[a].manifest
        /\ IF a \in dead THEN e.attempts[a].status = "INTERRUPTED" /\ d.attempts[a].status \in Live
                         ELSE e.attempts[a].status = d.attempts[a].status
  BY <1>4, StatusFacts DEF AttemptsSet, AttemptsIn
<1>8. \A a \in dead : d.attempts[a].manifest = None
  BY DEF XLedger, XManifest, AttemptsIn
<1>9. SlotsFinal(d, e)
  BY <1>3, StatusFacts DEF SetSlots, SlotsIn, SlotsFinal
<1> HIDE DEF dead, J
<1>10. Moves(d, e, dead, "INTERRUPTED")
  BY <1>1, <1>3, <1>5, <1>6, <1>7, <1>8, <1>9, StatusFacts DEF Moves
<1>12. XStep(d, e)
  BY <1>2, <1>10, MovedXStep
<1>11. NoDelivery(d, e) /\ AttemptsIn(e, {"EXPORTED"}) \subseteq AttemptsIn(d, {"EXPORTED"})
  BY <1>5, <1>7 DEF NoDelivery, AttemptsIn
<1> QED BY <1>11, <1>12

\* What a recorded receipt of package m of attempt a does to attempts and uploads.
Delivered(d, a, m, e) ==
  /\ DOMAIN e.jobs = DOMAIN d.jobs /\ a \in DOMAIN e.attempts
  /\ e.attempts[a].status = "DELIVERED" /\ e.attempts[a].manifest = m
  /\ AttemptsIn(e, {"EXPORTED"}) \subseteq AttemptsIn(d, {"EXPORTED"})
  /\ AttemptsIn(e, {"DELIVERED"}) \subseteq AttemptsIn(d, {"DELIVERED"}) \cup {a}

\* A receipt delivers an exported attempt, once; its uploads have succeeded.
LEMMA DeliverXStep ==
  ASSUME NEW d, XLedger(d), NEW a, NEW m \in Manifests, NEW t \in Nat,
         CanMarkDelivered(d, a, m, t), NEW e, e = MarkDelivered(d, a, t)
  PROVE  XStep(d, e) /\ Delivered(d, a, m, e)
<1>1. LInv(d) /\ LType(d) /\ d.watermark <= t /\ a \in DOMAIN d.attempts
      /\ d.attempts[a].status \in {"EXPORTED", "DELIVERED"} /\ d.attempts[a].manifest = m
  BY DEF XLedger, LInv, LWork, CanMarkDelivered, Observes, AttemptsIn
<1>2. LInv(e) /\ LHistory(d, e)
  BY <1>1, MarkDeliveredCommits DEF Commits
<1> DEFINE A == IF d.attempts[a].status = "DELIVERED" THEN {} ELSE {a}
<1>3. CASE d.attempts[a].status = "DELIVERED"
  <2>1. /\ e.slots = d.slots /\ e.attempts = d.attempts /\ e.jobs = d.jobs /\ e.watermark = t
    BY <1>3 DEF MarkDelivered, ObserveClock, Ledger
  <2>2. SlotsFinal(d, e)
    BY <2>1 DEF SlotsFinal
  <2>3. XStep(d, e)
    <3>1. Moves(d, e, {}, "DELIVERED")
      BY <1>1, <2>1, <2>2 DEF Moves
    <3> QED BY <1>2, <3>1, MovedXStep
  <2> QED BY <1>1, <1>3, <2>1, <2>3 DEF AttemptsIn, Delivered
<1>4. CASE d.attempts[a].status = "EXPORTED"
  <2>1. /\ e.slots = SetSlots(d.slots, {s \in {SlotOf(a)} : d.slots[s].status = "EXPORTED"}, "DELIVERED", t)
        /\ e.attempts = SetAttempts(d.attempts, {a}, "DELIVERED", t)
        /\ e.jobs = CloseJobs(d.jobs, UploadsOf(d, a), "succeeded", t)
        /\ e.watermark = t
    BY <1>4 DEF MarkDelivered, Ledger
  <2>2. AttemptsSet(d.attempts, {a}, "DELIVERED", t, e.attempts)
    BY <1>1, <2>1, SetAttemptsRows, StatusFacts DEF LType, AttemptStatus
  <2>3. DOMAIN e.attempts = DOMAIN d.attempts /\ DOMAIN e.jobs = DOMAIN d.jobs
    BY <2>1, <2>2 DEF AttemptsSet, CloseJobs
  <2>4. \A b \in DOMAIN d.attempts :
          /\ e.attempts[b].manifest = d.attempts[b].manifest
          /\ IF b \in {a} THEN e.attempts[b].status = "DELIVERED" /\ d.attempts[b].status \in Live
                          ELSE e.attempts[b].status = d.attempts[b].status
    BY <1>4, <2>2, StatusFacts DEF AttemptsSet
  <2>5. \A j \in DOMAIN d.jobs : e.jobs[j].status = d.jobs[j].status
                                 \/ e.attempts[j[1]].status = "DELIVERED"
    BY <1>1, <2>1, <2>4 DEF CloseJobs, UploadsOf
  <2>6. SlotOf(a) \in Slots /\ d.slots[SlotOf(a)].status = "EXPORTED"
    BY <1>1, <1>4, StatusFacts DEF LType, AttemptIds, SlotOf, LInv, LTies, LFollows, AttemptsIn
  <2>7. SlotsFinal(d, e) /\ e.slots[SlotOf(a)].status = "DELIVERED"
    BY <2>1, <2>6, StatusFacts DEF SetSlots, SlotsFinal
  <2>8. "DELIVERED" \in TERMINAL_SLOTS /\ m # None
    BY LedgerAssumption DEF TERMINAL_SLOTS
  <2>9. XStep(d, e)
    <3>1. Moves(d, e, {a}, "DELIVERED")
      BY <1>1, <2>1, <2>3, <2>4, <2>5, <2>7, <2>8, StatusFacts DEF Moves
    <3> QED BY <1>2, <3>1, MovedXStep
  <2> QED BY <1>1, <1>4, <2>3, <2>4, <2>9 DEF AttemptsIn, Delivered
<1> QED BY <1>1, <1>3, <1>4

\* A failed run ends a computation and keeps a package.
LEMMA FailXStep ==
  ASSUME NEW d, XLedger(d), NEW a, NEW t \in Nat, CanFail(d, a, t), NEW e, e = Fail(d, a, t)
  PROVE  XStep(d, e) /\ NoDelivery(d, e) /\ AttemptsIn(e, {"EXPORTED"}) \subseteq AttemptsIn(d, {"EXPORTED"})
<1>1. LInv(d) /\ LType(d) /\ d.watermark <= t /\ a \in DOMAIN d.attempts /\ d.attempts[a].status \in Live
  BY DEF XLedger, LInv, LWork, CanFail, Observes, AttemptsIn
<1>2. LInv(e) /\ LHistory(d, e)
  BY <1>1, FailCommits DEF Commits
<1> DEFINE st == IF d.attempts[a].status \in Unresolved THEN d.attempts[a].status ELSE "FAILED"
<1>3. /\ e.slots = SetSlots(d.slots, {s \in {SlotOf(a)} : d.slots[s].status \notin TERMINAL_SLOTS}, st, t)
      /\ e.attempts = SetAttempts(d.attempts, {a}, st, t)
      /\ e.jobs = CloseJobs(d.jobs, JobsOf(d, {a}), "failed", t)
      /\ e.watermark = t
  BY DEF Fail, Ledger
<1>4. /\ st \in AttemptStatus /\ st \in {"FAILED"} \cup Unresolved
      /\ st \in Unresolved => d.attempts[a].status = st
      /\ st \notin Unresolved => d.attempts[a].status = "RUNNING" /\ d.attempts[a].manifest = None
      /\ st # "DELIVERED"
  BY <1>1, StatusFacts DEF AttemptStatus, XLedger, XManifest
<1> HIDE DEF st
<1>5. AttemptsSet(d.attempts, {a}, st, t, e.attempts)
  BY <1>1, <1>3, <1>4, SetAttemptsRows DEF LType
<1>6. DOMAIN e.attempts = DOMAIN d.attempts /\ DOMAIN e.jobs = DOMAIN d.jobs
  BY <1>3, <1>5 DEF AttemptsSet, CloseJobs
<1>7. \A b \in DOMAIN d.attempts :
        /\ e.attempts[b].manifest = d.attempts[b].manifest
        /\ IF b \in {a} THEN e.attempts[b].status = st /\ d.attempts[b].status \in Live
                        ELSE e.attempts[b].status = d.attempts[b].status
  BY <1>1, <1>5 DEF AttemptsSet
<1>8. \A j \in DOMAIN d.jobs : e.jobs[j].status = d.jobs[j].status \/ e.jobs[j].status = "failed"
  BY <1>3 DEF CloseJobs
<1>9. SlotsFinal(d, e)
  BY <1>3 DEF SetSlots, SlotsFinal
<1>10. XStep(d, e)
  <2>1. Moves(d, e, {a}, st)
    BY <1>1, <1>3, <1>4, <1>6, <1>7, <1>8, <1>9, StatusFacts DEF Moves
  <2> QED BY <1>2, <2>1, MovedXStep
<1>11. NoDelivery(d, e) /\ AttemptsIn(e, {"EXPORTED"}) \subseteq AttemptsIn(d, {"EXPORTED"})
  BY <1>1, <1>4, <1>6, <1>7 DEF NoDelivery, AttemptsIn
<1> QED BY <1>10, <1>11

\* mark_export_intent and mark_export bind one package to the newest attempt of an open slot.
LEMMA ExportXStep ==
  ASSUME NEW d, XLedger(d), NEW a, NEW m \in Manifests, m.content = a, NEW st \in Unresolved,
         NEW t \in Nat, CanRecordExport(d, a, m, t),
         d.slots[SlotOf(a)].status = d.attempts[a].status,
         NEW e, e = RecordExport(d, a, m, st, t)
  PROVE  /\ XStep(d, e) /\ NoDelivery(d, e)
         /\ DOMAIN e.attempts = DOMAIN d.attempts /\ e.jobs = d.jobs
         /\ \A b \in DOMAIN d.attempts : b # a => e.attempts[b] = d.attempts[b]
         /\ d.attempts[a].status \notin {st, "EXPORTED"} =>
              e.attempts[a].status = st /\ e.slots[SlotOf(a)].status = st /\ e.attempts[a].manifest = m
         /\ d.attempts[a].status \in {st, "EXPORTED"} => e.attempts = d.attempts /\ e.slots = d.slots
<1>1. LInv(d) /\ LType(d) /\ d.watermark <= t /\ a \in DOMAIN d.attempts
      /\ d.attempts[a].status \in Live /\ d.attempts[a].manifest \in {None, m}
  BY DEF XLedger, LInv, LWork, CanRecordExport, Observes
<1>2. LInv(e) /\ LHistory(d, e)
  BY <1>1, RecordExportCommits DEF Commits
<1>3. SlotOf(a) \in Slots /\ (\A b \in DOMAIN d.attempts : SlotOf(b) \in Slots) /\ d.watermark \in Nat
  BY <1>1 DEF LType, AttemptIds, SlotOf
<1>6. \A f : DOMAIN f.attempts = DOMAIN d.attempts /\ f.watermark = t => XBehind(f)
  <2>1. \A b \in DOMAIN d.attempts : SlotOf(b) \in Nat
    BY <1>3, LedgerAssumption
  <2> QED BY <1>1, <1>3, <2>1 DEF XLedger, XBehind
<1>4. CASE d.attempts[a].status \in {st, "EXPORTED"}
  <2>1. e.slots = d.slots /\ e.attempts = d.attempts /\ e.jobs = d.jobs /\ e.watermark = t
    BY <1>4 DEF RecordExport, ObserveClock, Ledger
  <2>2. \A b : UploadsOf(e, b) = UploadsOf(d, b)
    BY <2>1 DEF UploadsOf
  <2>3. XNumbered(e) /\ XLost(e) /\ XManifest(e) /\ XFinal(e) /\ XPackage(e)
    BY <2>1, <2>2 DEF XLedger, XNumbered, XLost, XManifest, XFinal, XPackage, AttemptsOf
  <2>4. XBehind(e)
    BY <1>6, <2>1
  <2>5. SlotsFinal(d, e) /\ NoDelivery(d, e)
    BY <2>1 DEF SlotsFinal, NoDelivery
  <2> QED BY <1>1, <1>2, <1>4, <2>1, <2>3, <2>4, <2>5 DEF XStep, XLedger
<1>5. CASE d.attempts[a].status \notin {st, "EXPORTED"}
  <2> DEFINE new == [status |-> st, updated |-> t, ident |-> d.attempts[a].ident, manifest |-> m]
  <2>1. /\ e.slots = SetSlots(d.slots, {SlotOf(a)}, st, t)
        /\ e.attempts = [b \in DOMAIN d.attempts |-> IF b = a THEN new ELSE d.attempts[b]]
        /\ e.jobs = d.jobs /\ e.watermark = t
    BY <1>5 DEF RecordExport, Ledger
  <2>2. new.status = st /\ new.manifest = m
    OBVIOUS
  <2> HIDE DEF new
  <2>3. /\ DOMAIN e.attempts = DOMAIN d.attempts /\ e.attempts[a] = new
        /\ \A b \in DOMAIN d.attempts : b # a => e.attempts[b] = d.attempts[b]
    BY <1>1, <2>1
  <2>4. /\ e.slots[SlotOf(a)].status = st
        /\ \A s \in Slots : s # SlotOf(a) => e.slots[s] = d.slots[s]
    BY <1>3, <2>1 DEF SetSlots
  <2>5. \A b : UploadsOf(e, b) = UploadsOf(d, b)
    BY <2>1 DEF UploadsOf
  <2>6. XNumbered(e)
    BY <2>3, <2>5 DEF XLedger, XNumbered
  <2>7. XLost(e)
    <3>1. \A j \in DOMAIN d.jobs : j[1] \in DOMAIN d.attempts
      BY <1>1 DEF LType
    <3> QED BY <1>1, <2>1, <2>3, <3>1, StatusFacts DEF XLedger, XLost
  <2>8. XManifest(e)
    BY <2>2, <2>3, StatusFacts DEF XLedger, XManifest
  <2>9. SlotsFinal(d, e)
    BY <1>1, <2>4, StatusFacts DEF SlotsFinal
  <2>10. XFinal(e)
    BY <1>1, <1>3, <2>2, <2>3, <2>4, <2>9, StatusFacts DEF XLedger, XFinal, SlotsFinal
  <2>11. XPackage(e)
    <3> SUFFICES ASSUME NEW c \in DOMAIN e.attempts, NEW b \in AttemptsOf(e, SlotOf(c)),
                        AttemptNo(b) > AttemptNo(c), e.attempts[c].manifest # None
                 PROVE  e.attempts[c].status \in {"INVALIDATED", "EXPIRED"}
      BY DEF XPackage
    <3>1. b \in AttemptsOf(d, SlotOf(c))
      BY <2>3 DEF AttemptsOf
    <3>2. CASE c = a
      <4>1. AttemptNo(b) <= AttemptNo(a)
        BY <1>1, <3>1, <3>2 DEF LInv, LWork, LNewest, AttemptsIn
      <4>2. AttemptNo(a) \in Nat /\ AttemptNo(b) \in Nat
        BY <1>1, <3>1 DEF LType, AttemptIds, AttemptNo, AttemptsOf
      <4> QED BY <3>2, <4>1, <4>2
    <3>3. CASE c # a
      BY <2>3, <3>1, <3>3 DEF XLedger, XPackage
    <3> QED BY <3>2, <3>3
  <2>12. XBehind(e)
    BY <1>6, <2>1, <2>3
  <2>13. NoDelivery(d, e)
    BY <2>2, <2>3 DEF NoDelivery, Unresolved
  <2> QED BY <1>1, <1>2, <1>5, <2>1, <2>2, <2>3, <2>4, <2>6, <2>7, <2>8, <2>9, <2>10, <2>11, <2>12, <2>13
          DEF XStep, XLedger
<1> QED BY <1>4, <1>5

\* Job k of a may be recorded without leaving a gap in the numbers of its uploads.
NumberedNext(d, a, k) ==
  \/ k = 0
  \/ <<a, k>> \in DOMAIN d.jobs
  \/ k \in 1..(MaxRetries + 1) /\ UploadsOf(d, a) = {<<a, i>> : i \in 1..(k - 1)}

\* The ledger e has job k of a recorded, and nothing else.
JobRecorded(d, a, k, st, e) ==
  /\ e.attempts = d.attempts /\ e.slots = d.slots
  /\ DOMAIN e.jobs = DOMAIN d.jobs \cup {<<a, k>>}
  /\ st = "running" => e.jobs[<<a, k>>].status = "running"
  /\ k = 0 => UploadsOf(e, a) = UploadsOf(d, a)

\* An upload of an attempt that is not delivered does not succeed.
NotFalselyDone(d, a, k, st) ==
  k = 0 \/ st \in {"running", "failed"} \/ d.attempts[a].status = "DELIVERED"

\* record_job keeps uploads numbered when it repeats a job, takes the next number, or is
\* about a computation.
LEMMA JobXStep ==
  ASSUME NEW d, XLedger(d), NEW a, NEW k \in Nat, NEW st \in JobStatus, NEW t \in Nat,
         CanRecordJob(d, a, k, st, t),
         NumberedNext(d, a, k),
         NotFalselyDone(d, a, k, st),
         NEW e, e = RecordJob(d, a, k, st, t)
  PROVE  XStep(d, e) /\ NoDelivery(d, e) /\ JobRecorded(d, a, k, st, e)
<1> DEFINE id == <<a, k>>
           same == id \in DOMAIN d.jobs /\ d.jobs[id].status # "running"
<1>1. LInv(d) /\ LType(d) /\ d.watermark <= t /\ a \in DOMAIN d.attempts /\ d.watermark \in Nat
  BY DEF XLedger, LInv, LWork, CanRecordJob, Observes, LType
<1>2. LInv(e) /\ LHistory(d, e)
  BY <1>1, RecordJobCommits DEF Commits
<1>3. /\ e.slots = d.slots /\ e.attempts = d.attempts /\ e.watermark = t
      /\ e.jobs = IF same THEN d.jobs
                  ELSE [j \in DOMAIN d.jobs \cup {id} |->
                          IF j = id THEN [status |-> st, at |-> t] ELSE d.jobs[j]]
  BY DEF RecordJob, Ledger
<1>4. same => d.jobs[id].status = st
  BY DEF CanRecordJob
<1>5. id[1] = a /\ id[2] = k
  OBVIOUS
<1> HIDE DEF id
<1>6. /\ DOMAIN e.jobs = DOMAIN d.jobs \cup {id}
      /\ e.jobs[id].status = st
      /\ \A j \in DOMAIN d.jobs : j # id => e.jobs[j] = d.jobs[j]
  BY <1>3, <1>4
<1>7. \A b : UploadsOf(e, b) = IF b = a /\ k >= 1 THEN UploadsOf(d, a) \cup {id} ELSE UploadsOf(d, b)
  BY <1>5, <1>6 DEF UploadsOf
<1>8. XNumbered(e)
  <2> SUFFICES ASSUME NEW b \in DOMAIN d.attempts
               PROVE  \E n \in 0..(MaxRetries + 1) : UploadsOf(e, b) = {<<b, i>> : i \in 1..n}
    BY <1>3 DEF XNumbered
  <2>1. CASE UploadsOf(e, b) = UploadsOf(d, b)
    BY <2>1 DEF XLedger, XNumbered
  <2>2. CASE UploadsOf(e, b) # UploadsOf(d, b)
    <3>1. b = a /\ k >= 1 /\ UploadsOf(e, a) = UploadsOf(d, a) \cup {id}
      BY <1>7, <2>2
    <3>2. id \notin DOMAIN d.jobs
      BY <1>5, <2>2, <3>1 DEF UploadsOf
    <3>3. k \in 1..(MaxRetries + 1) /\ UploadsOf(d, a) = {<<a, i>> : i \in 1..(k - 1)}
      BY <3>1, <3>2 DEF id, NumberedNext
    <3>4. UploadsOf(e, a) = {<<a, i>> : i \in 1..k}
      BY <3>1, <3>3 DEF id
    <3>5. k \in 0..(MaxRetries + 1)
      BY <3>3, LedgerAssumption
    <3> QED BY <3>1, <3>4, <3>5
  <2> QED BY <2>1, <2>2
<1>9. XLost(e)
  <2> SUFFICES ASSUME NEW j \in DOMAIN e.jobs, j[2] >= 1
               PROVE  \/ e.jobs[j].status \in {"running", "failed", "interrupted"}
                      \/ e.attempts[j[1]].status = "DELIVERED"
    BY DEF XLost
  <2>1. CASE j = id
    BY <1>3, <1>5, <1>6, <2>1 DEF NotFalselyDone
  <2>2. CASE j # id
    BY <1>3, <1>6, <2>2 DEF XLedger, XLost
  <2> QED BY <2>1, <2>2
<1>10. XManifest(e) /\ XFinal(e) /\ XPackage(e)
  BY <1>3 DEF XLedger, XManifest, XFinal, XPackage, AttemptsOf
<1>11. XBehind(e)
  <2>1. \A b \in DOMAIN d.attempts : SlotOf(b) \in Nat
    BY <1>1, LedgerAssumption DEF LType, AttemptIds, SlotOf
  <2> QED BY <1>1, <1>3, <2>1 DEF XLedger, XBehind
<1>12. SlotsFinal(d, e) /\ NoDelivery(d, e)
  BY <1>3 DEF SlotsFinal, NoDelivery
<1>13. k = 0 => UploadsOf(e, a) = UploadsOf(d, a)
  BY <1>7
<1>14. JobRecorded(d, a, k, st, e)
  BY <1>3, <1>6, <1>13 DEF JobRecorded, id
<1> QED BY <1>1, <1>2, <1>3, <1>8, <1>9, <1>10, <1>11, <1>12, <1>14 DEF XStep, XLedger

-----------------------------------------------------------------------------
(* How a step of one process leaves the control state. *)

\* The control points by the parts they play.
LEMMA PointFacts ==
  /\ Busy \subseteq Points /\ Working \subseteq Busy /\ Sending \subseteq Working
  /\ "idle" \in Points \ Busy /\ "start" \in Points \ Busy
  /\ \A l \in Points : l \notin Busy => l \in {"idle", "start"}
  /\ {"recover", "plan", "intents", "claim", "task", "compute", "export", "write", "mark",
      "announce", "send", "await", "receipt", "settle", "lost", "after", "except"} \subseteq Busy
  /\ {"task", "compute", "export", "write", "mark", "announce", "send", "await", "receipt",
      "settle", "lost", "after", "except"} \subseteq Working
BY DEF Busy, Points, Working, Sending

\* A process outside the lock relies on nothing but the identity it read.
LEMMA OutsideFresh ==
  ASSUME NEW l \in {"idle", "start"}, NEW w, l = "start" => w.ident \in Identities,
         NEW d, NEW out, NEW acc
  PROVE  Fresh(l, w, d, out, acc)
BY DEF Fresh, Working, Busy, Points, Sending

\* The process holding the lock moves on: the others are outside.
LEMMA ControlMoves ==
  ASSUME Processes, NEW p \in Procs, pc[p] \in Busy, NEW l \in Busy, NEW w \in Task,
         pc' = [pc EXCEPT ![p] = l], me' = [me EXCEPT ![p] = w], lock' = lock,
         clock' \in 0..MaxTime, deployed' \in Identities,
         Fresh(l, w, db', outbox', accepted')
  PROVE  Processes'
<1>1. /\ pc \in [Procs -> Points] /\ me \in [Procs -> Task] /\ lock \in Procs \cup {None}
      /\ lock = p
  BY DEF Processes, Shapes, Held
<1>2. Shapes'
  BY <1>1, PointFacts DEF Shapes
<1>3. Held'
  BY <1>1 DEF Processes, Held
<1>4. \A q \in Procs : Fresh(pc'[q], me'[q], db', outbox', accepted')
  <2> TAKE q \in Procs
  <2>1. CASE q = p
    BY <1>1, <2>1
  <2>2. CASE q # p
    <3>1. pc'[q] = pc[q] /\ me'[q] = me[q] /\ pc[q] \in {"idle", "start"}
      BY <1>1, <2>2, PointFacts DEF Processes, Held
    <3>2. pc[q] = "start" => me[q].ident \in Identities
      BY DEF Processes, Fresh
    <3> QED BY <3>1, <3>2, OutsideFresh
  <2> QED BY <2>1, <2>2
<1> QED BY <1>2, <1>3, <1>4 DEF Processes

\* The same for a process that keeps its local variables.
LEMMA ControlStays ==
  ASSUME Processes, NEW p \in Procs, pc[p] \in Busy, NEW l \in Busy, Stay(p, l),
         clock' \in 0..MaxTime, deployed' \in Identities,
         Fresh(l, me[p], db', outbox', accepted')
  PROVE  Processes'
<1>1. me \in [Procs -> Task]
  BY DEF Processes, Shapes
<1>2. me[p] \in Task /\ me' = [me EXCEPT ![p] = me[p]] /\ pc' = [pc EXCEPT ![p] = l] /\ lock' = lock
  BY <1>1 DEF Stay, Goto
<1> QED BY <1>2, ControlMoves

\* A process that ends gives the lock back and leaves everybody outside.
LEMMA ControlExits ==
  ASSUME Processes, NEW p \in Procs, pc[p] # "idle", Exit(p),
         clock' \in 0..MaxTime, deployed' \in Identities, pc[p] \in Busy \/ UNCHANGED <<db, outbox, accepted>>
  PROVE  Processes'
<1>1. /\ pc \in [Procs -> Points] /\ me \in [Procs -> Task] /\ lock \in Procs \cup {None}
      /\ pc[p] \in Busy <=> lock = p
      /\ None \notin Procs
  BY DispatchAssumption DEF Processes, Shapes, Held
<1>2. /\ pc' = [pc EXCEPT ![p] = "idle"] /\ me' = [me EXCEPT ![p] = NoWork]
      /\ lock' = IF lock = p THEN None ELSE lock
  BY DEF Exit, Goto
<1>3. NoWork \in Task
  BY DEF NoWork, Task
<1>4. Shapes'
  BY <1>1, <1>2, <1>3, PointFacts DEF Shapes
<1>5. Held'
  BY <1>1, <1>2, PointFacts DEF Processes, Held
<1>6. \A q \in Procs : Fresh(pc'[q], me'[q], db', outbox', accepted')
  <2> TAKE q \in Procs
  <2>1. CASE q = p
    BY <1>1, <1>2, <2>1, OutsideFresh
  <2>2. CASE q # p
    <3>1. pc'[q] = pc[q] /\ me'[q] = me[q] /\ Fresh(pc[q], me[q], db, outbox, accepted)
      BY <1>1, <1>2, <2>2 DEF Processes
    <3>2. CASE pc[p] \in Busy
      <4>1. pc[q] \in {"idle", "start"}
        BY <1>1, <2>2, <3>2, PointFacts DEF Processes, Held
      <4>2. pc[q] = "start" => me[q].ident \in Identities
        BY <3>1 DEF Fresh
      <4> QED BY <3>1, <4>1, <4>2, OutsideFresh
    <3>3. CASE pc[p] \notin Busy
      BY <3>1, <3>3
    <3> QED BY <3>2, <3>3
  <2> QED BY <2>1, <2>2
<1> QED BY <1>4, <1>5, <1>6 DEF Processes

\* The receiver may accept more; nothing a process relies on goes away.
LEMMA FreshGrows ==
  ASSUME NEW l, NEW w, NEW d, NEW out, NEW acc, NEW acd, acc \subseteq acd, Fresh(l, w, d, out, acc)
  PROVE  Fresh(l, w, d, out, acd)
BY DEF Fresh

\* No process moves.
LEMMA ControlRests ==
  ASSUME Processes, UNCHANGED <<db, lock, pc, me, outbox>>, accepted \subseteq accepted',
         clock' \in 0..MaxTime, deployed' \in Identities
  PROVE  Processes'
<1>1. Shapes' /\ Held'
  BY DEF Processes, Shapes, Held
<1>2. \A q \in Procs : Fresh(pc'[q], me'[q], db', outbox', accepted')
  BY FreshGrows DEF Processes
<1> QED BY <1>1, <1>2 DEF Processes

-----------------------------------------------------------------------------
(* Every step keeps the invariant, and touches the ledger only through its own methods. *)

Advances == DInv' /\ (db' = db \/ (LedgerNext /\ SlotsFinal(db, db')))

\* What a step that commits a transaction has to show before its control part is considered.
Recorded == World' /\ LedgerNext /\ SlotsFinal(db, db')
            /\ clock' \in 0..MaxTime /\ deployed' \in Identities /\ outbox' = outbox /\ accepted' = accepted

\* The clock can be handed to the ledger.
LEMMA ClockFacts ==
  ASSUME Shapes
  PROVE  clock \in Nat /\ clock \in Times /\ clock \in 0..MaxTime /\ deployed \in Identities
BY LedgerAssumption, DispatchAssumption DEF Shapes

\* A transaction that keeps the dispatcher's ledger keeps the world.
LEMMA CommitRecords ==
  ASSUME DInv, XStep(db, db'), LedgerNext, UNCHANGED <<env, outbox, net, receiver>>,
         \A a \in AttemptsIn(db', {"EXPORTED"}) :
           a \in AttemptsIn(db, {"EXPORTED"}) \/ db'.attempts[a].manifest \in outbox,
         \/ NoDelivery(db, db')
         \/ \A a \in AttemptsIn(db', {"DELIVERED"}) :
              a \in AttemptsIn(db, {"DELIVERED"}) \/ db'.attempts[a].manifest \in accepted
  PROVE  Recorded
<1>1. \A a \in AttemptsIn(db', {"DELIVERED"}) :
        a \in AttemptsIn(db, {"DELIVERED"}) \/ db'.attempts[a].manifest \in accepted
  BY DEF NoDelivery, AttemptsIn
<1>2. UNCHANGED <<outbox, net, accepted>> /\ clock' = clock /\ deployed' = deployed
  BY DEF env, receiver
<1>3. World'
  BY <1>1, <1>2, WorldKept DEF DInv
<1> QED BY <1>2, <1>3, ClockFacts DEF Recorded, XStep, DInv, Processes

\* Nothing durable changes.
LEMMA SameWorld ==
  ASSUME World, UNCHANGED <<db, outbox, net, accepted>>
  PROVE  World'
BY DEF World

\* A process that gives up without touching anything.
LEMMA Quits ==
  ASSUME DInv, NEW p \in Procs, pc[p] # "idle", NoCommit, Exit(p)
  PROVE  Advances
<1>1. UNCHANGED <<db, outbox, net, accepted, clock, deployed>>
  BY DEF NoCommit, env, receiver
<1>2. World' /\ Processes'
  BY <1>1, SameWorld, ControlExits, ClockFacts DEF DInv, Processes
<1> QED BY <1>1, <1>2 DEF Advances, DInv

\* A process that goes on without touching anything.
LEMMA Falls ==
  ASSUME DInv, NEW p \in Procs, pc[p] \in Busy, NEW l \in Busy, NoCommit, Stay(p, l),
         Fresh(l, me[p], db, outbox, accepted)
  PROVE  Advances
<1>1. UNCHANGED <<db, outbox, net, accepted, clock, deployed>>
  BY DEF NoCommit, env, receiver
<1>2. World' /\ Processes'
  BY <1>1, SameWorld, ControlStays, ClockFacts DEF DInv, Processes
<1> QED BY <1>1, <1>2 DEF Advances, DInv

\* A process that commits and ends, or commits and goes on.
LEMMA RecordsAndExits ==
  ASSUME DInv, NEW p \in Procs, pc[p] \in Busy, Recorded, Exit(p)
  PROVE  Advances
BY ControlExits, PointFacts DEF DInv, Recorded, Advances

\* A process that commits and goes on with the same local variables.
LEMMA RecordsAndStays ==
  ASSUME DInv, NEW p \in Procs, pc[p] \in Busy, NEW l \in Busy, Recorded, Stay(p, l),
         Fresh(l, me[p], db', outbox, accepted)
  PROVE  Advances
BY ControlStays DEF DInv, Recorded, Advances

\* A process that commits and goes on with new ones.
LEMMA RecordsAndMoves ==
  ASSUME DInv, NEW p \in Procs, pc[p] \in Busy, NEW l \in Busy, NEW w \in Task, Recorded,
         Goto(p, l), me' = [me EXCEPT ![p] = w], UNCHANGED lock,
         Fresh(l, w, db', outbox, accepted)
  PROVE  Advances
BY ControlMoves DEF DInv, Recorded, Advances, Goto

\* The error paths rely on the attempt only.
LEMMA WorkFresh ==
  ASSUME NEW w, w.ident \in Identities, NEW d, w.at \in DOMAIN d.attempts, NEW out, NEW acc
  PROVE  Fresh("except", w, d, out, acc) /\ Fresh("after", w, d, out, acc)
BY DEF Fresh, Sending

\* What a working process knows of itself.
LEMMA WorkFacts ==
  ASSUME DInv, NEW p \in Procs, pc[p] \in Busy
  PROVE  /\ me[p] \in Task /\ me[p].ident \in Identities
         /\ pc[p] \in Working => me[p].at \in DOMAIN db.attempts /\ me[p].at \in AttemptIds
         /\ Fresh(pc[p], me[p], db, outbox, accepted)
         /\ XLedger(db) /\ LInv(db) /\ LType(db)
         /\ clock \in Nat /\ clock \in Times /\ db.watermark \in Nat
BY ClockFacts, PointFacts DEF DInv, Processes, Shapes, Fresh, World, XLedger, LInv, LWork, LType

-----------------------------------------------------------------------------

\* A started process has read an identity and holds nothing.
LEMMA StartAdvances ==
  ASSUME DInv, NEW p \in Procs, Start(p)
  PROVE  Advances
<1>1. UNCHANGED <<db, outbox, net, accepted, clock, deployed, lock>>
  BY DEF Start, NoCommit, env, receiver
<1>2. World'
  BY <1>1, SameWorld DEF DInv
<1>3. /\ pc[p] = "idle" /\ pc' = [pc EXCEPT ![p] = "start"]
      /\ me' = [me EXCEPT ![p] = [me[p] EXCEPT !.ident = deployed]]
      /\ pc \in [Procs -> Points] /\ me \in [Procs -> Task] /\ me[p] \in Task /\ deployed \in Identities
  BY DEF Start, Goto, DInv, Processes, Shapes
<1>4. [me[p] EXCEPT !.ident = deployed] \in Task /\ [me[p] EXCEPT !.ident = deployed].ident \in Identities
  BY <1>3 DEF Task
<1>5. Shapes'
  BY <1>1, <1>3, <1>4, PointFacts DEF Shapes, DInv, Processes
<1>6. Held'
  BY <1>1, <1>3, PointFacts DEF Held, DInv, Processes
<1>7. \A q \in Procs : Fresh(pc'[q], me'[q], db', outbox', accepted')
  <2> TAKE q \in Procs
  <2>1. CASE q = p
    BY <1>3, <1>4, <2>1, OutsideFresh
  <2>2. CASE q # p
    BY <1>1, <1>3, <2>2 DEF DInv, Processes
  <2> QED BY <2>1, <2>2
<1> QED BY <1>1, <1>2, <1>5, <1>6, <1>7 DEF Advances, DInv, Processes

\* LocalRunLock.acquire lets one process past.
LEMMA AcquireAdvances ==
  ASSUME DInv, NEW p \in Procs, Acquire(p)
  PROVE  Advances
<1>1. NoCommit /\ pc[p] = "start" /\ UNCHANGED <<db, outbox, net, accepted, clock, deployed>>
  BY DEF Acquire, NoCommit, env, receiver
<1>2. CASE Exit(p)
  BY <1>1, <1>2, Quits
<1>3. CASE lock = None /\ lock' = p /\ Goto(p, "recover") /\ UNCHANGED me
  <2>1. World'
    BY <1>1, SameWorld DEF DInv
  <2>2. pc \in [Procs -> Points] /\ pc' = [pc EXCEPT ![p] = "recover"] /\ None \notin Procs
    BY <1>3, DispatchAssumption DEF Goto, DInv, Processes, Shapes
  <2>3. Shapes'
    BY <1>1, <1>3, <2>2, PointFacts DEF Shapes, DInv, Processes
  <2>4. \A q \in Procs : pc[q] \notin Busy
    BY <1>3, <2>2 DEF Held, DInv, Processes
  <2>5. Held'
    BY <1>3, <2>2, <2>4, PointFacts DEF Held
  <2>6. \A q \in Procs : Fresh(pc'[q], me'[q], db', outbox', accepted')
    <3> TAKE q \in Procs
    <3>1. CASE q = p
      <4>1. me[p].ident \in Identities
        BY <1>1 DEF DInv, Processes, Fresh
      <4> QED BY <1>3, <2>2, <3>1, <4>1 DEF Fresh, Working, Sending
    <3>2. CASE q # p
      BY <1>1, <1>3, <2>2, <3>2 DEF DInv, Processes
    <3> QED BY <3>1, <3>2
  <2> QED BY <1>1, <2>1, <2>3, <2>5, <2>6 DEF Advances, DInv, Processes
<1> QED BY <1>2, <1>3 DEF Acquire

\* recover_interrupted runs under the lock: no process works on what it closes.
LEMMA RecoverAdvances ==
  ASSUME DInv, NEW p \in Procs, Recover(p)
  PROVE  Advances
<1>1. pc[p] = "recover" /\ pc[p] \in Busy /\ pc[p] # "idle"
  BY PointFacts DEF Recover
<1>2. CASE NoCommit /\ Exit(p)
  BY <1>1, <1>2, Quits
<1>3. CASE CanRecover(db, clock) /\ Commit(RecoverInterrupted(db, clock)) /\ Stay(p, "plan")
  <2>1. db' = RecoverInterrupted(db, clock) /\ UNCHANGED <<env, outbox, net, receiver>>
    BY <1>3 DEF Commit
  <2>2. /\ XStep(db, db') /\ NoDelivery(db, db')
        /\ AttemptsIn(db', {"EXPORTED"}) \subseteq AttemptsIn(db, {"EXPORTED"})
    BY <1>1, <1>3, <2>1, WorkFacts, RecoverXStep
  <2>3. LedgerNext
    BY <1>1, <1>3, <2>1, WorkFacts DEF LedgerNext, RecoverStep
  <2>4. Recorded
    BY <2>1, <2>2, <2>3, CommitRecords
  <2>5. Fresh("plan", me[p], db', outbox, accepted)
    BY <1>1, WorkFacts DEF Fresh, Working, Sending
  <2> QED BY <1>1, <1>3, <2>4, <2>5, RecordsAndStays, PointFacts
<1> QED BY <1>2, <1>3 DEF Recover

-----------------------------------------------------------------------------
(* Newest slot, newest sequence. *)

\* A bounded set of numbers has a largest element.
LEMMA Largest ==
  ASSUME NEW S, S \subseteq Nat, S # {}, NEW k \in Nat, \A x \in S : x <= k
  PROVE  \E x \in S : \A y \in S : y <= x
<1> DEFINE T == {k - x : x \in S}
           L == OpToRel(<, Nat)
<1>1. T \subseteq Nat /\ T # {}
  <2>1. \A x \in S : x \in Nat /\ x <= k /\ k - x \in Nat
    OBVIOUS
  <2>2. PICK x \in S : TRUE
    OBVIOUS
  <2>3. k - x \in T
    BY <2>2
  <2> QED BY <2>1, <2>3
<1>2. IsWellFoundedOn(L, Nat)
  BY NatLessThanWellFounded
<1>3. \A i, j \in Nat : i < j => <<i, j>> \in L
  BY DEF OpToRel
<1> HIDE DEF L
<1>4. PICK z \in T : \A y \in T : <<y, z>> \notin L
  <2> HIDE DEF T
  <2> QED BY <1>1, <1>2, WFMin
<1>5. PICK x \in S : z = k - x
  OBVIOUS
<1>6. ASSUME NEW y \in S PROVE y <= x
  <2>1. k - y \in T /\ k - y \in Nat /\ z \in Nat
    BY <1>1
  <2>2. ~(k - y < z)
    BY <1>3, <1>4, <2>1
  <2>3. k \in Nat /\ x \in Nat /\ y \in Nat
    BY <1>5, <1>6
  <2> QED BY <1>5, <2>2, <2>3
<1> QED BY <1>6

\* The latest due slot is due, and no due slot is later.
LEMMA LatestDueIs ==
  ASSUME NEW t \in Nat, DueSlots(t) # {}
  PROVE  LatestDue(t) \in DueSlots(t) /\ \A r \in DueSlots(t) : r <= LatestDue(t)
<1>1. DueSlots(t) \subseteq Nat /\ \A r \in DueSlots(t) : r <= t
  BY LedgerAssumption DEF DueSlots, SessionSlots
<1>2. \E s \in DueSlots(t) : \A r \in DueSlots(t) : r <= s
  BY <1>1, Largest
<1> QED BY <1>2 DEF LatestDue

\* Days do not go back.
LEMMA SessionGrows ==
  ASSUME NEW x \in Nat, NEW y \in Nat, x <= y
  PROVE  Session(x) <= Session(y) /\ Session(x) \in Nat /\ Session(y) \in Nat
<1> DEFINE D == DayLength
           i == x \div D
           j == y \div D
<1>1. D \in Nat /\ D > 0
  BY LedgerAssumption
<1>2. /\ i \in Nat /\ x % D \in Nat /\ x % D < D /\ x = (D * i) + (x % D)
      /\ j \in Nat /\ y % D \in Nat /\ y % D < D /\ y = (D * j) + (y % D)
  BY <1>1
<1> HIDE DEF i, j, D
<1>3. i <= j
  <2> SUFFICES ASSUME j + 1 <= i PROVE FALSE
    BY <1>2
  <2>1. PICK n \in Nat : i = j + 1 + n
    <3>1. i - (j + 1) \in Nat /\ i = j + 1 + (i - (j + 1))
      BY <1>2
    <3> QED BY <3>1
  <2>2. D * i = D * j + D + D * n /\ D * n \in Nat /\ D * j \in Nat
    BY <1>1, <1>2, <2>1
  <2> DEFINE u == D * i
             v == D * j
             z == D * n
  <2>3. u = v + D + z /\ z \in Nat /\ v \in Nat /\ x = u + (x % D) /\ y = v + (y % D)
    BY <1>2, <2>2
  <2> HIDE DEF u, v, z
  <2> DEFINE a == x % D
             b == y % D
  <2>4. a \in Nat /\ b \in Nat /\ b < D /\ x = u + a /\ y = v + b
    BY <1>2, <2>3
  <2> HIDE DEF a, b
  <2> QED BY <1>1, <2>3, <2>4
<1> QED BY <1>2, <1>3 DEF Session, i, j, D

\* The slot plan_due hands out is the newest of all that were ever worked on.
LEMMA PlannedIsNewest ==
  ASSUME NEW e, XLedger(e), NEW t \in Nat, e.watermark = t, NEW trading, NEW s,
         s = PlannedSlot(e, t, trading)
  PROVE  s \in Slots \cup {None} /\ (s # None => Newest(e, s))
<1>1. CASE s = None
  BY <1>1
<1>2. CASE s # None
  <2>1. DueSlots(t) # {} /\ s = LatestDue(t)
    BY <1>2 DEF PlannedSlot
  <2>2. s \in DueSlots(t) /\ \A r \in DueSlots(t) : r <= s
    BY <2>1, LatestDueIs
  <2>3. s \in Slots /\ s \in Nat /\ Session(s) = Session(t)
    BY <2>2, LedgerAssumption DEF DueSlots, SessionSlots
  <2>4. ASSUME NEW b \in DOMAIN e.attempts PROVE SlotOf(b) <= s
    <3>1. SlotOf(b) \in Slots /\ SlotOf(b) \in Nat /\ SlotOf(b) <= t
      BY LedgerAssumption DEF XLedger, LInv, LWork, LType, AttemptIds, SlotOf, XBehind
    <3>2. CASE Session(SlotOf(b)) = Session(t)
      BY <2>2, <3>1, <3>2 DEF DueSlots, SessionSlots
    <3>3. CASE Session(SlotOf(b)) # Session(t)
      <4>1. Session(SlotOf(b)) <= Session(t) /\ Session(SlotOf(b)) \in Nat /\ Session(t) \in Nat
        BY <3>1, SessionGrows
      <4>2. ~(s <= SlotOf(b))
        <5>1. s <= SlotOf(b) => Session(s) <= Session(SlotOf(b))
          BY <2>3, <3>1, SessionGrows
        <5> QED BY <2>3, <3>3, <4>1, <5>1
      <4> QED BY <2>3, <3>1, <4>2
    <3> QED BY <3>2, <3>3
  <2> QED BY <2>3, <2>4 DEF Newest
<1> QED BY <1>1, <1>2

\* plan_due hands out a slot no attempt is later than.
LEMMA PlanAdvances ==
  ASSUME DInv, NEW p \in Procs, PlanVerified(p) \/ PlanUnverified(p)
  PROVE  Advances
<1> DEFINE trading == Session(clock) \in TradingDays
           planned == PlanDue(db, clock, trading, me[p].ident)
           s == PlannedSlot(planned, clock, trading)
<1>1. pc[p] = "plan" /\ pc[p] \in Busy /\ pc[p] # "idle"
  BY PointFacts DEF PlanVerified, PlanUnverified
<1>2. CASE NoCommit /\ Exit(p)
  BY <1>1, <1>2, Quits
<1>3. CASE CanPlanDue(db, clock) /\ Commit(planned)
           /\ \/ Exit(p)
              \/ me' = [me EXCEPT ![p].slot = s] /\ Goto(p, "intents") /\ UNCHANGED lock
  <2>1. trading \in BOOLEAN
    OBVIOUS
  <2> HIDE DEF trading
  <2>2. db' = planned /\ UNCHANGED <<env, outbox, net, receiver>>
    BY <1>3 DEF Commit
  <2>3. /\ XStep(db, db') /\ NoDelivery(db, db') /\ db'.watermark = clock
        /\ AttemptsIn(db', {"EXPORTED"}) \subseteq AttemptsIn(db, {"EXPORTED"})
    <3>1. Retires(ObserveClock(db, clock), db') /\ Commits(db, db')
      BY <1>1, <1>3, <2>1, <2>2, WorkFacts, PlanDueRetires, PlanDueCommits
    <3>2. db.watermark <= clock
      BY <1>3 DEF CanPlanDue, Observes
    <3> QED BY <1>1, <3>1, <3>2, WorkFacts, RetiresXStep, StatusFacts DEF AttemptsIn
  <2>4. LedgerNext
    BY <1>1, <1>3, <2>1, <2>2, WorkFacts DEF LedgerNext, PlanDueStep
  <2>5. Recorded
    BY <2>2, <2>3, <2>4, CommitRecords
  <2>6. CASE Exit(p)
    BY <1>1, <2>5, <2>6, RecordsAndExits
  <2>7. CASE me' = [me EXCEPT ![p].slot = s] /\ Goto(p, "intents") /\ UNCHANGED lock
    <3> DEFINE w == [me[p] EXCEPT !.slot = s]
    <3>1. s \in Slots \cup {None} /\ (s # None => Newest(db', s))
      BY <1>1, <2>2, <2>3, WorkFacts, PlannedIsNewest DEF XStep
    <3> HIDE DEF s
    <3>2. w \in Task /\ w.ident = me[p].ident /\ w.slot = s
      BY <1>1, <3>1, WorkFacts DEF Task
    <3>3. me' = [me EXCEPT ![p] = w]
      BY <2>7
    <3> HIDE DEF w
    <3>4. Fresh("intents", w, db', outbox, accepted)
      BY <1>1, <3>1, <3>2, WorkFacts DEF Fresh, Working, Sending
    <3> QED BY <1>1, <2>5, <2>7, <3>2, <3>3, <3>4, RecordsAndMoves, PointFacts
  <2> QED BY <1>3, <2>6, <2>7
<1> QED BY <1>2, <1>3 DEF PlanVerified, PlanUnverified

\* An export cut short is the newest work of its slot, so confirming it is sound.
LEMMA ResolveIntentAdvances ==
  ASSUME DInv, NEW p \in Procs, ResolveIntent(p)
  PROVE  Advances
<1>1. pc[p] = "intents" /\ pc[p] \in Busy /\ pc[p] # "idle"
  BY PointFacts DEF ResolveIntent
<1>2. PICK a \in ExportIntents(db) :
        LET m == db.attempts[a].manifest
        IN  \/ /\ PackageValid(p, m) /\ CanRecordExport(db, a, m, clock)
               /\ Commit(RecordExport(db, a, m, "EXPORTED", clock)) /\ Stay(p, "intents")
            \/ /\ CanQuarantine(db, a, clock)
               /\ Commit(QuarantineExport(db, a, clock)) /\ Stay(p, "intents")
            \/ NoCommit /\ Exit(p)
  BY DEF ResolveIntent
<1> DEFINE m == db.attempts[a].manifest
<1>3. /\ a \in DOMAIN db.attempts /\ db.attempts[a].status = "EXPORTING"
      /\ db.slots[SlotOf(a)].status = "EXPORTING"
  BY DEF ExportIntents, AttemptsIn
<1>4. m \in Manifests /\ m.content = a
  <2>1. m # None
    BY <1>1, <1>3, WorkFacts, StatusFacts DEF LInv, LWork, LExported, AttemptsIn
  <2> QED BY <1>1, <1>3, <2>1, WorkFacts DEF LType, AttemptRow, XLedger, XManifest
<1>5. CASE NoCommit /\ Exit(p)
  BY <1>1, <1>5, Quits
<1>6. ASSUME XStep(db, db'), NoDelivery(db, db'), LedgerNext, UNCHANGED <<env, outbox, net, receiver>>,
             DOMAIN db'.attempts = DOMAIN db.attempts, Stay(p, "intents"),
             \A b \in AttemptsIn(db', {"EXPORTED"}) :
               b \in AttemptsIn(db, {"EXPORTED"}) \/ db'.attempts[b].manifest \in outbox
      PROVE  Advances
  <2>1. Recorded
    BY <1>6, CommitRecords
  <2>2. Fresh("intents", me[p], db', outbox, accepted)
    BY <1>1, <1>6, WorkFacts DEF Fresh, Newest, Working, Sending
  <2> QED BY <1>1, <1>6, <2>1, <2>2, RecordsAndStays
<1>7. CASE /\ PackageValid(p, m) /\ CanRecordExport(db, a, m, clock)
           /\ Commit(RecordExport(db, a, m, "EXPORTED", clock)) /\ Stay(p, "intents")
  <2>1. db' = RecordExport(db, a, m, "EXPORTED", clock) /\ UNCHANGED <<env, outbox, net, receiver>>
        /\ m \in outbox
    BY <1>7 DEF Commit, PackageValid
  <2>2. "EXPORTED" \in Unresolved /\ "EXPORTING" # "EXPORTED"
    BY DEF Unresolved
  <2> HIDE DEF m
  <2>3. /\ XStep(db, db') /\ NoDelivery(db, db') /\ DOMAIN db'.attempts = DOMAIN db.attempts
        /\ \A b \in DOMAIN db.attempts : b # a => db'.attempts[b] = db.attempts[b]
        /\ db'.attempts[a].manifest = m
    BY <1>1, <1>3, <1>4, <1>7, <2>1, <2>2, WorkFacts, ExportXStep
  <2>4. \A b \in AttemptsIn(db', {"EXPORTED"}) :
          b \in AttemptsIn(db, {"EXPORTED"}) \/ db'.attempts[b].manifest \in outbox
    BY <2>1, <2>3 DEF AttemptsIn
  <2>5. LedgerNext
    BY <1>1, <1>3, <1>4, <1>7, <2>1, <2>2, WorkFacts DEF LedgerNext, RecordExportStep
  <2> QED BY <1>6, <1>7, <2>1, <2>3, <2>4, <2>5
<1>8. CASE /\ CanQuarantine(db, a, clock)
           /\ Commit(QuarantineExport(db, a, clock)) /\ Stay(p, "intents")
  <2>1. db' = QuarantineExport(db, a, clock) /\ UNCHANGED <<env, outbox, net, receiver>>
    BY <1>8 DEF Commit
  <2>2. /\ Retires(ObserveClock(db, clock), db') /\ Commits(db, db') /\ db.watermark <= clock
    BY <1>1, <1>8, <2>1, WorkFacts, QuarantineRetires, QuarantineCommits DEF CanQuarantine, Observes
  <2>3. /\ XStep(db, db') /\ NoDelivery(db, db') /\ DOMAIN db'.attempts = DOMAIN db.attempts
        /\ AttemptsIn(db', {"EXPORTED"}) \subseteq AttemptsIn(db, {"EXPORTED"})
    BY <1>1, <2>2, WorkFacts, RetiresXStep, StatusFacts DEF AttemptsIn
  <2>4. LedgerNext
    BY <1>1, <1>3, <1>8, <2>1, WorkFacts DEF LedgerNext, QuarantineStep
  <2> QED BY <1>6, <1>8, <2>1, <2>3, <2>4
<1> QED BY <1>2, <1>5, <1>7, <1>8

-----------------------------------------------------------------------------
(* Replay. *)

\* n numbered uploads are n.
LEMMA PairsCounted ==
  ASSUME NEW a, NEW n \in Nat
  PROVE  Cardinality({<<a, k>> : k \in 1..n}) = n /\ IsFiniteSet({<<a, k>> : k \in 1..n})
<1> DEFINE S == {<<a, k>> : k \in 1..n}
           f == [k \in 1..n |-> <<a, k>>]
<1>1. IsFiniteSet(1..n) /\ Cardinality(1..n) = n
  BY FS_Interval
<1>2. f \in Bijection(1..n, S)
  BY DEF Bijection, Injection, Surjection, IsInjective
<1>3. ExistsBijection(1..n, S)
  BY <1>2 DEF ExistsBijection
<1> QED BY <1>1, <1>3, FS_Bijection

\* All uploads of an exported attempt without a running one are lost; the next one is within
\* the budget.
LEMMA ReplayUpload ==
  ASSUME NEW d, XLedger(d), NEW a \in AttemptsIn(d, {"EXPORTED"}), ~RetriesSpent(d, a),
         \A j \in UploadsOf(d, a) : d.jobs[j].status # "running"
  PROVE  /\ Cardinality(UploadsOf(d, a)) + 1 \in 1..(MaxRetries + 1)
         /\ Cardinality(UploadsOf(d, a)) \in Nat
         /\ UploadsOf(d, a) = {<<a, k>> : k \in 1..Cardinality(UploadsOf(d, a))}
<1>1. PICK n \in 0..(MaxRetries + 1) : UploadsOf(d, a) = {<<a, k>> : k \in 1..n}
  BY DEF XLedger, XNumbered, AttemptsIn
<1> DEFINE P == {<<a, k>> : k \in 1..n}
<1>2. n \in Nat /\ Cardinality(UploadsOf(d, a)) = n /\ UploadsOf(d, a) = P
  <2>1. n \in Nat
    BY LedgerAssumption
  <2>2. Cardinality(P) = n
    BY <2>1, PairsCounted
  <2>3. UploadsOf(d, a) = P
    BY <1>1
  <2> HIDE DEF P
  <2> QED BY <2>1, <2>2, <2>3
<1>3. LostUploads(d, a) = UploadsOf(d, a)
  <2> SUFFICES ASSUME NEW j \in UploadsOf(d, a)
               PROVE  d.jobs[j].status \in {"failed", "interrupted"}
    BY DEF LostUploads
  <2>1. j \in DOMAIN d.jobs /\ j[1] = a /\ j[2] >= 1
    BY DEF UploadsOf
  <2>2. d.attempts[j[1]].status = "EXPORTED"
    BY <2>1 DEF AttemptsIn
  <2> QED BY <2>1, <2>2 DEF XLedger, XLost
<1>4. n < MaxRetries + 1
  BY <1>2, <1>3, LedgerAssumption DEF RetriesSpent
<1>5. n + 1 \in 1..(MaxRetries + 1)
  BY <1>2, <1>4, LedgerAssumption
<1>6. UploadsOf(d, a) = {<<a, k>> : k \in 1..Cardinality(UploadsOf(d, a))}
  BY <1>1, <1>2
<1> HIDE DEF P
<1> QED BY <1>2, <1>5, <1>6

\* pending_replay returns a row of the newest sequence among those ready.
LEMMA NextReplayIs ==
  ASSUME DInv, NEW t, NEW ident, NEW row, row = NextReplay(db, t, ident), row # None
  PROVE  row \in ReplayReady(db, t, ident) /\ row \notin ScannedRows(db, t, ident)
         /\ row \in AttemptsIn(db, {"EXPORTED"})
<1> DEFINE ready == ReplayReady(db, t, ident)
           S == {SeqOf(db, b) : b \in ready}
<1>1. ready # {} /\ row = CHOOSE a \in ready : \A b \in ready : SeqOf(db, b) <= SeqOf(db, a)
  BY DEF NextReplay
<1>2. ready \subseteq AttemptsIn(db, {"EXPORTED"})
  BY DEF ReplayReady, ReplayRows
<1>3. PICK k \in Nat : \A m \in outbox : m.seq <= k
  BY DEF DInv, World, Files
<1>4. \A b \in ready : SeqOf(db, b) \in Nat /\ SeqOf(db, b) <= k
  <2> TAKE b \in ready
  <2>1. db.attempts[b].manifest \in outbox /\ outbox \subseteq Manifests
    BY <1>2 DEF DInv, World, Files
  <2>2. db.attempts[b].manifest.seq \in Sequences
    BY <2>1 DEF Manifests
  <2> QED BY <1>3, <2>1, <2>2, LedgerAssumption DEF SeqOf
<1> HIDE DEF ready
<1>5. S \subseteq Nat /\ S # {} /\ \A x \in S : x <= k
  BY <1>1, <1>4
<1>6. \E x \in S : \A y \in S : y <= x
  <2> HIDE DEF S
  <2> QED BY <1>5, Largest
<1>7. \E a \in ready : \A b \in ready : SeqOf(db, b) <= SeqOf(db, a)
  BY <1>6
<1>8. row \in ready /\ \A b \in ready : SeqOf(db, b) <= SeqOf(db, row)
  BY <1>1, <1>7
<1>9. row \notin ScannedRows(db, t, ident)
  <2>1. ~(SeqOf(db, row) < SeqOf(db, row))
    BY <1>4, <1>8
  <2> QED BY <1>8, <2>1 DEF ScannedRows, ready
<1> QED BY <1>2, <1>8, <1>9 DEF ready

\* A due slot goes before a replay; a replay takes the next upload number of its package.
LEMMA PendingAdvances ==
  ASSUME DInv, NEW p \in Procs, Pending(p)
  PROVE  Advances
<1> DEFINE row == NextReplay(db, clock, me[p].ident)
           w == [me[p] EXCEPT !.at = row, !.replay = TRUE, !.up = Cardinality(UploadsOf(db, row)) + 1]
<1>1. pc[p] = "intents" /\ pc[p] \in Busy /\ pc[p] # "idle"
  BY PointFacts DEF Pending
<1>2. CASE NoCommit /\ Exit(p)
  BY <1>1, <1>2, Quits
<1>3. CASE CanPendingReplay(db, clock) /\ Commit(PendingReplay(db, clock, me[p].ident))
           /\ \/ me[p].slot # None /\ Stay(p, "claim")
              \/ Exit(p)
              \/ row # None /\ me' = [me EXCEPT ![p] = w] /\ Goto(p, "announce") /\ UNCHANGED lock
  <2>1. db' = PendingReplay(db, clock, me[p].ident) /\ UNCHANGED <<env, outbox, net, receiver>>
    BY <1>3 DEF Commit
  <2>2. Retires(ObserveClock(db, clock), db') /\ Commits(db, db') /\ db.watermark <= clock
    BY <1>1, <1>3, <2>1, WorkFacts, PendingReplayRetires, PendingReplayCommits DEF CanPendingReplay, Observes
  <2>3. /\ XStep(db, db') /\ NoDelivery(db, db') /\ DOMAIN db'.attempts = DOMAIN db.attempts
        /\ DOMAIN db'.jobs = DOMAIN db.jobs
        /\ AttemptsIn(db', {"EXPORTED"}) \subseteq AttemptsIn(db, {"EXPORTED"})
    BY <1>1, <2>2, WorkFacts, RetiresXStep, StatusFacts DEF AttemptsIn
  <2>4. LedgerNext
    BY <1>1, <1>3, <2>1, WorkFacts DEF LedgerNext, PendingReplayStep
  <2>5. Recorded
    BY <2>1, <2>3, <2>4, CommitRecords
  <2>6. CASE Exit(p)
    BY <1>1, <2>5, <2>6, RecordsAndExits
  <2>7. CASE me[p].slot # None /\ Stay(p, "claim")
    <3>1. Fresh("claim", me[p], db', outbox, accepted)
      BY <1>1, <2>3, <2>7, WorkFacts DEF Fresh, Newest, Working, Sending
    <3> QED BY <1>1, <2>5, <2>7, <3>1, RecordsAndStays, PointFacts
  <2>8. CASE row # None /\ me' = [me EXCEPT ![p] = w] /\ Goto(p, "announce") /\ UNCHANGED lock
    <3>1. row \in ReplayReady(db, clock, me[p].ident) /\ row \notin ScannedRows(db, clock, me[p].ident)
          /\ row \in AttemptsIn(db, {"EXPORTED"})
      BY <2>8, NextReplayIs
    <3>2. db'.attempts[row] = db.attempts[row]
      BY <2>1, <3>1 DEF PendingReplay, FinishExports, SetAttempts, Ledger, ObserveClock, AttemptsIn
    <3> HIDE DEF row
    <3>3. ~RetriesSpent(db, row) /\ \A j \in UploadsOf(db, row) : db.jobs[j].status # "running"
      BY <3>1 DEF ReplayReady
    <3>4. /\ Cardinality(UploadsOf(db, row)) + 1 \in 1..(MaxRetries + 1)
          /\ UploadsOf(db, row) = {<<row, k>> : k \in 1..Cardinality(UploadsOf(db, row))}
      BY <1>1, <3>1, <3>3, WorkFacts, ReplayUpload
    <3>5. UploadsOf(db', row) = UploadsOf(db, row)
      BY <2>3, SameUploads
    <3> DEFINE c == Cardinality(UploadsOf(db, row))
    <3>6. c \in Nat /\ (c + 1) - 1 = c
      <4>1. c + 1 \in 1..(MaxRetries + 1) /\ c \in Nat
        BY <1>1, <3>1, <3>3, WorkFacts, ReplayUpload
      <4> QED BY <4>1
    <3>7. row \in DOMAIN db.attempts /\ row \in AttemptIds /\ db.attempts[row].status = "EXPORTED"
      BY <1>1, <3>1, WorkFacts DEF AttemptsIn, LType
    <3>8. w \in Task /\ w.ident = me[p].ident /\ w.at = row /\ w.up = c + 1
      <4>1. me[p] \in Task /\ c + 1 \in Nat
        BY <1>1, <3>6, WorkFacts
      <4> HIDE DEF c
      <4>2. w = [me[p] EXCEPT !.at = row, !.replay = TRUE, !.up = c + 1]
        BY DEF c
      <4> HIDE DEF w
      <4> QED BY <3>7, <4>1, <4>2 DEF Task
    <3> HIDE DEF w, c
    <3>9. Fresh("announce", w, db', outbox, accepted)
      <4>1. UploadsOf(db', w.at) = {<<w.at, k>> : k \in 1..(w.up - 1)}
        BY <3>4, <3>5, <3>6, <3>8 DEF c
      <4>2. w.up \in 1..(MaxRetries + 1) /\ w.at \in DOMAIN db'.attempts
            /\ db'.attempts[w.at].status = "EXPORTED" /\ w.ident \in Identities
        BY <1>1, <2>3, <3>2, <3>4, <3>7, <3>8, WorkFacts DEF c
      <4> QED BY <4>1, <4>2 DEF Fresh, Working, Sending
    <3> QED BY <1>1, <2>5, <2>8, <3>8, <3>9, RecordsAndMoves, PointFacts
  <2> QED BY <1>3, <2>6, <2>7, <2>8
<1>4. \/ NoCommit /\ Exit(p)
      \/ /\ CanPendingReplay(db, clock) /\ Commit(PendingReplay(db, clock, me[p].ident))
         /\ \/ me[p].slot # None /\ Stay(p, "claim")
            \/ Exit(p)
            \/ row # None /\ me' = [me EXCEPT ![p] = w] /\ Goto(p, "announce") /\ UNCHANGED lock
  <2>1. me \in [Procs -> Task]
    BY DEF DInv, Processes, Shapes
  <2>2. [me EXCEPT ![p].at = row, ![p].replay = TRUE, ![p].up = Cardinality(UploadsOf(db, row)) + 1]
          = [me EXCEPT ![p] = w]
    BY <2>1 DEF Task
  <2> QED BY <2>2 DEF Pending
<1> QED BY <1>2, <1>3, <1>4

-----------------------------------------------------------------------------
(* Computing and exporting. *)

\* A claimed slot's new attempt runs and has no upload.
LEMMA ClaimAdvances ==
  ASSUME DInv, NEW p \in Procs, ClaimSlot(p)
  PROVE  Advances
<1> DEFINE s == me[p].slot
           id == <<s, LastAttempt(db, s) + 1>>
           w == [me[p] EXCEPT !.at = id, !.up = 1]
<1>1. pc[p] = "claim" /\ pc[p] \in Busy /\ pc[p] # "idle"
  BY PointFacts DEF ClaimSlot
<1>2. CASE NoCommit /\ Exit(p)
  BY <1>1, <1>2, Quits
<1>3. CASE /\ CanClaim(db, s, clock) /\ Commit(Claim(db, s, clock, me[p].ident))
           /\ me' = [me EXCEPT ![p].at = id, ![p].up = 1] /\ Goto(p, "task") /\ UNCHANGED lock
  <2>1. db' = Claim(db, s, clock, me[p].ident) /\ UNCHANGED <<env, outbox, net, receiver>>
    BY <1>3 DEF Commit
  <2>2. s \in Slots /\ Newest(db, s)
    BY <1>1, WorkFacts DEF Task, Fresh
  <2>3. me' = [me EXCEPT ![p] = w]
    BY <1>3
  <2>4. id = <<s, LastAttempt(db, s) + 1>> /\ w = [me[p] EXCEPT !.at = id, !.up = 1]
    OBVIOUS
  <2> HIDE DEF id, w
  <2>5. /\ XStep(db, db') /\ id \in AttemptIds
        /\ DOMAIN db'.attempts = DOMAIN db.attempts \cup {id} /\ db'.jobs = db.jobs
        /\ \A a \in DOMAIN db.attempts : db'.attempts[a] = db.attempts[a]
        /\ SlotOf(id) = s /\ UploadsOf(db', id) = {}
        /\ Shows([NoWork EXCEPT !.at = id], db', "RUNNING")
    BY <1>1, <1>3, <2>1, <2>2, <2>4, WorkFacts, ClaimXStep
  <2>6. db'.attempts[id].status = "RUNNING" /\ db'.slots[s].status = "RUNNING"
    BY <2>5 DEF Shows, NoWork
  <2>7. LedgerNext
    BY <1>1, <1>3, <2>1, <2>2, WorkFacts DEF LedgerNext, ClaimStep
  <2>8. /\ \A a \in AttemptsIn(db', {"EXPORTED"}) : a \in AttemptsIn(db, {"EXPORTED"})
        /\ \A a \in AttemptsIn(db', {"DELIVERED"}) : a \in AttemptsIn(db, {"DELIVERED"})
    BY <2>5, <2>6 DEF AttemptsIn
  <2>9. Recorded
    BY <2>1, <2>5, <2>7, <2>8, CommitRecords
  <2>10. w \in Task /\ w.ident = me[p].ident /\ w.at = id /\ w.up = 1
    BY <1>1, <2>4, <2>5, WorkFacts DEF Task
  <2>11. Newest(db', s)
    <3>1. s \in Nat
      BY <2>2, LedgerAssumption
    <3> QED BY <2>2, <2>5, <3>1 DEF Newest
  <2>12. Fresh("task", w, db', outbox, accepted)
    BY <1>1, <2>5, <2>6, <2>10, <2>11, WorkFacts DEF Fresh, Shows, Unsent, Working, Sending
  <2> QED BY <1>1, <1>3, <2>3, <2>9, <2>10, <2>12, RecordsAndMoves, PointFacts
<1> QED BY <1>2, <1>3 DEF ClaimSlot

\* The job numbers and statuses the dispatcher uses are the ledger's.
LEMMA JobNoFacts ==
  /\ 0 \in JobNos /\ \A k \in 1..(MaxRetries + 1) : k \in JobNos /\ k \in Nat
  /\ {"running", "succeeded", "failed"} \subseteq JobStatus
BY LedgerAssumption, DispatchAssumption DEF JobStatus

\* Recording a computation task changes nothing else.
LEMMA TaskRecords ==
  ASSUME DInv, NEW p \in Procs, pc[p] \in {"task", "compute"}, NEW st \in {"running", "succeeded", "failed"},
         CanRecordJob(db, me[p].at, 0, st, clock), Commit(RecordJob(db, me[p].at, 0, st, clock))
  PROVE  /\ Recorded
         /\ Fresh("compute", me[p], db', outbox, accepted) /\ Fresh("export", me[p], db', outbox, accepted)
         /\ Fresh("after", me[p], db', outbox, accepted)
<1>1. pc[p] \in Working /\ pc[p] \in Busy
  BY PointFacts
<1>2. db' = RecordJob(db, me[p].at, 0, st, clock) /\ UNCHANGED <<env, outbox, net, receiver>>
  BY DEF Commit
<1>3. /\ XStep(db, db') /\ NoDelivery(db, db') /\ db'.attempts = db.attempts /\ db'.slots = db.slots
      /\ UploadsOf(db', me[p].at) = UploadsOf(db, me[p].at)
  <2>1. st \in JobStatus /\ XLedger(db) /\ clock \in Nat
    BY <1>1, WorkFacts, JobNoFacts
  <2>2. NumberedNext(db, me[p].at, 0) /\ NotFalselyDone(db, me[p].at, 0, st)
    BY DEF NumberedNext, NotFalselyDone
  <2>3. XStep(db, db') /\ NoDelivery(db, db') /\ JobRecorded(db, me[p].at, 0, st, db')
    BY <1>2, <2>1, <2>2, JobXStep
  <2> QED BY <2>3 DEF JobRecorded
<1>4. LedgerNext
  BY <1>1, <1>2, WorkFacts, JobNoFacts DEF LedgerNext, RecordJobStep
<1>5. Recorded
  BY <1>2, <1>3, <1>4, CommitRecords DEF AttemptsIn
<1>6. /\ Shows(me[p], db, "RUNNING") /\ Unsent(me[p], db) /\ Newest(db, SlotOf(me[p].at))
  BY <1>1, WorkFacts DEF Fresh
<1>7. /\ Shows(me[p], db', "RUNNING") /\ Unsent(me[p], db') /\ Newest(db', SlotOf(me[p].at))
      /\ me[p].at \in DOMAIN db'.attempts /\ me[p].ident \in Identities
  BY <1>1, <1>3, <1>6, WorkFacts DEF Shows, Unsent, Newest
<1> QED BY <1>5, <1>7 DEF Fresh, Sending

\* on_task before the computation.
LEMMA TaskStartAdvances ==
  ASSUME DInv, NEW p \in Procs, TaskStart(p)
  PROVE  Advances
<1>1. pc[p] = "task" /\ pc[p] \in Busy /\ pc[p] \in Working
  BY PointFacts DEF TaskStart
<1>2. CASE NoCommit /\ Stay(p, "except")
  BY <1>1, <1>2, WorkFacts, WorkFresh, Falls, PointFacts
<1>3. CASE /\ CanRecordJob(db, me[p].at, 0, "running", clock)
           /\ Commit(RecordJob(db, me[p].at, 0, "running", clock)) /\ Stay(p, "compute")
  BY <1>1, <1>3, TaskRecords, RecordsAndStays, PointFacts
<1> QED BY <1>2, <1>3 DEF TaskStart

\* on_task after it.
LEMMA TaskEndAdvances ==
  ASSUME DInv, NEW p \in Procs, TaskEnd(p)
  PROVE  Advances
<1>1. pc[p] = "compute" /\ pc[p] \in Busy /\ pc[p] \in Working
  BY PointFacts DEF TaskEnd
<1>2. CASE NoCommit /\ Stay(p, "except")
  BY <1>1, <1>2, WorkFacts, WorkFresh, Falls, PointFacts
<1>3. ASSUME NEW st \in {"succeeded", "failed"}, CanRecordJob(db, me[p].at, 0, st, clock),
             Commit(RecordJob(db, me[p].at, 0, st, clock)),
             Stay(p, IF st = "succeeded" THEN "export" ELSE "after")
      PROVE  Advances
  <2>1. Recorded /\ Fresh("export", me[p], db', outbox, accepted) /\ Fresh("after", me[p], db', outbox, accepted)
    BY <1>1, <1>3, TaskRecords
  <2>2. Stay(p, "export") \/ Stay(p, "after")
    BY <1>3
  <2> QED BY <1>1, <2>1, <2>2, RecordsAndStays, PointFacts
<1> QED BY <1>2, <1>3 DEF TaskEnd

\* The next sequence number is above every bundle in the outbox.
LEMMA NextSequenceIs ==
  ASSUME DInv
  PROVE  \A m \in outbox : m.seq < NextSequence
<1> DEFINE S == {clock} \cup {m.seq + 1 : m \in outbox} \cup {1}
<1>1. PICK k \in Nat : \A m \in outbox : m.seq <= k
  BY DEF DInv, World, Files
<1>3. clock \in Nat
  BY ClockFacts DEF DInv, Processes
<1>2. \A m \in outbox : m.seq \in Nat /\ m.seq + 1 <= k + clock + 1 /\ m.seq + 1 \in S
  <2> TAKE m \in outbox
  <2>1. m \in Manifests
    BY DEF DInv, World, Files
  <2>2. m.seq \in Nat
    BY <2>1, LedgerAssumption DEF Manifests
  <2>3. m.seq + 1 <= k + clock + 1
    BY <1>1, <1>3, <2>2
  <2> QED BY <2>2, <2>3
<1>4. S \subseteq Nat /\ S # {} /\ k + clock + 1 \in Nat /\ \A x \in S : x <= k + clock + 1
  BY <1>1, <1>2, <1>3
<1>5. NextSequence = CHOOSE q \in S : \A r \in S : r <= q
  BY DEF NextSequence
<1> HIDE DEF S
<1>6. \E q \in S : \A r \in S : r <= q
  BY <1>4, Largest
<1>7. NextSequence \in S /\ \A r \in S : r <= NextSequence
  BY <1>5, <1>6
<1>8. NextSequence \in Nat
  BY <1>4, <1>7
<1> QED BY <1>2, <1>7, <1>8

\* The intent is numbered above every bundle in the outbox.
LEMMA ExportIntentAdvances ==
  ASSUME DInv, NEW p \in Procs, ExportIntent(p)
  PROVE  Advances
<1> DEFINE m == [seq |-> NextSequence, ident |-> me[p].ident, expires |-> clock + BundleTTL,
                 content |-> me[p].at]
           a == me[p].at
<1>1. pc[p] = "export" /\ pc[p] \in Busy /\ pc[p] \in Working
  BY PointFacts DEF ExportIntent
<1>2. CASE NoCommit /\ (Stay(p, "except") \/ Stay(p, "after"))
  BY <1>1, <1>2, WorkFacts, WorkFresh, Falls, PointFacts
<1>3. CASE /\ m \in Manifests /\ CanRecordExport(db, a, m, clock)
           /\ Commit(RecordExport(db, a, m, "EXPORTING", clock)) /\ Stay(p, "write")
  <2>1. m.content = a /\ m.seq = NextSequence
    OBVIOUS
  <2> HIDE DEF m
  <2>2. db' = RecordExport(db, a, m, "EXPORTING", clock) /\ UNCHANGED <<env, outbox, net, receiver>>
    BY <1>3 DEF Commit
  <2>3. /\ a \in DOMAIN db.attempts /\ me[p].ident \in Identities
        /\ Shows(me[p], db, "RUNNING") /\ Unsent(me[p], db) /\ Newest(db, SlotOf(a))
    BY <1>1, WorkFacts DEF Fresh
  <2>4. db.attempts[a].status = "RUNNING" /\ db.slots[SlotOf(a)].status = db.attempts[a].status
    BY <2>3 DEF Shows
  <2>5. "EXPORTING" \in Unresolved /\ "RUNNING" \notin {"EXPORTING", "EXPORTED"}
    BY DEF Unresolved
  <2>6. /\ XStep(db, db') /\ NoDelivery(db, db')
        /\ DOMAIN db'.attempts = DOMAIN db.attempts /\ db'.jobs = db.jobs
        /\ \A b \in DOMAIN db.attempts : b # a => db'.attempts[b] = db.attempts[b]
        /\ db'.attempts[a].status = "EXPORTING" /\ db'.slots[SlotOf(a)].status = "EXPORTING"
        /\ db'.attempts[a].manifest = m
    BY <1>1, <1>3, <2>1, <2>2, <2>4, <2>5, WorkFacts, ExportXStep
  <2>7. LedgerNext
    BY <1>1, <1>3, <2>2, <2>3, <2>5, WorkFacts DEF LedgerNext, RecordExportStep
  <2>8. AttemptsIn(db', {"EXPORTED"}) \subseteq AttemptsIn(db, {"EXPORTED"})
    BY <2>6 DEF AttemptsIn
  <2>9. Recorded
    BY <2>2, <2>6, <2>7, <2>8, CommitRecords
  <2>10. \A n \in outbox : n.seq < SeqOf(db', a)
    BY <2>1, <2>6, NextSequenceIs DEF SeqOf
  <2>11. Unsent(me[p], db') /\ Newest(db', SlotOf(a)) /\ Shows(me[p], db', "EXPORTING")
    BY <2>3, <2>6 DEF Unsent, Newest, Shows, UploadsOf
  <2>12. Fresh("write", me[p], db', outbox, accepted)
    BY <2>3, <2>6, <2>10, <2>11 DEF Fresh, Sending
  <2> QED BY <1>1, <1>3, <2>9, <2>12, RecordsAndStays, PointFacts
<1> QED BY <1>2, <1>3 DEF ExportIntent

\* The bundle of the newest slot goes behind every bundle in the outbox.
LEMMA WriteBundleAdvances ==
  ASSUME DInv, NEW p \in Procs, WriteBundle(p)
  PROVE  Advances
<1> DEFINE m == Package(p)
           a == me[p].at
<1>1. pc[p] = "write" /\ pc[p] \in Busy /\ pc[p] \in Working
  BY PointFacts DEF WriteBundle
<1>2. CASE NoCommit /\ Stay(p, "except")
  BY <1>1, <1>2, WorkFacts, WorkFresh, Falls, PointFacts
<1>3. CASE outbox' = outbox \cup {Package(p)} /\ Stay(p, "mark") /\ UNCHANGED <<db, env, net, receiver>>
  <2>1. outbox' = outbox \cup {m} /\ UNCHANGED <<db, net, accepted, clock, deployed>>
    BY <1>3 DEF env, receiver
  <2>2. /\ a \in DOMAIN db.attempts /\ me[p].ident \in Identities /\ XLedger(db) /\ LInv(db) /\ LType(db)
        /\ Shows(me[p], db, "EXPORTING") /\ Unsent(me[p], db) /\ Newest(db, SlotOf(a))
        /\ \A n \in outbox : n.seq < SeqOf(db, a)
    BY <1>1, WorkFacts DEF Fresh
  <2>3. m \in Manifests /\ m.content = a /\ m.seq \in Nat /\ m = db.attempts[a].manifest
        /\ SeqOf(db, a) = m.seq
    <3>1. db.attempts[a].manifest # None
      BY <2>2, StatusFacts DEF Shows, LInv, LWork, LExported, AttemptsIn
    <3>2. m \in Manifests /\ m = db.attempts[a].manifest
      BY <2>2, <3>1 DEF LType, AttemptRow, Package
    <3> QED BY <2>2, <3>1, <3>2, LedgerAssumption DEF XLedger, XManifest, Manifests, SeqOf
  <2> HIDE DEF m
  <2>4. Files(db, outbox')
    <3>1. Files(db, outbox)
      BY DEF DInv, World
    <3>2. outbox' \subseteq Manifests
      BY <2>1, <2>3, <3>1 DEF Files
    <3>3. \A n \in outbox' : n.content \in DOMAIN db.attempts /\ db.attempts[n.content].manifest = n
      BY <2>1, <2>2, <2>3, <3>1 DEF Files
    <3>4. \A b \in AttemptsIn(db, {"EXPORTED"}) : db.attempts[b].manifest \in outbox'
      BY <2>1, <3>1 DEF Files
    <3>5. \A n, q \in outbox' : SlotOf(n.content) < SlotOf(q.content) => n.seq < q.seq
      <4> SUFFICES ASSUME NEW n \in outbox', NEW q \in outbox', SlotOf(n.content) < SlotOf(q.content)
                   PROVE  n.seq < q.seq
        OBVIOUS
      <4>1. SlotOf(n.content) \in Nat /\ SlotOf(q.content) \in Nat /\ SlotOf(n.content) <= SlotOf(a)
            /\ SlotOf(q.content) <= SlotOf(a) /\ SlotOf(a) \in Nat
        <5>1. \A b \in DOMAIN db.attempts : SlotOf(b) \in Nat /\ SlotOf(b) <= SlotOf(a)
          BY <2>2, LedgerAssumption DEF LType, AttemptIds, SlotOf, Newest
        <5>2. n.content \in DOMAIN db.attempts /\ q.content \in DOMAIN db.attempts
          BY <3>3
        <5> QED BY <2>2, <5>1, <5>2
      <4>2. n # m
        BY <2>3, <4>1
      <4>3. CASE q = m
        BY <2>1, <2>2, <2>3, <4>2, <4>3
      <4>4. CASE q # m
        BY <2>1, <3>1, <4>2, <4>4 DEF Files
      <4> QED BY <4>3, <4>4
    <3>6. \E k \in Nat : \A n \in outbox' : n.seq <= k
      <4>1. PICK k \in Nat : \A n \in outbox : n.seq <= k
        BY <3>1 DEF Files
      <4>2. \A n \in outbox : n.seq \in Nat
        BY <3>1, LedgerAssumption DEF Files, Manifests
      <4>3. PICK i \in Nat : i = m.seq
        BY <2>3
      <4>4. k + i \in Nat /\ i <= k + i /\ \A n \in outbox : n.seq <= k + i
        BY <4>1, <4>2
      <4> QED BY <2>1, <4>3, <4>4
    <3> QED BY <3>2, <3>3, <3>4, <3>5, <3>6 DEF Files
  <2>5. Sent(db, outbox', net)
    BY <2>1 DEF DInv, World, Sent
  <2>6. World'
    BY <2>1, <2>2, <2>4, <2>5 DEF DInv, World
  <2>7. Fresh("mark", me[p], db', outbox', accepted')
    BY <2>1, <2>2, <2>3 DEF Fresh, Sending
  <2>8. Processes'
    BY <1>1, <1>3, <2>1, <2>7, ControlStays, ClockFacts, PointFacts DEF DInv, Processes
  <2> QED BY <2>1, <2>6, <2>8 DEF Advances, DInv
<1> QED BY <1>2, <1>3 DEF WriteBundle

\* The written bundle is confirmed and still has no upload.
LEMMA ConfirmExportAdvances ==
  ASSUME DInv, NEW p \in Procs, ConfirmExport(p)
  PROVE  Advances
<1> DEFINE m == Package(p)
           a == me[p].at
<1>1. pc[p] = "mark" /\ pc[p] \in Busy /\ pc[p] \in Working
  BY PointFacts DEF ConfirmExport
<1>2. CASE NoCommit /\ Stay(p, "except")
  BY <1>1, <1>2, WorkFacts, WorkFresh, Falls, PointFacts
<1>3. CASE /\ CanRecordExport(db, a, m, clock)
           /\ Commit(RecordExport(db, a, m, "EXPORTED", clock)) /\ Stay(p, "announce")
  <2>1. db' = RecordExport(db, a, m, "EXPORTED", clock) /\ UNCHANGED <<env, outbox, net, receiver>>
    BY <1>3 DEF Commit
  <2>2. /\ a \in DOMAIN db.attempts /\ me[p].ident \in Identities /\ XLedger(db) /\ LInv(db) /\ LType(db)
        /\ Shows(me[p], db, "EXPORTING") /\ Unsent(me[p], db) /\ db.attempts[a].manifest \in outbox
        /\ m = db.attempts[a].manifest
    BY <1>1, WorkFacts DEF Fresh, Package
  <2>3. m \in Manifests /\ m.content = a
    <3>1. m # None
      BY <2>2, StatusFacts DEF Shows, LInv, LWork, LExported, AttemptsIn
    <3> QED BY <2>2, <3>1 DEF LType, AttemptRow, XLedger, XManifest
  <2> HIDE DEF m
  <2>4. db.attempts[a].status = "EXPORTING" /\ db.slots[SlotOf(a)].status = db.attempts[a].status
        /\ "EXPORTED" \in Unresolved
    BY <2>2 DEF Shows, Unresolved
  <2>5. /\ XStep(db, db') /\ NoDelivery(db, db')
        /\ DOMAIN db'.attempts = DOMAIN db.attempts /\ db'.jobs = db.jobs
        /\ \A b \in DOMAIN db.attempts : b # a => db'.attempts[b] = db.attempts[b]
        /\ db'.attempts[a].status = "EXPORTED" /\ db'.attempts[a].manifest = m
    BY <1>1, <1>3, <2>1, <2>3, <2>4, WorkFacts, ExportXStep
  <2>6. LedgerNext
    BY <1>1, <1>3, <2>1, <2>2, <2>3, <2>4, WorkFacts DEF LedgerNext, RecordExportStep
  <2>7. \A b \in AttemptsIn(db', {"EXPORTED"}) :
          b \in AttemptsIn(db, {"EXPORTED"}) \/ db'.attempts[b].manifest \in outbox
    BY <2>2, <2>5 DEF AttemptsIn
  <2>8. Recorded
    BY <2>1, <2>5, <2>6, <2>7, CommitRecords
  <2>9. Fresh("announce", me[p], db', outbox, accepted)
    <3>1. me[p].up = 1 /\ UploadsOf(db', a) = {}
      BY <2>2, <2>5 DEF Unsent, UploadsOf
    <3>2. UploadsOf(db', a) = {<<a, k>> : k \in 1..(me[p].up - 1)} /\ me[p].up \in 1..(MaxRetries + 1)
      BY <3>1, LedgerAssumption
    <3> QED BY <2>2, <2>5, <3>2 DEF Fresh, Sending
  <2> QED BY <1>1, <1>3, <2>8, <2>9, RecordsAndStays, PointFacts
<1> QED BY <1>2, <1>3 DEF ConfirmExport

-----------------------------------------------------------------------------
(* Uploading. *)

\* Recording the current upload of an open or delivered attempt.
LEMMA UploadRecords ==
  ASSUME DInv, NEW p \in Procs, pc[p] \in Working, NEW k \in 1..(MaxRetries + 1),
         NEW st \in {"running", "succeeded", "failed"},
         NumberedNext(db, me[p].at, k), NotFalselyDone(db, me[p].at, k, st),
         CanRecordJob(db, me[p].at, k, st, clock), Commit(RecordJob(db, me[p].at, k, st, clock))
  PROVE  Recorded /\ JobRecorded(db, me[p].at, k, st, db')
<1>1. db' = RecordJob(db, me[p].at, k, st, clock) /\ UNCHANGED <<env, outbox, net, receiver>>
  BY DEF Commit
<1>2. k \in Nat /\ k \in JobNos /\ st \in JobStatus /\ XLedger(db) /\ clock \in Nat /\ clock \in Times
      /\ me[p].at \in DOMAIN db.attempts
  BY WorkFacts, JobNoFacts, PointFacts
<1>3. XStep(db, db') /\ NoDelivery(db, db') /\ JobRecorded(db, me[p].at, k, st, db')
  BY <1>1, <1>2, JobXStep
<1>4. LedgerNext
  BY <1>1, <1>2 DEF LedgerNext, RecordJobStep
<1>5. Recorded
  BY <1>1, <1>3, <1>4, CommitRecords DEF AttemptsIn, JobRecorded
<1> QED BY <1>3, <1>5

\* on_upload records the next upload before its request leaves.
LEMMA AnnounceAdvances ==
  ASSUME DInv, NEW p \in Procs, Announce(p)
  PROVE  Advances
<1> DEFINE a == me[p].at
           k == me[p].up
<1>1. pc[p] = "announce" /\ pc[p] \in Busy /\ pc[p] \in Working
  BY PointFacts DEF Announce
<1>2. CASE NoCommit /\ Stay(p, "except")
  BY <1>1, <1>2, WorkFacts, WorkFresh, Falls, PointFacts
<1>3. CASE /\ CanRecordJob(db, a, k, "running", clock)
           /\ Commit(RecordJob(db, a, k, "running", clock)) /\ Stay(p, "send")
  <2>1. /\ a \in DOMAIN db.attempts /\ me[p].ident \in Identities
        /\ db.attempts[a].status = "EXPORTED" /\ k \in 1..(MaxRetries + 1)
        /\ UploadsOf(db, a) = {<<a, i>> : i \in 1..(k - 1)}
    BY <1>1, WorkFacts DEF Fresh
  <2>2. NumberedNext(db, a, k) /\ NotFalselyDone(db, a, k, "running")
    BY <2>1 DEF NumberedNext, NotFalselyDone
  <2>3. Recorded /\ JobRecorded(db, a, k, "running", db')
    BY <1>1, <1>3, <2>1, <2>2, UploadRecords
  <2>4. Fresh("send", me[p], db', outbox, accepted)
    BY <2>1, <2>3 DEF Fresh, Sending, JobRecorded
  <2> QED BY <1>1, <1>3, <2>3, <2>4, RecordsAndStays, PointFacts
<1> QED BY <1>2, <1>3 DEF Announce

\* A request carries an exported package whose upload is recorded.
LEMMA SendAdvances ==
  ASSUME DInv, NEW p \in Procs, Send(p) \/ Resend(p)
  PROVE  Advances
<1> DEFINE a == me[p].at
           k == me[p].up
           m == db.attempts[a].manifest
<1>1. /\ pc[p] = "send" /\ pc[p] \in Busy /\ pc[p] \in Working /\ Stay(p, "await")
      /\ net' = net \cup {<<m, k>>} /\ UNCHANGED <<db, outbox, accepted, clock, deployed>>
  BY PointFacts DEF Send, Resend, Post, env, receiver, Package
<1>2. /\ a \in DOMAIN db.attempts /\ me[p].ident \in Identities /\ k \in 1..(MaxRetries + 1)
      /\ db.attempts[a].status = "EXPORTED"
      /\ <<a, k>> \in DOMAIN db.jobs /\ db.jobs[<<a, k>>].status = "running"
  BY <1>1, WorkFacts, PointFacts DEF Fresh, Sending
<1>3. m \in outbox /\ m \in Manifests /\ k \in Nat
  BY <1>2 DEF DInv, World, Files, AttemptsIn
<1>4. Sent(db, outbox, net')
  <2> SUFFICES ASSUME NEW r \in net'
               PROVE  /\ r \in Manifests \X Nat /\ r[1] \in outbox
                      /\ \E b \in DOMAIN db.attempts : /\ db.attempts[b].manifest = r[1]
                                                      /\ <<b, r[2]>> \in DOMAIN db.jobs
    BY DEF Sent
  <2>1. CASE r \in net
    BY <2>1 DEF DInv, World, Sent
  <2>2. CASE r = <<m, k>>
    BY <1>2, <1>3, <2>2
  <2> QED BY <1>1, <2>1, <2>2
<1>5. World'
  BY <1>1, <1>4 DEF DInv, World
<1>6. Fresh("await", me[p], db', outbox', accepted')
  BY <1>1, <1>2 DEF Fresh, Sending
<1>7. Processes'
  BY <1>1, <1>6, ControlStays, ClockFacts, PointFacts DEF DInv, Processes
<1> QED BY <1>1, <1>5, <1>7 DEF Advances, DInv

\* The upload a process gave up can still be recorded as lost.
LEMMA LostFresh ==
  ASSUME DInv, NEW p \in Procs, pc[p] \in Sending
  PROVE  Fresh("lost", me[p], db, outbox, accepted)
BY WorkFacts, PointFacts DEF Fresh, Sending

\* A refused, invalid or unanswered upload.
LEMMA GiveUpAdvances ==
  ASSUME DInv, NEW p \in Procs, GiveUp(p)
  PROVE  Advances
<1>1. pc[p] \in Sending /\ pc[p] \in Busy /\ NoCommit /\ Stay(p, "lost")
  BY PointFacts DEF GiveUp, Sending
<1> QED BY <1>1, LostFresh, Falls, PointFacts

\* mark_delivered follows an answer of the receiver, which accepted the package.
LEMMA ReceiptAdvances ==
  ASSUME DInv, NEW p \in Procs, Receipt(p)
  PROVE  Advances
<1> DEFINE a == me[p].at
           m == Package(p)
<1>1. pc[p] = "receipt" /\ pc[p] \in Sending /\ pc[p] \in Busy /\ pc[p] \in Working
  BY PointFacts DEF Receipt, Sending
<1>2. CASE NoCommit /\ Stay(p, "lost")
  BY <1>1, <1>2, LostFresh, Falls, PointFacts
<1>3. CASE /\ CanMarkDelivered(db, a, m, clock) /\ Commit(MarkDelivered(db, a, clock)) /\ Stay(p, "settle")
  <2>1. db' = MarkDelivered(db, a, clock) /\ UNCHANGED <<env, outbox, net, receiver>>
    BY <1>3 DEF Commit
  <2>2. /\ a \in DOMAIN db.attempts /\ me[p].ident \in Identities /\ XLedger(db) /\ LInv(db) /\ LType(db)
        /\ db.attempts[a].status = "EXPORTED" /\ me[p].up \in 1..(MaxRetries + 1)
        /\ <<a, me[p].up>> \in DOMAIN db.jobs /\ m = db.attempts[a].manifest /\ m \in accepted
    BY <1>1, WorkFacts DEF Fresh, Package, Sending
  <2>3. m \in Manifests
    <3>1. m # None
      BY <2>2, StatusFacts DEF LInv, LWork, LExported, AttemptsIn
    <3> QED BY <2>2, <3>1 DEF LType, AttemptRow
  <2> HIDE DEF m
  <2>4. XStep(db, db') /\ Delivered(db, a, m, db')
    BY <1>1, <1>3, <2>1, <2>3, WorkFacts, DeliverXStep
  <2>5. LedgerNext
    BY <1>1, <1>3, <2>1, <2>2, <2>3, WorkFacts DEF LedgerNext, MarkDeliveredStep
  <2>6. Recorded
    BY <2>1, <2>2, <2>4, <2>5, CommitRecords DEF Delivered
  <2>7. Fresh("settle", me[p], db', outbox, accepted)
    BY <2>2, <2>4 DEF Fresh, Sending, Delivered
  <2> QED BY <1>1, <1>3, <2>6, <2>7, RecordsAndStays, PointFacts
<1> QED BY <1>2, <1>3 DEF Receipt

\* The answered upload succeeds, after its attempt was delivered.
LEMMA SettleAdvances ==
  ASSUME DInv, NEW p \in Procs, Settle(p)
  PROVE  Advances
<1> DEFINE a == me[p].at
           k == me[p].up
<1>1. pc[p] = "settle" /\ pc[p] \in Sending /\ pc[p] \in Busy /\ pc[p] \in Working
  BY PointFacts DEF Settle, Sending
<1>2. CASE NoCommit /\ Stay(p, "lost")
  BY <1>1, <1>2, LostFresh, Falls, PointFacts
<1>3. CASE /\ CanRecordJob(db, a, k, "succeeded", clock)
           /\ Commit(RecordJob(db, a, k, "succeeded", clock)) /\ Exit(p)
  <2>1. db.attempts[a].status = "DELIVERED" /\ k \in 1..(MaxRetries + 1) /\ <<a, k>> \in DOMAIN db.jobs
    BY <1>1, WorkFacts DEF Fresh
  <2>2. NumberedNext(db, a, k) /\ NotFalselyDone(db, a, k, "succeeded")
    BY <2>1 DEF NumberedNext, NotFalselyDone
  <2>3. Recorded
    BY <1>1, <1>3, <2>1, <2>2, UploadRecords
  <2> QED BY <1>1, <1>3, <2>3, RecordsAndExits
<1> QED BY <1>2, <1>3 DEF Settle

\* The lost upload fails; the package is kept.
LEMMA LostAdvances ==
  ASSUME DInv, NEW p \in Procs, Lost(p)
  PROVE  Advances
<1> DEFINE a == me[p].at
           k == me[p].up
<1>1. pc[p] = "lost" /\ pc[p] \in Sending /\ pc[p] \in Busy /\ pc[p] \in Working
  BY PointFacts DEF Lost, Sending
<1>2. CASE NoCommit /\ Stay(p, "except")
  BY <1>1, <1>2, WorkFacts, WorkFresh, Falls, PointFacts
<1>3. CASE /\ CanRecordJob(db, a, k, "failed", clock)
           /\ Commit(RecordJob(db, a, k, "failed", clock)) /\ Exit(p)
  <2>1. k \in 1..(MaxRetries + 1) /\ <<a, k>> \in DOMAIN db.jobs
    BY <1>1, WorkFacts DEF Fresh
  <2>2. NumberedNext(db, a, k) /\ NotFalselyDone(db, a, k, "failed")
    BY <2>1 DEF NumberedNext, NotFalselyDone
  <2>3. Recorded
    BY <1>1, <1>3, <2>1, <2>2, UploadRecords
  <2> QED BY <1>1, <1>3, <2>3, RecordsAndExits
<1> QED BY <1>2, <1>3 DEF Lost

-----------------------------------------------------------------------------
(* Failed runs, the outer except clause, and crashes. *)

\* Failing the run of a process.
LEMMA FailRecords ==
  ASSUME DInv, NEW p \in Procs, pc[p] \in Working,
         CanFail(db, me[p].at, clock), Commit(Fail(db, me[p].at, clock))
  PROVE  Recorded
<1>1. db' = Fail(db, me[p].at, clock) /\ UNCHANGED <<env, outbox, net, receiver>>
  BY DEF Commit
<1>2. XLedger(db) /\ clock \in Nat /\ clock \in Times /\ me[p].at \in DOMAIN db.attempts
  BY WorkFacts, PointFacts
<1>3. /\ XStep(db, db') /\ NoDelivery(db, db')
      /\ AttemptsIn(db', {"EXPORTED"}) \subseteq AttemptsIn(db, {"EXPORTED"})
  BY <1>1, <1>2, FailXStep
<1>4. LedgerNext
  BY <1>1, <1>2 DEF LedgerNext, FailStep
<1> QED BY <1>1, <1>3, <1>4, CommitRecords

\* run_job returned a failure: the attempt is failed.
LEMMA RunFailedAdvances ==
  ASSUME DInv, NEW p \in Procs, RunFailed(p)
  PROVE  Advances
<1>1. pc[p] = "after" /\ pc[p] \in Busy /\ pc[p] \in Working
  BY PointFacts DEF RunFailed
<1>2. CASE NoCommit /\ Stay(p, "except")
  BY <1>1, <1>2, WorkFacts, WorkFresh, Falls, PointFacts
<1>3. CASE CanFail(db, me[p].at, clock) /\ Commit(Fail(db, me[p].at, clock)) /\ Exit(p)
  BY <1>1, <1>3, FailRecords, RecordsAndExits
<1> QED BY <1>2, <1>3 DEF RunFailed

\* The except clause either fails the attempt, records its first upload as failed, which is
\* then its only upload or one that was recorded already, or leaves the ledger alone.
LEMMA ExceptAdvances ==
  ASSUME DInv, NEW p \in Procs, Except(p)
  PROVE  Advances
<1> DEFINE a == me[p].at
<1>1. pc[p] = "except" /\ pc[p] \in Busy /\ pc[p] \in Working /\ pc[p] # "idle" /\ Exit(p)
  BY PointFacts DEF Except
<1>2. CASE NoCommit
  BY <1>1, <1>2, Quits
<1>3. CASE CanFail(db, a, clock) /\ Commit(Fail(db, a, clock))
  BY <1>1, <1>3, FailRecords, RecordsAndExits
<1>4. CASE /\ db.attempts[a].status = "EXPORTED" /\ CanRecordJob(db, a, 1, "failed", clock)
           /\ Commit(RecordJob(db, a, 1, "failed", clock))
  <2>1. 1 \in 1..(MaxRetries + 1) /\ XNumbered(db) /\ a \in DOMAIN db.attempts
    BY <1>1, WorkFacts, LedgerAssumption DEF XLedger
  <2>2. NumberedNext(db, a, 1)
    <3>1. PICK n \in 0..(MaxRetries + 1) : UploadsOf(db, a) = {<<a, i>> : i \in 1..n}
      BY <2>1 DEF XNumbered
    <3>2. n \in Nat
      BY LedgerAssumption
    <3>3. CASE <<a, 1>> \in DOMAIN db.jobs
      BY <2>1, <3>3 DEF NumberedNext
    <3>4. CASE <<a, 1>> \notin DOMAIN db.jobs
      <4>1. <<a, 1>> \notin UploadsOf(db, a)
        BY <3>4 DEF UploadsOf
      <4>2. 1 \notin 1..n
        BY <3>1, <4>1
      <4>3. n = 0
        BY <3>2, <4>2
      <4>4. UploadsOf(db, a) = {<<a, i>> : i \in 1..(1 - 1)}
        BY <3>1, <4>3
      <4> QED BY <2>1, <4>4 DEF NumberedNext
    <3> QED BY <3>3, <3>4
  <2>3. NotFalselyDone(db, a, 1, "failed")
    BY DEF NotFalselyDone
  <2>4. Recorded
    BY <1>1, <1>4, <2>1, <2>2, <2>3, UploadRecords
  <2> QED BY <1>1, <2>4, RecordsAndExits
<1> QED BY <1>1, <1>2, <1>3, <1>4 DEF Except

\* A crash frees the lock and touches nothing durable.
LEMMA CrashAdvances ==
  ASSUME DInv, NEW p \in Procs, Crash(p)
  PROVE  Advances
<1>1. pc[p] # "idle" /\ Exit(p) /\ UNCHANGED <<db, clock, deployed, outbox, net, receiver>>
  BY DEF Crash
<1>2. UNCHANGED <<db, outbox, net, accepted, clock, deployed>>
  BY <1>1 DEF receiver
<1>3. World' /\ Processes'
  BY <1>1, <1>2, SameWorld, ControlExits, ClockFacts DEF DInv, Processes
<1> QED BY <1>2, <1>3 DEF Advances, DInv

-----------------------------------------------------------------------------
(* The network, the receiver and the environment. *)

\* Requests leave the network, generations are only ever added.
LEMMA NetworkMoves ==
  ASSUME World, net' \subseteq net, accepted \subseteq accepted', UNCHANGED <<db, outbox>>
  PROVE  World'
BY DEF World, Sent, Received

\* The answer of an accepted generation reaches the process that waits for it.
LEMMA DeliverAdvances ==
  ASSUME DInv, NEW r \in net, Deliver(r)
  PROVE  Advances
<1>1. /\ net' = net \ {r} /\ UNCHANGED <<db, env, lock, me, outbox>>
      /\ accepted \subseteq accepted' /\ r[1] \in accepted'
  BY DEF Deliver, R!Accept, R!Acknowledged, receiver
<1>2. UNCHANGED <<db, lock, me, outbox, clock, deployed>> /\ clock' \in 0..MaxTime /\ deployed' \in Identities
  BY <1>1, ClockFacts DEF env, DInv, Processes
<1>3. World'
  BY <1>1, <1>2, NetworkMoves DEF DInv
<1>4. CASE UNCHANGED pc
  BY <1>1, <1>2, <1>3, <1>4, ControlRests DEF Advances, DInv
<1>5. ASSUME NEW p \in Procs, pc[p] = "await", Package(p) = r[1], Goto(p, "receipt")
      PROVE  Advances
  <2>1. pc[p] \in Busy /\ pc[p] \in Sending /\ me[p] \in Task
    BY <1>5, PointFacts, WorkFacts DEF Sending
  <2>2. Fresh("await", me[p], db, outbox, accepted')
    BY <1>1, <1>5, <2>1, WorkFacts, FreshGrows
  <2>3. Fresh("receipt", me[p], db', outbox', accepted')
    BY <1>1, <1>2, <1>5, <2>2, PointFacts DEF Fresh, Package, Sending
  <2>4. Stay(p, "receipt")
    BY <1>2, <1>5 DEF Stay
  <2>5. Processes'
    BY <1>2, <2>1, <2>3, <2>4, ControlStays, PointFacts DEF DInv
  <2> QED BY <1>2, <1>3, <2>5 DEF Advances, DInv
<1> QED BY <1>4, <1>5 DEF Deliver

\* A lost request leaves everything as it is.
LEMMA DropAdvances ==
  ASSUME DInv, NEW r \in net, Drop(r)
  PROVE  Advances
<1>1. net' \subseteq net /\ UNCHANGED <<db, lock, pc, me, outbox, accepted, clock, deployed>>
  BY DEF Drop, env, receiver
<1>2. World' /\ Processes'
  BY <1>1, NetworkMoves, ControlRests, ClockFacts DEF DInv, Processes
<1> QED BY <1>1, <1>2 DEF Advances, DInv

\* Time, the wall clock and deployments: whatever they do, no process relies on them.
LEMMA EnvironmentAdvances ==
  ASSUME DInv, Tick \/ SetClockBack \/ Deploy \/ UNCHANGED vars
  PROVE  Advances
<1>1. UNCHANGED <<db, lock, pc, me, outbox, net, accepted>>
  BY DEF Tick, SetClockBack, Deploy, vars, receiver
<1>2. clock \in 0..MaxTime /\ deployed \in Identities /\ MaxTime \in Nat
  BY ClockFacts, DispatchAssumption DEF DInv, Processes
<1>3. clock' \in 0..MaxTime
  BY <1>2 DEF Tick, SetClockBack, Deploy, vars
<1>4. deployed' \in Identities
  BY <1>2 DEF Tick, SetClockBack, Deploy, vars
<1>5. World' /\ Processes'
  BY <1>1, <1>3, <1>4, SameWorld, ControlRests DEF DInv
<1> QED BY <1>1, <1>5 DEF Advances, DInv

-----------------------------------------------------------------------------
(* The invariant. *)

\* Nothing is planned, sent or held at first.
LEMMA InitAdvances == DispatchInit => DInv
<1> SUFFICES ASSUME DispatchInit PROVE DInv
  OBVIOUS
<1>1. /\ LedgerInit /\ latest = None /\ accepted = {} /\ clock = 0 /\ deployed \in Identities
      /\ lock = None /\ pc = [p \in Procs |-> "idle"] /\ me = [p \in Procs |-> NoWork]
      /\ outbox = {} /\ net = {}
  BY DEF DispatchInit, R!Init
<1>2. LInv(db) /\ DOMAIN db.attempts = {} /\ DOMAIN db.jobs = {}
  BY <1>1, InitInv DEF LedgerInit, EmptyLedger, Ledger
<1>3. XLedger(db)
  BY <1>2 DEF XLedger, XNumbered, XLost, XManifest, XFinal, XPackage, XBehind
<1>4. Files(db, outbox) /\ Sent(db, outbox, net) /\ Received(db, accepted)
  BY <1>1, <1>2 DEF Files, Sent, Received, AttemptsIn
<1>5. NoWork \in Task
  BY DEF NoWork, Task
<1>6. Shapes /\ Held
  BY <1>1, <1>5, PointFacts, DispatchAssumption DEF Shapes, Held
<1>7. \A p \in Procs : Fresh(pc[p], me[p], db, outbox, accepted)
  BY <1>1, OutsideFresh
<1> QED BY <1>3, <1>4, <1>6, <1>7 DEF DInv, World, Processes

\* One step of one process.
LEMMA StepAdvances ==
  ASSUME DInv, NEW p \in Procs, Step(p)
  PROVE  Advances
<1>1. CASE Start(p)
  BY <1>1, StartAdvances
<1>2. CASE Acquire(p)
  BY <1>2, AcquireAdvances
<1>3. CASE Recover(p)
  BY <1>3, RecoverAdvances
<1>4. CASE PlanUnverified(p) \/ PlanVerified(p)
  BY <1>4, PlanAdvances
<1>5. CASE ResolveIntent(p)
  BY <1>5, ResolveIntentAdvances
<1>6. CASE Pending(p)
  BY <1>6, PendingAdvances
<1>7. CASE ClaimSlot(p)
  BY <1>7, ClaimAdvances
<1>8. CASE TaskStart(p)
  BY <1>8, TaskStartAdvances
<1>9. CASE TaskEnd(p)
  BY <1>9, TaskEndAdvances
<1>10. CASE ExportIntent(p)
  BY <1>10, ExportIntentAdvances
<1>11. CASE WriteBundle(p)
  BY <1>11, WriteBundleAdvances
<1>12. CASE ConfirmExport(p)
  BY <1>12, ConfirmExportAdvances
<1>13. CASE Announce(p)
  BY <1>13, AnnounceAdvances
<1>14. CASE Send(p) \/ Resend(p)
  BY <1>14, SendAdvances
<1>15. CASE GiveUp(p)
  BY <1>15, GiveUpAdvances
<1>16. CASE Receipt(p)
  BY <1>16, ReceiptAdvances
<1>17. CASE Settle(p)
  BY <1>17, SettleAdvances
<1>18. CASE Lost(p)
  BY <1>18, LostAdvances
<1>19. CASE RunFailed(p)
  BY <1>19, RunFailedAdvances
<1>20. CASE Except(p)
  BY <1>20, ExceptAdvances
<1> QED
  BY <1>1, <1>2, <1>3, <1>4, <1>5, <1>6, <1>7, <1>8, <1>9, <1>10, <1>11, <1>12, <1>13, <1>14,
     <1>15, <1>16, <1>17, <1>18, <1>19, <1>20 DEF Step

\* Every step of the system.
LEMMA NextAdvances == DInv /\ [DispatchNext]_vars => Advances
<1> SUFFICES ASSUME DInv, [DispatchNext]_vars PROVE Advances
  OBVIOUS
<1>1. CASE \E p \in Procs : Step(p) \/ Crash(p)
  BY <1>1, StepAdvances, CrashAdvances
<1>2. CASE \E r \in net : Deliver(r) \/ Drop(r)
  BY <1>2, DeliverAdvances, DropAdvances
<1>3. CASE Tick \/ SetClockBack \/ Deploy \/ UNCHANGED vars
  BY <1>3, EnvironmentAdvances
<1> QED BY <1>1, <1>2, <1>3 DEF DispatchNext

\* The invariant holds through every interleaving of wake-ups, crashes, lost and late answers,
\* deployments and clock changes.
THEOREM DispatchInvariant == DispatchSpec => []DInv
<1>1. DispatchInit => DInv
  BY InitAdvances
<1>2. DInv /\ [DispatchNext]_vars => DInv'
  BY NextAdvances DEF Advances
<1> QED BY <1>1, <1>2, PTL DEF DispatchSpec

\* No process reaches into the receiver.
LEMMA StepKeepsReceiver ==
  ASSUME NEW p \in Procs, Step(p) \/ Crash(p)
  PROVE  UNCHANGED receiver
<1>1. CASE Crash(p)
  BY <1>1 DEF Crash
<1>2. CASE \/ Start(p) \/ Acquire(p) \/ Recover(p) \/ PlanUnverified(p) \/ PlanVerified(p)
           \/ ResolveIntent(p) \/ Pending(p) \/ ClaimSlot(p)
  BY <1>2 DEF Start, Acquire, Recover, PlanUnverified, PlanVerified, ResolveIntent, Pending,
              ClaimSlot, Commit, NoCommit
<1>3. CASE \/ TaskStart(p) \/ TaskEnd(p) \/ ExportIntent(p) \/ WriteBundle(p) \/ ConfirmExport(p)
           \/ Announce(p) \/ Send(p) \/ Resend(p) \/ GiveUp(p)
  BY <1>3 DEF TaskStart, TaskEnd, ExportIntent, WriteBundle, ConfirmExport, Announce, Send,
              Resend, Post, GiveUp, Commit, NoCommit
<1>4. CASE Receipt(p) \/ Settle(p) \/ Lost(p) \/ RunFailed(p) \/ Except(p)
  BY <1>4 DEF Receipt, Settle, Lost, RunFailed, Except, Commit, NoCommit
<1> QED BY <1>1, <1>2, <1>3, <1>4 DEF Step

-----------------------------------------------------------------------------
(* What it gives. *)

\* dispatch_once and its callbacks touch the ledger only through the methods of
\* local_ledger.py, with arguments those methods admit: all that is proved of the ledger
\* holds of the dispatcher's.
THEOREM DispatchUsesLedger == DispatchSpec => UsesLedger
<1>1. DispatchInit => LedgerInit
  BY DEF DispatchInit
<1>2. DInv /\ [DispatchNext]_vars => [LedgerNext]_db
  BY NextAdvances DEF Advances
<1> QED BY <1>1, <1>2, DispatchInvariant, PTL DEF DispatchSpec, UsesLedger, LedgerSpec

\* The ledger's own promises, kept while processes crash and overlap.
THEOREM DispatchKeepsLedger ==
  DispatchSpec => [](AttemptsSound /\ SlotsTruthful) /\ HistoryImmutable
<1>1. UsesLedger => LedgerSpec
  BY DEF UsesLedger
<1> QED
  BY <1>1, DispatchUsesLedger, LedgerAttemptsSound, LedgerSlotsTruthful, LedgerHistoryImmutable, PTL

\* The variables of a wake-up, the lock, the outbox and the requests keep their shapes.
THEOREM DispatchTyped == DispatchSpec => []DispatchTypeOK
<1>1. DInv => DispatchTypeOK
  <2> SUFFICES ASSUME DInv PROVE DispatchTypeOK
    OBVIOUS
  <2>1. TypeOK
    BY DEF DInv, World, XLedger, LInv, LWork, LType, TypeOK
  <2>2. net \subseteq Manifests \X Nat
    BY DEF DInv, World, Sent
  <2> QED BY <2>1, <2>2 DEF DispatchTypeOK, DInv, World, Files, Processes, Shapes
<1> QED BY <1>1, DispatchInvariant, PTL

\* A terminal slot is final (plan_due, claim, fail, recover_interrupted, record_export).
THEOREM DispatchTerminalSlotsFinal == DispatchSpec => TerminalSlotsFinal
<1>1. DInv /\ [DispatchNext]_vars =>
        [\A s \in Slots : db.slots[s].status \in TERMINAL_SLOTS
                            => db'.slots[s].status = db.slots[s].status]_db
  BY NextAdvances DEF Advances, SlotsFinal
<1> QED BY <1>1, DispatchInvariant, PTL DEF DispatchSpec, TerminalSlotsFinal

\* What a process holding the run lock believes of its attempt is what the ledger says.
THEOREM DispatchOwnerViewFresh == DispatchSpec => []OwnerViewFresh
<1>1. DInv => OwnerViewFresh
  BY DEF DInv, Processes, Fresh, Shows, OwnerViewFresh
<1> QED BY <1>1, DispatchInvariant, PTL

\* What counts as delivered was accepted, what was sent is durable, a kept package is
\* replayed and not recomputed, and uploads stay within their budget.
THEOREM DispatchDeliverySound == DispatchSpec => []DeliverySound
<1>1. DInv => DeliverySound
  <2> SUFFICES ASSUME DInv PROVE DeliverySound
    OBVIOUS
  <2>1. DeliveredWasAccepted
    BY DEF DInv, World, Received, DeliveredWasAccepted
  <2>2. SentIsDurable
    BY DEF DInv, World, Sent, SentIsDurable
  <2>3. PackageNotRecomputed
    BY DEF DInv, World, XLedger, XPackage, PackageNotRecomputed
  <2>4. UploadBudget
    <3> SUFFICES ASSUME NEW a \in DOMAIN db.attempts
                 PROVE  Cardinality(UploadsOf(db, a)) <= MaxRetries + 1
      BY DEF UploadBudget
    <3>1. PICK n \in 0..(MaxRetries + 1) : UploadsOf(db, a) = {<<a, k>> : k \in 1..n}
      BY DEF DInv, World, XLedger, XNumbered
    <3>2. n \in Nat /\ n <= MaxRetries + 1
      BY LedgerAssumption
    <3>3. Cardinality({<<a, k>> : k \in 1..n}) = n
      BY <3>2, PairsCounted
    <3> QED BY <3>1, <3>2, <3>3
  <2> QED BY <2>1, <2>2, <2>3, <2>4 DEF DeliverySound
<1> QED BY <1>1, DispatchInvariant, PTL

\* The receiver orders generations by sequence only, and written packages are numbered in
\* slot order, through overruns, crashes and a clock that is set back.
THEOREM DispatchGenerationsInSlotOrder == DispatchSpec => []GenerationsInSlotOrder
<1>1. DInv => GenerationsInSlotOrder
  <2> SUFFICES ASSUME DInv, NEW a \in DOMAIN db.attempts, NEW b \in DOMAIN db.attempts,
                      db.attempts[a].manifest \in outbox, db.attempts[b].manifest \in outbox,
                      SlotOf(a) < SlotOf(b)
               PROVE  SeqOf(db, a) < SeqOf(db, b)
    BY DEF GenerationsInSlotOrder
  <2>1. outbox \subseteq Manifests /\ XManifest(db)
    BY DEF DInv, World, Files, XLedger
  <2>2. db.attempts[a].manifest.content = a /\ db.attempts[b].manifest.content = b
        /\ db.attempts[a].manifest # None /\ db.attempts[b].manifest # None
    BY <2>1, LedgerAssumption DEF XManifest, Manifests
  <2> QED BY <2>2 DEF DInv, World, Files, SeqOf
<1> QED BY <1>1, DispatchInvariant, PTL

\* The receiver, as dispatchers see it, follows its own specification: it is handed nothing
\* but bundles, so what the generation store implements holds of the store they upload to.
THEOREM DispatchFeedsReceiver == DispatchSpec => R!Spec
<1>1. DispatchInit => R!Init
  BY DEF DispatchInit
<1>2. DInv /\ [DispatchNext]_vars => [R!Next]_<<latest, accepted>>
  <2> SUFFICES ASSUME DInv, [DispatchNext]_vars
               PROVE  R!Next \/ UNCHANGED receiver
    BY DEF receiver
  <2>1. CASE \E p \in Procs : Step(p) \/ Crash(p)
    BY <2>1, StepKeepsReceiver
  <2>2. ASSUME NEW r \in net, Deliver(r)
        PROVE  R!Next \/ UNCHANGED receiver
    <3>1. r[1] \in Manifests
      BY DEF DInv, World, Sent
    <3> QED BY <2>2, <3>1 DEF Deliver, R!Next
  <2>3. CASE (\E r \in net : Drop(r)) \/ Tick \/ SetClockBack \/ Deploy \/ UNCHANGED vars
    BY <2>3 DEF Drop, Tick, SetClockBack, Deploy, vars, receiver
  <2> QED BY <2>1, <2>2, <2>3 DEF DispatchNext
<1> QED BY <1>1, <1>2, DispatchInvariant, PTL DEF DispatchSpec, R!Spec
=============================================================================
