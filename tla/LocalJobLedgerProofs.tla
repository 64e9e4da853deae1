------------------------ MODULE LocalJobLedgerProofs ------------------------
(***************************************************************************)
(* Proofs about LocalJobLedger for every calendar, retry policy and client *)
(* of the ledger.  The inductive invariant LInv is stated of a ledger      *)
(* value d, so that it can be carried through the intermediate ledgers of  *)
(* plan_due and pending_replay; LInv(db) is the invariant of LedgerSpec.   *)
(***************************************************************************)
EXTENDS LocalJobLedger, TLAPS

-----------------------------------------------------------------------------
(* The parts of the invariant. *)

LType(d) ==
  /\ d.slots \in [Slots -> SlotRow]
  /\ DOMAIN d.attempts \subseteq AttemptIds
  /\ d.attempts \in [DOMAIN d.attempts -> AttemptRow]
  /\ DOMAIN d.jobs \subseteq (DOMAIN d.attempts) \X Nat
  /\ d.jobs \in [DOMAIN d.jobs -> JobRow]
  /\ d.watermark \in Nat
  /\ d = Ledger(d.slots, d.attempts, d.jobs, d.watermark)

LBudget(d) ==
  \A s \in Slots : \E n \in 0..MaxAttempts : AttemptsOf(d, s) = {<<s, k>> : k \in 1..n}

LOneRunning(d) == \A a, b \in AttemptsIn(d, {"RUNNING"}) : a = b

LFollows(d) ==
  \A a \in AttemptsIn(d, Live) :
    \/ d.slots[SlotOf(a)].status = d.attempts[a].status
    \/ d.attempts[a].status = "RUNNING" /\ d.slots[SlotOf(a)].status = "MISSED"

LNewest(d) ==
  \A a \in AttemptsIn(d, Live) : \A b \in AttemptsOf(d, SlotOf(a)) : AttemptNo(b) <= AttemptNo(a)

LNoOrphan(d) ==
  \A j \in DOMAIN d.jobs :
    j[2] >= 1 /\ d.jobs[j].status = "running" => d.attempts[j[1]].status \in Live

LStamps(d) ==
  /\ \A s \in Slots : d.slots[s].updated <= d.watermark
  /\ \A a \in DOMAIN d.attempts : d.attempts[a].updated <= d.watermark
  /\ \A j \in DOMAIN d.jobs : d.jobs[j].at <= d.watermark

\* A package exists from the intent on.
LExported(d) ==
  \A a \in AttemptsIn(d, Unresolved \cup {"DELIVERED"}) : d.attempts[a].manifest # None

LBacked(d) ==
  \A s \in Slots : d.slots[s].status \in Live =>
    \E a \in AttemptsOf(d, s) : d.attempts[a].status = d.slots[s].status

LDelivered(d) ==
  \A s \in Slots : d.slots[s].status = "DELIVERED" =>
    \E a \in AttemptsOf(d, s) : d.attempts[a].status = "DELIVERED" /\ d.attempts[a].manifest # None

\* What concerns attempts and jobs alone, and what ties slots to attempts.
LWork(d) ==
  LType(d) /\ LBudget(d) /\ LOneRunning(d) /\ LNewest(d) /\ LNoOrphan(d) /\ LStamps(d) /\ LExported(d)
LTies(d) == LFollows(d) /\ LBacked(d) /\ LDelivered(d)
LInv(d) == LWork(d) /\ LTies(d)

\* What a transaction may never rewrite.
LHistory(d, e) ==
  /\ \A a \in DOMAIN d.attempts :
       /\ a \in DOMAIN e.attempts
       /\ d.attempts[a].status \in ClosedAttempts => e.attempts[a].status = d.attempts[a].status
       /\ d.attempts[a].manifest # None => e.attempts[a].manifest = d.attempts[a].manifest
  /\ \A j \in DOMAIN d.jobs :
       /\ j \in DOMAIN e.jobs
       /\ d.jobs[j].status # "running" => e.jobs[j] = d.jobs[j]

-----------------------------------------------------------------------------
(* _finish_export *)

\* The tables e that _finish_export, called for the attempts of A, leaves of d.
Finished(d, A, as, ss, t, e) ==
  /\ \A s \in Slots :
       IF d.slots[s].status \in Unresolved /\ (\E a \in A : SlotOf(a) = s)
       THEN e.slots[s].status = ss /\ e.slots[s].updated = t
       ELSE e.slots[s] = d.slots[s]
  /\ DOMAIN e.attempts = DOMAIN d.attempts
  /\ \A a \in DOMAIN d.attempts :
       IF a \in A /\ d.attempts[a].status \in Unresolved
       THEN /\ e.attempts[a].status = as /\ e.attempts[a].updated = t
            /\ e.attempts[a].manifest = d.attempts[a].manifest
       ELSE e.attempts[a] = d.attempts[a]
  /\ DOMAIN e.jobs = DOMAIN d.jobs
  /\ \A j \in DOMAIN d.jobs :
       IF j[1] \in A /\ d.jobs[j].status = "running"
       THEN e.jobs[j].status = "interrupted" /\ e.jobs[j].at = t
       ELSE e.jobs[j] = d.jobs[j]
  /\ e.watermark = d.watermark

\* _finish_export keeps the schema and changes just the rows it names.
LEMMA FinishExportsRows ==
  ASSUME NEW d, LType(d), NEW A, NEW as \in AttemptStatus, NEW ss \in SlotStatus, NEW t \in Nat
  PROVE  /\ LType(FinishExports(d, A, as, ss, t))
         /\ Finished(d, A, as, ss, t, FinishExports(d, A, as, ss, t))
<1> DEFINE e == FinishExports(d, A, as, ss, t)
<1>1. /\ e.slots = SetSlots(d.slots, SlotsIn(d, A, Unresolved), ss, t)
      /\ e.attempts = SetAttempts(d.attempts, A \cap AttemptsIn(d, Unresolved), as, t)
      /\ e.jobs = CloseJobs(d.jobs, JobsOf(d, A), "interrupted", t)
      /\ e.watermark = d.watermark
      /\ e = Ledger(e.slots, e.attempts, e.jobs, e.watermark)
  BY DEF FinishExports, Ledger
<1> HIDE DEF e
<1>2. e.slots \in [Slots -> SlotRow]
  BY <1>1 DEF LType, SetSlots, SlotRow
<1>3. e.attempts \in [DOMAIN d.attempts -> AttemptRow]
  <2>1. d.attempts \in [DOMAIN d.attempts -> AttemptRow]
    BY DEF LType
  <2>2. \A a \in DOMAIN d.attempts :
          [status |-> as, updated |-> t, ident |-> d.attempts[a].ident,
           manifest |-> d.attempts[a].manifest] \in AttemptRow
    BY <2>1 DEF AttemptRow
  <2> QED
    BY <1>1, <2>1, <2>2 DEF SetAttempts
<1>4. e.jobs \in [DOMAIN d.jobs -> JobRow]
  BY <1>1 DEF LType, CloseJobs, JobStatus, JobRow
<1>5. LType(e)
  BY <1>1, <1>2, <1>3, <1>4 DEF LType
<1>6. \A s \in Slots :
       IF d.slots[s].status \in Unresolved /\ (\E a \in A : SlotOf(a) = s)
       THEN e.slots[s].status = ss /\ e.slots[s].updated = t
       ELSE e.slots[s] = d.slots[s]
  BY <1>1 DEF SetSlots, SlotsIn
<1>7. \A a \in DOMAIN d.attempts :
       IF a \in A /\ d.attempts[a].status \in Unresolved
       THEN /\ e.attempts[a].status = as /\ e.attempts[a].updated = t
            /\ e.attempts[a].manifest = d.attempts[a].manifest
       ELSE e.attempts[a] = d.attempts[a]
  <2> TAKE a \in DOMAIN d.attempts
  <2>1. CASE a \in A /\ d.attempts[a].status \in Unresolved
    <3>1. e.attempts[a] = [status |-> as, updated |-> t, ident |-> d.attempts[a].ident,
                           manifest |-> d.attempts[a].manifest]
      BY <1>1, <2>1 DEF SetAttempts, AttemptsIn
    <3> QED
      BY <2>1, <3>1
  <2>2. CASE ~(a \in A /\ d.attempts[a].status \in Unresolved)
    BY <1>1, <2>2 DEF SetAttempts, AttemptsIn
  <2> QED
    BY <2>1, <2>2
<1>8. \A j \in DOMAIN d.jobs :
       IF j[1] \in A /\ d.jobs[j].status = "running"
       THEN e.jobs[j].status = "interrupted" /\ e.jobs[j].at = t
       ELSE e.jobs[j] = d.jobs[j]
  BY <1>1 DEF CloseJobs, JobsOf
<1>9. Finished(d, A, as, ss, t, e)
  BY <1>1, <1>3, <1>4, <1>6, <1>7, <1>8 DEF Finished
<1> QED
  BY <1>5, <1>9 DEF e

\* The statuses _finish_export is called with.
EndedAttempt == ClosedAttempts \ {"DELIVERED"}
EndedSlot == (TERMINAL_SLOTS \cup Claimable) \ {"DELIVERED"}

\* _finish_export keeps budgets, stamps and uploads right: it ends attempts together with
\* their running jobs.
LEMMA FinishExportsWork ==
  ASSUME NEW d, LWork(d), NEW A, NEW as \in EndedAttempt, NEW ss \in EndedSlot, NEW t \in Nat,
         t <= d.watermark
  PROVE  LWork(FinishExports(d, A, as, ss, t))
<1> DEFINE e == FinishExports(d, A, as, ss, t)
<1>1. as \in AttemptStatus /\ as \notin Live /\ ss \in SlotStatus
  BY DEF EndedAttempt, EndedSlot, AttemptStatus, ClosedAttempts, SlotStatus, Live, Unresolved
<1>2. LType(d)
  BY DEF LWork
<1> HIDE DEF e
<1>3. LType(e) /\ Finished(d, A, as, ss, t, e)
  BY <1>1, <1>2, FinishExportsRows DEF e
<1>4. LBudget(e)
  BY <1>3 DEF Finished, LWork, LBudget, AttemptsOf
<1>5. /\ AttemptsIn(e, Live) \subseteq AttemptsIn(d, Live)
      /\ AttemptsIn(e, {"RUNNING"}) \subseteq AttemptsIn(d, {"RUNNING"})
      /\ AttemptsIn(e, Unresolved \cup {"DELIVERED"}) \subseteq AttemptsIn(d, Unresolved \cup {"DELIVERED"})
  <2>1. as \notin Live /\ as # "RUNNING" /\ as \notin Unresolved \cup {"DELIVERED"}
    BY <1>1 DEF Live, EndedAttempt
  <2> QED
    BY <1>3, <2>1 DEF Finished, AttemptsIn
<1>6. LOneRunning(e)
  BY <1>5 DEF LWork, LOneRunning
<1>7. LNewest(e)
  BY <1>3, <1>5 DEF Finished, LWork, LNewest, AttemptsOf
<1>8. LNoOrphan(e)
  <2> SUFFICES ASSUME NEW j \in DOMAIN e.jobs, j[2] >= 1, e.jobs[j].status = "running"
               PROVE  e.attempts[j[1]].status \in Live
    BY DEF LNoOrphan
  <2>1. j[1] \notin A /\ d.jobs[j].status = "running" /\ j \in DOMAIN d.jobs
    BY <1>3 DEF Finished
  <2>2. j[1] \in DOMAIN d.attempts
    BY <1>2, <2>1 DEF LType
  <2> QED
    BY <1>3, <2>1, <2>2 DEF Finished, LWork, LNoOrphan
<1>9. LStamps(e)
  BY <1>2, <1>3 DEF Finished, LWork, LStamps, LType, SlotRow, AttemptRow, JobRow
<1>10. LExported(e)
  <2>1. \A a \in DOMAIN d.attempts : e.attempts[a].manifest = d.attempts[a].manifest
    BY <1>3 DEF Finished
  <2> QED
    BY <1>5, <2>1 DEF LWork, LExported, AttemptsIn
<1> QED
  BY <1>3, <1>4, <1>6, <1>7, <1>8, <1>9, <1>10 DEF LWork, e

\* No unresolved attempt outside A shares its slot with an attempt of A.
Owns(d, A) ==
  \A a \in A : \A b \in AttemptsIn(d, Unresolved) : SlotOf(a) = SlotOf(b) => a = b

\* A slot has at most one live attempt.
LEMMA SameLive ==
  ASSUME NEW d, LWork(d), NEW a \in AttemptsIn(d, Live), NEW b \in AttemptsIn(d, Live),
         SlotOf(a) = SlotOf(b)
  PROVE  a = b
<1>1. a \in AttemptIds /\ b \in AttemptIds
  BY DEF LWork, LType, AttemptsIn
<1>2. a \in AttemptsOf(d, SlotOf(b)) /\ b \in AttemptsOf(d, SlotOf(a))
  BY DEF AttemptsIn, AttemptsOf
<1>3. AttemptNo(a) <= AttemptNo(b) /\ AttemptNo(b) <= AttemptNo(a)
  BY <1>2 DEF LWork, LNewest
<1> QED
  BY <1>1, <1>3 DEF AttemptIds, SlotOf, AttemptNo

\* Live attempts own their slots: no other live attempt shares one.
LEMMA LiveOwns ==
  ASSUME NEW d, LWork(d), NEW A, A \subseteq AttemptsIn(d, Live)
  PROVE  Owns(d, A)
BY SameLive DEF Owns, AttemptsIn, Live

\* _finish_export of attempts that own their slots keeps slots and attempts in agreement.
LEMMA FinishExportsTies ==
  ASSUME NEW d, LInv(d), NEW A, Owns(d, A),
         NEW as \in EndedAttempt, NEW ss \in EndedSlot, NEW t \in Nat
  PROVE  LTies(FinishExports(d, A, as, ss, t))
<1> DEFINE e == FinishExports(d, A, as, ss, t)
<1>1. /\ as \in AttemptStatus /\ as \notin Live
      /\ ss \in SlotStatus /\ ss \notin Live /\ ss # "DELIVERED"
  BY DEF EndedAttempt, EndedSlot, AttemptStatus, ClosedAttempts, SlotStatus, Live, Unresolved,
         TERMINAL_SLOTS, Claimable
<1>2. LType(d)
  BY DEF LInv, LWork
<1> HIDE DEF e
<1>3. LType(e) /\ Finished(d, A, as, ss, t, e)
  BY <1>1, <1>2, FinishExportsRows DEF e
<1>4. \A a \in DOMAIN d.attempts : SlotOf(a) \in Slots
  BY <1>2 DEF LType, AttemptIds, SlotOf
<1>5. LFollows(e)
  <2> SUFFICES ASSUME NEW a \in AttemptsIn(e, Live)
               PROVE  \/ e.slots[SlotOf(a)].status = e.attempts[a].status
                      \/ e.attempts[a].status = "RUNNING" /\ e.slots[SlotOf(a)].status = "MISSED"
    BY DEF LFollows
  <2>1. /\ a \in DOMAIN d.attempts /\ e.attempts[a] = d.attempts[a] /\ a \in AttemptsIn(d, Live)
        /\ ~(a \in A /\ d.attempts[a].status \in Unresolved)
    BY <1>1, <1>3 DEF Finished, AttemptsIn
  <2>2. \/ d.slots[SlotOf(a)].status = d.attempts[a].status
        \/ d.attempts[a].status = "RUNNING" /\ d.slots[SlotOf(a)].status = "MISSED"
    BY <2>1 DEF LInv, LTies, LFollows
  <2>3. CASE d.attempts[a].status \in Unresolved
    <3>1. a \in AttemptsIn(d, Unresolved) /\ a \notin A
      BY <2>1, <2>3 DEF AttemptsIn
    <3>2. ~ \E b \in A : SlotOf(b) = SlotOf(a)
      BY <3>1 DEF Owns
    <3> QED
      BY <1>3, <1>4, <2>1, <2>2, <3>2 DEF Finished
  <2>4. CASE d.attempts[a].status = "RUNNING"
    <3>1. d.slots[SlotOf(a)].status \notin Unresolved
      BY <2>2, <2>4 DEF Unresolved
    <3> QED
      BY <1>3, <1>4, <2>1, <2>2, <3>1 DEF Finished
  <2> QED
    BY <2>1, <2>3, <2>4 DEF AttemptsIn, Live
<1>6. LBacked(e)
  <2> SUFFICES ASSUME NEW s \in Slots, e.slots[s].status \in Live
               PROVE  \E a \in AttemptsOf(e, s) : e.attempts[a].status = e.slots[s].status
    BY DEF LBacked
  <2>1. e.slots[s] = d.slots[s] /\ ~(d.slots[s].status \in Unresolved /\ \E b \in A : SlotOf(b) = s)
    BY <1>1, <1>3 DEF Finished
  <2>2. PICK a \in AttemptsOf(d, s) : d.attempts[a].status = d.slots[s].status
    BY <2>1 DEF LInv, LTies, LBacked
  <2>3. a \in DOMAIN d.attempts /\ SlotOf(a) = s
    BY <2>2 DEF AttemptsOf
  <2>4. e.attempts[a] = d.attempts[a] /\ a \in AttemptsOf(e, s)
    BY <1>3, <2>1, <2>2, <2>3 DEF Finished, AttemptsOf
  <2> QED
    BY <2>1, <2>2, <2>4
<1>7. LDelivered(e)
  <2> SUFFICES ASSUME NEW s \in Slots, e.slots[s].status = "DELIVERED"
               PROVE  \E a \in AttemptsOf(e, s) : e.attempts[a].status = "DELIVERED" /\ e.attempts[a].manifest # None
    BY DEF LDelivered
  <2>1. d.slots[s].status = "DELIVERED"
    BY <1>1, <1>3 DEF Finished
  <2>2. PICK a \in AttemptsOf(d, s) : d.attempts[a].status = "DELIVERED" /\ d.attempts[a].manifest # None
    BY <2>1 DEF LInv, LTies, LDelivered
  <2>3. a \in DOMAIN d.attempts /\ d.attempts[a].status \notin Unresolved
    BY <2>2 DEF AttemptsOf, Unresolved
  <2>4. e.attempts[a] = d.attempts[a] /\ a \in AttemptsOf(e, s)
    BY <1>3, <2>2, <2>3 DEF Finished, AttemptsOf
  <2> QED
    BY <2>2, <2>4
<1> QED
  BY <1>5, <1>6, <1>7 DEF LTies, e

\* _finish_export preserves the invariant.
LEMMA FinishExportsInv ==
  ASSUME NEW d, LInv(d), NEW A, Owns(d, A), NEW as \in EndedAttempt, NEW ss \in EndedSlot,
         NEW t \in Nat, t <= d.watermark
  PROVE  LInv(FinishExports(d, A, as, ss, t))
BY FinishExportsWork, FinishExportsTies DEF LInv

\* _finish_export rewrites nothing that was final.
LEMMA FinishExportsHistory ==
  ASSUME NEW d, LType(d), NEW A, NEW as \in EndedAttempt, NEW ss \in EndedSlot, NEW t \in Nat
  PROVE  LHistory(d, FinishExports(d, A, as, ss, t))
<1> DEFINE e == FinishExports(d, A, as, ss, t)
<1>1. as \in AttemptStatus /\ ss \in SlotStatus
  BY DEF EndedAttempt, EndedSlot, AttemptStatus, SlotStatus, Live
<1> HIDE DEF e
<1>2. Finished(d, A, as, ss, t, e)
  BY <1>1, FinishExportsRows DEF e
<1>3. \A x \in ClosedAttempts : x \notin Unresolved
  BY DEF ClosedAttempts, Unresolved
<1> QED
  BY <1>2, <1>3 DEF Finished, LHistory, e

\* A history carried on stays a history.
LEMMA HistoryTransitive ==
  ASSUME NEW d, NEW e, NEW f, LHistory(d, e), LHistory(e, f)
  PROVE  LHistory(d, f)
BY DEF LHistory

-----------------------------------------------------------------------------
(* The UPDATE statements of plan_due that touch slots only. *)

Updated(d, S, keep, st, t, e) ==
  /\ \A s \in Slots :
       IF s \in S /\ d.slots[s].status \notin keep
       THEN e.slots[s].status = st /\ e.slots[s].updated = t
       ELSE e.slots[s] = d.slots[s]
  /\ e.attempts = d.attempts
  /\ e.jobs = d.jobs
  /\ e.watermark = d.watermark

\* A conditional UPDATE of slots keeps the schema and changes just the slots it names.
LEMMA UpdateSlotsRows ==
  ASSUME NEW d, LType(d), NEW S, NEW keep, NEW st \in SlotStatus, NEW t \in Nat
  PROVE  /\ LType(UpdateSlots(d, S, keep, st, t))
         /\ Updated(d, S, keep, st, t, UpdateSlots(d, S, keep, st, t))
<1> DEFINE e == UpdateSlots(d, S, keep, st, t)
           R == {s \in S : d.slots[s].status \notin keep}
<1>1. /\ e.slots = SetSlots(d.slots, R, st, t)
      /\ e.attempts = d.attempts /\ e.jobs = d.jobs /\ e.watermark = d.watermark
      /\ e = Ledger(e.slots, e.attempts, e.jobs, e.watermark)
  BY DEF UpdateSlots, Ledger
<1> HIDE DEF e
<1>2. e.slots \in [Slots -> SlotRow]
  BY <1>1 DEF LType, SetSlots, SlotRow
<1>3. LType(e)
  BY <1>1, <1>2 DEF LType
<1>4. Updated(d, S, keep, st, t, e)
  BY <1>1 DEF Updated, SetSlots
<1> QED
  BY <1>3, <1>4 DEF e

\* It does not touch attempts and jobs.
LEMMA UpdateSlotsWork ==
  ASSUME NEW d, LWork(d), NEW S, NEW keep, NEW st \in SlotStatus, NEW t \in Nat, t <= d.watermark
  PROVE  LWork(UpdateSlots(d, S, keep, st, t))
<1> DEFINE e == UpdateSlots(d, S, keep, st, t)
<1> HIDE DEF e
<1>1. LType(e) /\ Updated(d, S, keep, st, t, e)
  BY UpdateSlotsRows DEF LWork, e
<1>2. LBudget(e) /\ LOneRunning(e) /\ LNewest(e) /\ LNoOrphan(e) /\ LExported(e)
  BY <1>1 DEF Updated, LWork, LBudget, LOneRunning, LNewest, LNoOrphan, LExported, AttemptsOf, AttemptsIn
<1>3. LStamps(e)
  BY <1>1 DEF Updated, LWork, LStamps, LType, SlotRow
<1> QED
  BY <1>1, <1>2, <1>3 DEF LWork, e

\* The statement leaves alone every slot of a live attempt.
LEMMA UpdateSlotsTies ==
  ASSUME NEW d, LInv(d), NEW S, NEW keep, NEW st \in EndedSlot, NEW t \in Nat,
         \A a \in AttemptsIn(d, Live) : SlotOf(a) \in S => d.slots[SlotOf(a)].status \in keep
  PROVE  LTies(UpdateSlots(d, S, keep, st, t))
<1> DEFINE e == UpdateSlots(d, S, keep, st, t)
<1>1. st \in SlotStatus /\ st \notin Live /\ st # "DELIVERED"
  BY DEF EndedSlot, SlotStatus, Live, Unresolved, TERMINAL_SLOTS, Claimable
<1> HIDE DEF e
<1>2. LType(d) /\ LTies(d)
  BY DEF LInv, LWork
<1>3. LType(e) /\ Updated(d, S, keep, st, t, e)
  BY <1>1, <1>2, UpdateSlotsRows DEF e
<1>4. \A a \in DOMAIN d.attempts : SlotOf(a) \in Slots
  BY <1>2 DEF LType, AttemptIds, SlotOf
<1>5. LFollows(e)
  <2>1. \A a \in AttemptsIn(d, Live) : e.slots[SlotOf(a)] = d.slots[SlotOf(a)]
    BY <1>3, <1>4 DEF Updated, AttemptsIn
  <2> QED
    BY <1>2, <1>3, <2>1 DEF Updated, LTies, LFollows, AttemptsIn
<1>6. LBacked(e)
  BY <1>1, <1>2, <1>3 DEF Updated, LTies, LBacked, AttemptsOf
<1>7. LDelivered(e)
  BY <1>1, <1>2, <1>3 DEF Updated, LTies, LDelivered, AttemptsOf
<1> QED
  BY <1>5, <1>6, <1>7 DEF LTies, e

\* It preserves the invariant when its WHERE clause spares the slots of live attempts.
LEMMA UpdateSlotsInv ==
  ASSUME NEW d, LInv(d), NEW S, NEW keep, NEW st \in EndedSlot, NEW t \in Nat, t <= d.watermark,
         \A a \in AttemptsIn(d, Live) : SlotOf(a) \in S => d.slots[SlotOf(a)].status \in keep
  PROVE  LInv(UpdateSlots(d, S, keep, st, t))
<1>1. st \in SlotStatus
  BY DEF EndedSlot, SlotStatus
<1> QED
  BY <1>1, UpdateSlotsWork, UpdateSlotsTies DEF LInv

\* It rewrites no history.
LEMMA UpdateSlotsHistory ==
  ASSUME NEW d, LType(d), NEW S, NEW keep, NEW st \in SlotStatus, NEW t \in Nat
  PROVE  LHistory(d, UpdateSlots(d, S, keep, st, t))
<1> DEFINE e == UpdateSlots(d, S, keep, st, t)
<1> HIDE DEF e
<1>1. Updated(d, S, keep, st, t, e)
  BY UpdateSlotsRows DEF e
<1> QED
  BY <1>1 DEF Updated, LHistory, e

-----------------------------------------------------------------------------
(* The parts of plan_due.  Each keeps the invariant, the history and the     *)
(* watermark.                                                                *)

Kept(d, e) == LInv(e) /\ LHistory(d, e) /\ e.watermark = d.watermark

\* Statements of one transaction compose.
LEMMA KeptTransitive ==
  ASSUME NEW d, NEW e, NEW f, Kept(d, e), Kept(e, f)
  PROVE  Kept(d, f)
BY HistoryTransitive DEF Kept

\* _finish_export as a statement of a transaction.
LEMMA FinishExportsKept ==
  ASSUME NEW d, LInv(d), NEW A, Owns(d, A), NEW as \in EndedAttempt, NEW ss \in EndedSlot,
         NEW t \in Nat, t <= d.watermark
  PROVE  Kept(d, FinishExports(d, A, as, ss, t))
<1>1. LType(d) /\ as \in AttemptStatus /\ ss \in SlotStatus
  BY DEF LInv, LWork, EndedAttempt, EndedSlot, AttemptStatus, SlotStatus
<1>2. FinishExports(d, A, as, ss, t).watermark = d.watermark
  BY DEF FinishExports, Ledger
<1> QED
  BY <1>1, <1>2, FinishExportsInv, FinishExportsHistory DEF Kept

\* A conditional UPDATE of slots as a statement of a transaction.
LEMMA UpdateSlotsKept ==
  ASSUME NEW d, LInv(d), NEW S, NEW keep, NEW st \in EndedSlot, NEW t \in Nat, t <= d.watermark,
         \A a \in AttemptsIn(d, Live) : SlotOf(a) \in S => d.slots[SlotOf(a)].status \in keep
  PROVE  Kept(d, UpdateSlots(d, S, keep, st, t))
<1>1. LType(d) /\ st \in SlotStatus
  BY DEF LInv, LWork, EndedSlot, SlotStatus
<1>2. UpdateSlots(d, S, keep, st, t).watermark = d.watermark
  BY DEF UpdateSlots, Ledger
<1> QED
  BY <1>1, <1>2, UpdateSlotsInv, UpdateSlotsHistory DEF Kept

\* _observe_clock moves the watermark forward and nothing else.
LEMMA ObserveClockKept ==
  ASSUME NEW d, LInv(d), NEW t \in Nat, Observes(d, t)
  PROVE  /\ LInv(ObserveClock(d, t)) /\ LHistory(d, ObserveClock(d, t))
         /\ ObserveClock(d, t).watermark = t
         /\ ObserveClock(d, t).attempts = d.attempts
         /\ ObserveClock(d, t).slots = d.slots
         /\ ObserveClock(d, t).jobs = d.jobs
<1> DEFINE e == ObserveClock(d, t)
<1>1. /\ e.slots = d.slots /\ e.attempts = d.attempts /\ e.jobs = d.jobs /\ e.watermark = t
      /\ e = Ledger(e.slots, e.attempts, e.jobs, e.watermark)
  BY DEF ObserveClock, Ledger
<1> HIDE DEF e
<1>2. LType(e)
  BY <1>1 DEF LType, LInv, LWork
<1>3. LBudget(e) /\ LOneRunning(e) /\ LNewest(e) /\ LNoOrphan(e) /\ LExported(e)
  BY <1>1 DEF LInv, LWork, LBudget, LOneRunning, LNewest, LNoOrphan, LExported, AttemptsOf, AttemptsIn
<1>4. LStamps(e)
  BY <1>1 DEF LInv, LWork, LStamps, LType, SlotRow, AttemptRow, JobRow, Observes
<1>5. LTies(e)
  BY <1>1 DEF LInv, LTies, LFollows, LBacked, LDelivered, AttemptsOf, AttemptsIn
<1>6. LHistory(d, e)
  BY <1>1 DEF LHistory
<1> QED
  BY <1>1, <1>2, <1>3, <1>4, <1>5, <1>6 DEF LInv, LWork, e

\* The statuses plan_due ends attempts and slots with are final ones.
LEMMA EndStatuses ==
  /\ "FAILED_DELIVERY" \in EndedAttempt /\ "FAILED_DELIVERY" \in EndedSlot
  /\ "EXPIRED" \in EndedAttempt /\ "MISSED" \in EndedSlot
  /\ "SUPERSEDED" \in EndedAttempt /\ "SUPERSEDED" \in EndedSlot
  /\ "INVALIDATED" \in EndedAttempt /\ "FAILED" \in EndedSlot
  /\ "QUARANTINED" \in EndedAttempt /\ "QUARANTINED" \in EndedSlot
  /\ "PENDING" \in EndedSlot
BY DEF EndedAttempt, EndedSlot, ClosedAttempts, TERMINAL_SLOTS, Claimable

\* An unresolved export is live.
LEMMA UnresolvedLive ==
  ASSUME NEW d
  PROVE  AttemptsIn(d, Unresolved) \subseteq AttemptsIn(d, Live)
BY DEF AttemptsIn, Live

\* plan_due: exports whose retries are spent.
LEMMA PlanExhaustedKept ==
  ASSUME NEW d, LInv(d), NEW t \in Nat, t <= d.watermark
  PROVE  Kept(d, PlanExhausted(d, t))
<1>1. ExhaustedExports(d) \subseteq AttemptsIn(d, Live)
  BY DEF ExhaustedExports, AttemptsIn, Live, Unresolved
<1>2. Owns(d, ExhaustedExports(d))
  BY <1>1, LiveOwns DEF LInv
<1> QED
  BY <1>2, EndStatuses, FinishExportsKept DEF PlanExhausted

\* plan_due: INSERT OR IGNORE spares every slot that has a row.
LEMMA InsertSlotsKept ==
  ASSUME NEW d, LInv(d), NEW t \in Nat, t <= d.watermark
  PROVE  Kept(d, InsertSlots(d, t))
<1>1. \A a \in AttemptsIn(d, Live) : d.slots[SlotOf(a)].status \in SlotStatus \ {"ABSENT"}
  BY DEF LInv, LTies, LFollows, AttemptsIn, Live, Unresolved, SlotStatus, TERMINAL_SLOTS
<1> QED
  BY <1>1, EndStatuses, UpdateSlotsKept DEF InsertSlots

\* After the exports of the slots in S have been finished, a live attempt in one of them
\* is RUNNING.
LEMMA OnlyRunningLeft ==
  ASSUME NEW d, LInv(d), NEW S, NEW as \in EndedAttempt, NEW ss \in EndedSlot,
         NEW t \in Nat, t <= d.watermark,
         NEW a \in AttemptsIn(FinishExports(d, ExportsOf(d, S), as, ss, t), Live), SlotOf(a) \in S
  PROVE  FinishExports(d, ExportsOf(d, S), as, ss, t).slots[SlotOf(a)].status
           \in TERMINAL_SLOTS \cup {"RUNNING"}
<1> DEFINE e == FinishExports(d, ExportsOf(d, S), as, ss, t)
<1> HIDE DEF e
<1>1. LType(d) /\ as \in AttemptStatus /\ as \notin Live /\ ss \in SlotStatus
  BY DEF LInv, LWork, EndedAttempt, EndedSlot, AttemptStatus, SlotStatus, ClosedAttempts, Live, Unresolved
<1>2. Finished(d, ExportsOf(d, S), as, ss, t, e)
  BY <1>1, FinishExportsRows DEF e
<1>3. a \in DOMAIN d.attempts /\ e.attempts[a].status \in Live /\ a \in AttemptsIn(e, Live)
  BY <1>2 DEF Finished, AttemptsIn, e
<1>4. e.attempts[a].status = "RUNNING"
  BY <1>1, <1>2, <1>3 DEF Finished, ExportsOf, AttemptsIn, Live
<1>5. Owns(d, ExportsOf(d, S))
  <2>1. ExportsOf(d, S) \subseteq AttemptsIn(d, Live)
    BY UnresolvedLive DEF ExportsOf
  <2> QED
    BY <2>1, LiveOwns DEF LInv
<1>6. LFollows(e)
  BY <1>5, FinishExportsInv DEF LInv, LTies, e
<1>7. e.slots[SlotOf(a)].status = "RUNNING" \/ e.slots[SlotOf(a)].status = "MISSED"
  BY <1>3, <1>4, <1>6 DEF LFollows
<1> QED
  BY <1>7 DEF TERMINAL_SLOTS, e

\* _finish_export for the exports in S, then the UPDATE of the slots in S.
LEMMA FinishThenUpdateKept ==
  ASSUME NEW d, LInv(d), NEW S, NEW as \in EndedAttempt, NEW ss \in EndedSlot,
         NEW t \in Nat, t <= d.watermark
  PROVE  Kept(d, UpdateSlots(FinishExports(d, ExportsOf(d, S), as, ss, t),
                             S, TERMINAL_SLOTS \cup {"RUNNING"}, ss, t))
<1> DEFINE e == FinishExports(d, ExportsOf(d, S), as, ss, t)
<1>1. Owns(d, ExportsOf(d, S))
  <2>1. ExportsOf(d, S) \subseteq AttemptsIn(d, Live)
    BY UnresolvedLive DEF ExportsOf
  <2> QED
    BY <2>1, LiveOwns DEF LInv
<1>2. \A a \in AttemptsIn(e, Live) : SlotOf(a) \in S =>
        e.slots[SlotOf(a)].status \in TERMINAL_SLOTS \cup {"RUNNING"}
  BY OnlyRunningLeft
<1>3. Kept(d, e)
  BY <1>1, FinishExportsKept
<1> HIDE DEF e
<1>4. LInv(e) /\ t <= e.watermark
  BY <1>3 DEF Kept
<1>5. Kept(e, UpdateSlots(e, S, TERMINAL_SLOTS \cup {"RUNNING"}, ss, t))
  BY <1>2, <1>4, UpdateSlotsKept
<1>6. Kept(d, UpdateSlots(e, S, TERMINAL_SLOTS \cup {"RUNNING"}, ss, t))
  BY <1>3, <1>5, KeptTransitive
<1> QED
  BY <1>6 DEF e

\* plan_due: supersession by a newer slot.
LEMMA PlanSupersedeKept ==
  ASSUME NEW d, LInv(d), NEW t \in Nat, t <= d.watermark
  PROVE  Kept(d, PlanSupersede(d, t))
BY EndStatuses, FinishThenUpdateKept DEF PlanSupersede

\* plan_due: the catch-up window has passed.
LEMMA PlanLateKept ==
  ASSUME NEW d, LInv(d), NEW s, NEW t \in Nat, t <= d.watermark
  PROVE  Kept(d, PlanLate(d, s, t))
BY EndStatuses, FinishThenUpdateKept DEF PlanLate

\* Two calls of _finish_export in a row, both chosen from the same rows.
LEMMA FinishTwiceKept ==
  ASSUME NEW d, LInv(d), NEW A, A \subseteq AttemptsIn(d, Live),
         NEW B, B \subseteq AttemptsIn(d, Live),
         NEW as \in EndedAttempt, NEW ss \in EndedSlot, NEW bs \in EndedAttempt, NEW ts \in EndedSlot,
         NEW t \in Nat, t <= d.watermark
  PROVE  Kept(d, FinishExports(FinishExports(d, A, as, ss, t), B, bs, ts, t))
<1> DEFINE e == FinishExports(d, A, as, ss, t)
<1> HIDE DEF e
<1>1. LType(d) /\ as \in AttemptStatus /\ as \notin Unresolved /\ ss \in SlotStatus
  BY DEF LInv, LWork, EndedAttempt, EndedSlot, AttemptStatus, SlotStatus, ClosedAttempts, Unresolved
<1>2. Finished(d, A, as, ss, t, e)
  BY <1>1, FinishExportsRows DEF e
<1>3. AttemptsIn(e, Unresolved) \subseteq AttemptsIn(d, Unresolved)
  BY <1>1, <1>2 DEF Finished, AttemptsIn
<1>4. Owns(d, A) /\ Owns(d, B)
  BY LiveOwns DEF LInv
<1>5. Owns(e, B)
  BY <1>3, <1>4 DEF Owns
<1>6. Kept(d, e)
  BY <1>4, FinishExportsKept DEF e
<1>7. LInv(e) /\ t <= e.watermark
  BY <1>6 DEF Kept
<1>8. Kept(e, FinishExports(e, B, bs, ts, t))
  BY <1>5, <1>7, FinishExportsKept
<1>9. Kept(d, FinishExports(e, B, bs, ts, t))
  BY <1>6, <1>8, KeptTransitive
<1> QED
  BY <1>9 DEF e

\* plan_due: packages of another identity, or expired.
LEMMA PlanInvalidKept ==
  ASSUME NEW d, LInv(d), NEW s, NEW t \in Nat, t <= d.watermark, NEW ident
  PROVE  Kept(d, PlanInvalid(d, s, t, ident))
<1>1. ExportsOf(d, {s}) \subseteq AttemptsIn(d, Live)
  BY UnresolvedLive DEF ExportsOf
<1> DEFINE stale == ExportsOf(d, {s}) \cap Mismatched(d, ident)
           old   == ExpiredAt(d, ExportsOf(d, {s}) \ stale, t)
<1>2. stale \subseteq AttemptsIn(d, Live) /\ old \subseteq AttemptsIn(d, Live)
  BY <1>1 DEF ExpiredAt
<1>3. PlanInvalid(d, s, t, ident)
        = FinishExports(FinishExports(d, stale, "INVALIDATED", "FAILED", t), old, "EXPIRED", "FAILED", t)
  BY DEF PlanInvalid
<1> HIDE DEF stale, old
<1> QED
  BY <1>2, <1>3, EndStatuses, FinishTwiceKept

\* The slots of an earlier session become MISSED, then its exports EXPIRED: in between a
\* live attempt and its slot disagree, so the two statements are taken together.
LEMMA PlanPreviousKept ==
  ASSUME NEW d, LInv(d), NEW t \in Nat, t <= d.watermark
  PROVE  Kept(d, PlanPrevious(d, t))
<1> DEFINE m == UpdateSlots(d, EarlierSlots(d, t), TERMINAL_SLOTS, "MISSED", t)
           A == {a \in AttemptsIn(m, Unresolved) : Session(SlotOf(a)) < Session(t)}
           e == FinishExports(m, A, "EXPIRED", "MISSED", t)
<1>1. PlanPrevious(d, t) = e
  BY DEF PlanPrevious
<1> HIDE DEF m
<1>2. "MISSED" \in SlotStatus /\ "EXPIRED" \in AttemptStatus /\ LType(d) /\ LWork(d) /\ LTies(d)
  BY DEF SlotStatus, TERMINAL_SLOTS, AttemptStatus, ClosedAttempts, LInv, LWork
<1>3. LType(m) /\ Updated(d, EarlierSlots(d, t), TERMINAL_SLOTS, "MISSED", t, m)
  BY <1>2, UpdateSlotsRows DEF m
<1>4. LWork(m) /\ t <= m.watermark /\ m.watermark = d.watermark
  BY <1>2, <1>3, UpdateSlotsWork DEF Updated, m
<1>5. \A a : a \in A <=> /\ a \in DOMAIN d.attempts /\ d.attempts[a].status \in Unresolved
                         /\ Session(SlotOf(a)) < Session(t)
  BY <1>3 DEF Updated, AttemptsIn
<1> HIDE DEF A, e
<1>6. LWork(e)
  BY <1>4, EndStatuses, FinishExportsWork DEF e
<1>7. Finished(m, A, "EXPIRED", "MISSED", t, e)
  BY <1>2, <1>3, FinishExportsRows DEF e
<1>8. \A a \in DOMAIN d.attempts : SlotOf(a) \in Slots
  BY <1>2 DEF LType, AttemptIds, SlotOf
<1>9. \A s \in Slots : Session(s) < Session(t) =>
        m.slots[s].status \in TERMINAL_SLOTS \/ m.slots[s].status = "ABSENT"
  BY <1>3 DEF Updated, EarlierSlots, TERMINAL_SLOTS
<1>10. \A s \in Slots : e.slots[s] = m.slots[s]
  <2> TAKE s \in Slots
  <2>1. (\E a \in A : SlotOf(a) = s) => m.slots[s].status \notin Unresolved
    BY <1>5, <1>9 DEF TERMINAL_SLOTS, Unresolved
  <2> QED
    BY <1>7, <2>1 DEF Finished
<1>11. \A s \in Slots : IF s \in EarlierSlots(d, t) /\ d.slots[s].status \notin TERMINAL_SLOTS
                        THEN e.slots[s].status = "MISSED" ELSE e.slots[s] = d.slots[s]
  BY <1>3, <1>10 DEF Updated
<1>12. /\ DOMAIN e.attempts = DOMAIN d.attempts
       /\ \A a \in DOMAIN d.attempts : IF a \in A THEN e.attempts[a].status = "EXPIRED"
                                       ELSE e.attempts[a] = d.attempts[a]
  BY <1>3, <1>5, <1>7 DEF Finished, Updated
<1>13. LFollows(e)
  <2> SUFFICES ASSUME NEW a \in AttemptsIn(e, Live)
               PROVE  \/ e.slots[SlotOf(a)].status = e.attempts[a].status
                      \/ e.attempts[a].status = "RUNNING" /\ e.slots[SlotOf(a)].status = "MISSED"
    BY DEF LFollows
  <2>1. /\ a \in DOMAIN d.attempts /\ a \notin A /\ e.attempts[a] = d.attempts[a]
        /\ a \in AttemptsIn(d, Live) /\ SlotOf(a) \in Slots
    BY <1>8, <1>12 DEF AttemptsIn, Live, Unresolved
  <2>2. \/ d.slots[SlotOf(a)].status = d.attempts[a].status
        \/ d.attempts[a].status = "RUNNING" /\ d.slots[SlotOf(a)].status = "MISSED"
    BY <1>2, <2>1 DEF LTies, LFollows
  <2>3. CASE SlotOf(a) \in EarlierSlots(d, t)
    <3>1. d.attempts[a].status = "RUNNING"
      BY <1>5, <2>1, <2>3 DEF EarlierSlots, AttemptsIn, Live
    <3>2. e.slots[SlotOf(a)].status = "MISSED"
      BY <1>11, <2>1, <2>2, <2>3, <3>1 DEF TERMINAL_SLOTS
    <3> QED
      BY <2>1, <3>1, <3>2
  <2>4. CASE SlotOf(a) \notin EarlierSlots(d, t)
    BY <1>11, <2>1, <2>2, <2>4
  <2> QED
    BY <2>3, <2>4
<1>14. LBacked(e)
  <2> SUFFICES ASSUME NEW s \in Slots, e.slots[s].status \in Live
               PROVE  \E a \in AttemptsOf(e, s) : e.attempts[a].status = e.slots[s].status
    BY DEF LBacked
  <2>1. s \notin EarlierSlots(d, t) /\ e.slots[s] = d.slots[s]
    BY <1>11 DEF Live, Unresolved, TERMINAL_SLOTS
  <2>2. ~(Session(s) < Session(t))
    BY <2>1 DEF EarlierSlots, Live, Unresolved
  <2>3. PICK a \in AttemptsOf(d, s) : d.attempts[a].status = d.slots[s].status
    BY <1>2, <2>1 DEF LTies, LBacked
  <2>4. a \in DOMAIN d.attempts /\ SlotOf(a) = s /\ a \notin A
    BY <1>5, <2>2, <2>3 DEF AttemptsOf
  <2> QED
    BY <1>12, <2>1, <2>3, <2>4 DEF AttemptsOf
<1>15. LDelivered(e)
  <2> SUFFICES ASSUME NEW s \in Slots, e.slots[s].status = "DELIVERED"
               PROVE  \E a \in AttemptsOf(e, s) : e.attempts[a].status = "DELIVERED" /\ e.attempts[a].manifest # None
    BY DEF LDelivered
  <2>1. d.slots[s].status = "DELIVERED"
    BY <1>11
  <2>2. PICK a \in AttemptsOf(d, s) : d.attempts[a].status = "DELIVERED" /\ d.attempts[a].manifest # None
    BY <1>2, <2>1 DEF LTies, LDelivered
  <2>3. a \in DOMAIN d.attempts /\ a \notin A
    BY <1>5, <2>2 DEF AttemptsOf, Unresolved
  <2> QED
    BY <1>12, <2>2, <2>3 DEF AttemptsOf
<1>16. LHistory(d, e)
  <2>1. LHistory(d, m)
    BY <1>2, UpdateSlotsHistory DEF m
  <2>2. LHistory(m, e)
    BY <1>3, EndStatuses, FinishExportsHistory DEF e
  <2> QED
    BY <2>1, <2>2, HistoryTransitive
<1>17. e.watermark = d.watermark
  BY <1>4, <1>7 DEF Finished
<1> QED
  BY <1>1, <1>6, <1>13, <1>14, <1>15, <1>16, <1>17 DEF Kept, LInv, LTies

\* plan_due: everything done for the current session.
LEMMA PlanSessionKept ==
  ASSUME NEW d, LInv(d), NEW t \in Nat, t <= d.watermark, NEW ident
  PROVE  Kept(d, PlanSession(d, t, ident))
<1> DEFINE i == InsertSlots(d, t)
           u == PlanSupersede(i, t)
<1>1. Kept(d, i)
  BY InsertSlotsKept
<1> HIDE DEF i
<1>2. LInv(i) /\ t <= i.watermark
  BY <1>1 DEF Kept
<1>3. Kept(i, u)
  BY <1>2, PlanSupersedeKept
<1> HIDE DEF u
<1>4. LInv(u) /\ t <= u.watermark
  BY <1>2, <1>3 DEF Kept
<1>5. Kept(u, PlanLate(u, LatestDue(t), t)) /\ Kept(u, PlanInvalid(u, LatestDue(t), t, ident))
  BY <1>4, PlanLateKept, PlanInvalidKept
<1>6. Kept(d, PlanLate(u, LatestDue(t), t)) /\ Kept(d, PlanInvalid(u, LatestDue(t), t, ident))
  BY <1>1, <1>3, <1>5, KeptTransitive
<1> QED
  BY <1>1, <1>6 DEF PlanSession, i, u

\* A transaction that starts from a good ledger commits a good one and rewrites no history.
Commits(d, e) == LInv(e) /\ LHistory(d, e)

\* plan_due as a whole transaction.
LEMMA PlanDueCommits ==
  ASSUME NEW d, LInv(d), NEW t \in Nat, NEW trading \in BOOLEAN, NEW ident, CanPlanDue(d, t)
  PROVE  Commits(d, PlanDue(d, t, trading, ident))
<1> DEFINE o == ObserveClock(d, t)
           x == PlanExhausted(o, t)
           c == PlanPrevious(x, t)
<1>1. LInv(o) /\ LHistory(d, o) /\ o.watermark = t
  BY ObserveClockKept DEF CanPlanDue
<1> HIDE DEF o
<1>2. Kept(o, x)
  BY <1>1, PlanExhaustedKept
<1> HIDE DEF x
<1>3. LInv(x) /\ x.watermark = t
  BY <1>1, <1>2 DEF Kept
<1>4. Kept(x, c)
  BY <1>3, PlanPreviousKept
<1> HIDE DEF c
<1>5. LInv(c) /\ c.watermark = t
  BY <1>3, <1>4 DEF Kept
<1>6. Kept(c, PlanSession(c, t, ident))
  BY <1>5, PlanSessionKept
<1>7. LHistory(d, c)
  BY <1>1, <1>2, <1>4, HistoryTransitive DEF Kept
<1>8. LHistory(d, PlanSession(c, t, ident))
  BY <1>6, <1>7, HistoryTransitive DEF Kept
<1> QED
  BY <1>5, <1>6, <1>7, <1>8 DEF Commits, Kept, PlanDue, o, x, c

-----------------------------------------------------------------------------
(* quarantine_export and pending_replay *)

\* Statements after _observe_clock make a transaction.
LEMMA KeptCommits ==
  ASSUME NEW d, NEW o, NEW e, LHistory(d, o), Kept(o, e)
  PROVE  Commits(d, e)
BY HistoryTransitive DEF Kept, Commits

\* quarantine_export preserves the invariant and history.
LEMMA QuarantineCommits ==
  ASSUME NEW d, LInv(d), NEW a, NEW t \in Nat, CanQuarantine(d, a, t)
  PROVE  Commits(d, QuarantineExport(d, a, t))
<1> DEFINE o == ObserveClock(d, t)
<1>1. LInv(o) /\ LHistory(d, o) /\ o.watermark = t /\ o.attempts = d.attempts
  BY ObserveClockKept DEF CanQuarantine
<1> HIDE DEF o
<1>2. {a} \subseteq AttemptsIn(o, Live)
  BY <1>1 DEF CanQuarantine, AttemptsIn, Live
<1>3. Owns(o, {a})
  BY <1>1, <1>2, LiveOwns DEF LInv
<1>4. Kept(o, FinishExports(o, {a}, "QUARANTINED", "QUARANTINED", t))
  BY <1>1, <1>3, EndStatuses, FinishExportsKept
<1> QED
  BY <1>1, <1>4, KeptCommits DEF QuarantineExport, o

\* pending_replay preserves the invariant and history.
LEMMA PendingReplayCommits ==
  ASSUME NEW d, LInv(d), NEW t \in Nat, NEW ident, CanPendingReplay(d, t)
  PROVE  Commits(d, PendingReplay(d, t, ident))
<1> DEFINE o == ObserveClock(d, t)
           rows  == ScannedRows(d, t, ident)
           late  == {a \in rows : WindowClosed(d, a, t)}
           spent == {a \in rows \ late : RetriesSpent(d, a)}
<1>1. LInv(o) /\ LHistory(d, o) /\ o.watermark = t /\ o.attempts = d.attempts
  BY ObserveClockKept DEF CanPendingReplay
<1> HIDE DEF o
<1>2. rows \subseteq AttemptsIn(o, Live)
  BY <1>1 DEF ScannedRows, ReplayRows, AttemptsIn, Live, Unresolved
<1> HIDE DEF rows
<1>3. late \subseteq AttemptsIn(o, Live) /\ spent \subseteq AttemptsIn(o, Live)
  BY <1>2
<1> HIDE DEF late, spent
<1>4. Kept(o, FinishExports(FinishExports(o, late, "EXPIRED", "MISSED", t),
                            spent, "FAILED_DELIVERY", "FAILED_DELIVERY", t))
  BY <1>1, <1>3, EndStatuses, FinishTwiceKept
<1>5. PendingReplay(d, t, ident)
        = FinishExports(FinishExports(o, late, "EXPIRED", "MISSED", t),
                        spent, "FAILED_DELIVERY", "FAILED_DELIVERY", t)
  BY DEF PendingReplay, rows, late, spent, o
<1> QED
  BY <1>1, <1>4, <1>5, KeptCommits

-----------------------------------------------------------------------------
(* claim *)

\* ORDER BY attempt_no DESC LIMIT 1 finds the number of attempts.
LEMMA LastAttemptIs ==
  ASSUME NEW d, NEW s, NEW n \in Nat, AttemptsOf(d, s) = {<<s, k>> : k \in 1..n}
  PROVE  LastAttempt(d, s) = n
<1>1. CASE n = 0
  BY <1>1 DEF LastAttempt
<1>2. CASE n > 0
  <2> DEFINE N == {AttemptNo(a) : a \in AttemptsOf(d, s)}
  <2>0. /\ \A k \in 1..n : <<s, k>> \in AttemptsOf(d, s) /\ AttemptNo(<<s, k>>) = k
        /\ \A a \in AttemptsOf(d, s) : AttemptNo(a) \in 1..n /\ a = <<s, AttemptNo(a)>>
    BY DEF AttemptNo
  <2>1. N = 1..n
    <3>1. \A k \in 1..n : k \in N
      BY <2>0
    <3>2. \A x \in N : x \in 1..n
      BY <2>0
    <3> HIDE DEF N
    <3> QED
      BY <3>1, <3>2
  <2>2. \A x : (\A a \in AttemptsOf(d, s) : AttemptNo(a) <= x) <=> (\A k \in 1..n : k <= x)
    BY <2>0
  <2>3. AttemptsOf(d, s) # {}
    <3>1. <<s, n>> \in AttemptsOf(d, s)
      BY <1>2
    <3> QED
      BY <3>1
  <2>4. LastAttempt(d, s) = CHOOSE x \in N : \A a \in AttemptsOf(d, s) : AttemptNo(a) <= x
    BY <2>3 DEF LastAttempt
  <2> HIDE DEF N
  <2>5. n \in N /\ \A a \in AttemptsOf(d, s) : AttemptNo(a) <= n
    BY <1>2, <2>1, <2>2
  <2>6. LastAttempt(d, s) \in N /\ \A a \in AttemptsOf(d, s) : AttemptNo(a) <= LastAttempt(d, s)
    BY <2>4, <2>5
  <2>7. \A k \in 1..n : k <= LastAttempt(d, s)
    BY <2>2, <2>6
  <2> QED
    BY <1>2, <2>1, <2>6, <2>7
<1> QED
  BY <1>1, <1>2

\* claim preserves the invariant and history: the new attempt is the only running one.
LEMMA ClaimCommits ==
  ASSUME NEW d, LInv(d), NEW s \in Slots, NEW t \in Nat, NEW ident \in Identities, CanClaim(d, s, t)
  PROVE  Commits(d, Claim(d, s, t, ident))
<1> DEFINE id  == <<s, LastAttempt(d, s) + 1>>
           new == [status |-> "RUNNING", updated |-> t, ident |-> ident, manifest |-> None]
           e   == Claim(d, s, t, ident)
<1>1. LType(d) /\ LWork(d) /\ LTies(d)
  BY DEF LInv, LWork
<1>2. /\ e.slots = SetSlots(d.slots, {s}, "RUNNING", t)
      /\ e.attempts = [a \in DOMAIN d.attempts \cup {id} |-> IF a = id THEN new ELSE d.attempts[a]]
      /\ e.jobs = d.jobs /\ e.watermark = t
      /\ e = Ledger(e.slots, e.attempts, e.jobs, e.watermark)
  BY DEF Claim, Ledger
<1>3. PICK n \in 0..MaxAttempts : AttemptsOf(d, s) = {<<s, k>> : k \in 1..n}
  BY <1>1 DEF LWork, LBudget
<1>4. n \in Nat /\ LastAttempt(d, s) = n
  <2>1. n \in Nat
    BY LedgerAssumption
  <2> QED
    BY <1>3, <2>1, LastAttemptIs
<1>5. n + 1 \in 0..MaxAttempts
  BY <1>3, <1>4, LedgerAssumption DEF CanClaim, RetryAllowed
<1>6. id = <<s, n + 1>> /\ id \in AttemptIds /\ id \notin DOMAIN d.attempts
  <2>1. id = <<s, n + 1>>
    BY <1>4
  <2>2. id \notin AttemptsOf(d, s)
    BY <1>3, <1>4, <2>1
  <2> QED
    BY <1>4, <2>1, <2>2 DEF AttemptIds, AttemptsOf, SlotOf
<1> HIDE DEF e, id, new
<1>7. /\ e.slots[s].status = "RUNNING" /\ e.slots[s].updated = t
      /\ \A r \in Slots : r # s => e.slots[r] = d.slots[r]
      /\ e.slots \in [Slots -> SlotRow]
  BY <1>1, <1>2 DEF LType, SetSlots, SlotRow, SlotStatus, Live
<1>8. /\ DOMAIN e.attempts = DOMAIN d.attempts \cup {id}
      /\ e.attempts[id] = new
      /\ \A a \in DOMAIN d.attempts : e.attempts[a] = d.attempts[a]
  BY <1>2, <1>6
<1>9. new \in AttemptRow /\ new.status = "RUNNING" /\ new.updated = t
  BY DEF new, AttemptRow, AttemptStatus, Live
<1>10. LType(e)
  <2>1. e.attempts \in [DOMAIN e.attempts -> AttemptRow]
    BY <1>1, <1>2, <1>8, <1>9 DEF LType
  <2>2. DOMAIN e.attempts \subseteq AttemptIds
    BY <1>1, <1>6, <1>8 DEF LType
  <2>3. DOMAIN e.jobs \subseteq (DOMAIN e.attempts) \X Nat /\ e.jobs \in [DOMAIN e.jobs -> JobRow]
    BY <1>1, <1>2, <1>8 DEF LType
  <2> QED
    BY <1>2, <1>7, <2>1, <2>2, <2>3 DEF LType
<1>11. \A a \in AttemptsIn(d, Live) : SlotOf(a) # s
  <2> TAKE a \in AttemptsIn(d, Live)
  <2>1. d.slots[SlotOf(a)].status \in Live \cup {"MISSED"}
    BY <1>1 DEF LTies, LFollows, AttemptsIn
  <2>2. d.slots[s].status \in Claimable
    BY DEF CanClaim
  <2> QED
    BY <2>1, <2>2 DEF Live, Unresolved, Claimable
<1>12. AttemptsIn(e, Live) \subseteq AttemptsIn(d, Live) \cup {id}
  BY <1>8 DEF AttemptsIn
<1>13. /\ AttemptsOf(e, s) = AttemptsOf(d, s) \cup {id}
       /\ \A r \in Slots : r # s => AttemptsOf(e, r) = AttemptsOf(d, r)
  BY <1>6, <1>8 DEF AttemptsOf, SlotOf
<1>14. LBudget(e)
  <2> SUFFICES ASSUME NEW r \in Slots
               PROVE  \E k \in 0..MaxAttempts : AttemptsOf(e, r) = {<<r, i>> : i \in 1..k}
    BY DEF LBudget
  <2>1. CASE r = s
    <3>1. AttemptsOf(e, s) = {<<s, i>> : i \in 1..(n + 1)}
      BY <1>3, <1>4, <1>6, <1>13
    <3> QED
      BY <1>5, <2>1, <3>1
  <2>2. CASE r # s
    BY <1>1, <1>13, <2>2 DEF LWork, LBudget
  <2> QED
    BY <2>1, <2>2
<1>15. LOneRunning(e)
  <2>1. AttemptsIn(d, {"RUNNING"}) = {}
    BY DEF CanClaim
  <2>2. AttemptsIn(e, {"RUNNING"}) \subseteq {id}
    BY <1>8, <2>1 DEF AttemptsIn
  <2> QED
    BY <2>2 DEF LOneRunning
<1>16. LNewest(e)
  <2> SUFFICES ASSUME NEW a \in AttemptsIn(e, Live), NEW b \in AttemptsOf(e, SlotOf(a))
               PROVE  AttemptNo(b) <= AttemptNo(a)
    BY DEF LNewest
  <2>1. CASE a = id
    <3>1. SlotOf(a) = s /\ AttemptNo(a) = n + 1
      BY <1>6, <2>1 DEF SlotOf, AttemptNo
    <3>2. b = id \/ \E k \in 1..n : b = <<s, k>>
      BY <1>3, <1>13, <3>1
    <3> QED
      BY <1>4, <2>1, <3>1, <3>2 DEF AttemptNo
  <2>2. CASE a # id
    <3>1. a \in AttemptsIn(d, Live)
      BY <1>12, <2>2
    <3>2. SlotOf(a) # s /\ SlotOf(a) \in Slots
      BY <1>1, <1>11, <3>1 DEF LType, AttemptsIn, AttemptIds, SlotOf
    <3>3. b \in AttemptsOf(d, SlotOf(a))
      BY <1>13, <3>2
    <3> QED
      BY <1>1, <3>1, <3>3 DEF LWork, LNewest
  <2> QED
    BY <2>1, <2>2
<1>17. LNoOrphan(e)
  <2>1. \A j \in DOMAIN d.jobs : j[1] \in DOMAIN d.attempts
    BY <1>1 DEF LType
  <2> QED
    BY <1>1, <1>2, <1>8, <2>1 DEF LWork, LNoOrphan
<1>18. LStamps(e)
  <2>1. d.watermark <= t /\ d.watermark \in Nat
    BY <1>1 DEF CanClaim, Observes, LType
  <2>2. \A r \in Slots : e.slots[r].updated <= t
    BY <1>1, <1>7, <2>1 DEF LWork, LStamps, LType, SlotRow
  <2>3. \A a \in DOMAIN e.attempts : e.attempts[a].updated <= t
    BY <1>1, <1>8, <1>9, <2>1 DEF LWork, LStamps, LType, AttemptRow
  <2>4. \A j \in DOMAIN e.jobs : e.jobs[j].at <= t
    BY <1>1, <1>2, <2>1 DEF LWork, LStamps, LType, JobRow
  <2> QED
    BY <1>2, <2>2, <2>3, <2>4 DEF LStamps
<1>19. LExported(e)
  <2>1. "RUNNING" \notin Unresolved \cup {"DELIVERED"}
    BY DEF Unresolved
  <2> QED
    BY <1>1, <1>8, <1>9, <2>1 DEF LWork, LExported, AttemptsIn
<1>20. LFollows(e)
  <2> SUFFICES ASSUME NEW a \in AttemptsIn(e, Live)
               PROVE  \/ e.slots[SlotOf(a)].status = e.attempts[a].status
                      \/ e.attempts[a].status = "RUNNING" /\ e.slots[SlotOf(a)].status = "MISSED"
    BY DEF LFollows
  <2>1. CASE a = id
    BY <1>6, <1>7, <1>8, <1>9, <2>1 DEF SlotOf
  <2>2. CASE a # id
    <3>1. a \in AttemptsIn(d, Live) /\ a \in DOMAIN d.attempts
      BY <1>12, <2>2 DEF AttemptsIn
    <3>2. SlotOf(a) # s /\ SlotOf(a) \in Slots
      BY <1>1, <1>11, <3>1 DEF LType, AttemptIds, SlotOf
    <3> QED
      BY <1>1, <1>7, <1>8, <3>1, <3>2 DEF LTies, LFollows
  <2> QED
    BY <2>1, <2>2
<1>21. LBacked(e)
  <2> SUFFICES ASSUME NEW r \in Slots, e.slots[r].status \in Live
               PROVE  \E a \in AttemptsOf(e, r) : e.attempts[a].status = e.slots[r].status
    BY DEF LBacked
  <2>1. CASE r = s
    BY <1>7, <1>8, <1>9, <1>13, <2>1
  <2>2. CASE r # s
    BY <1>1, <1>7, <1>8, <1>13, <2>2 DEF LTies, LBacked, AttemptsOf
  <2> QED
    BY <2>1, <2>2
<1>22. LDelivered(e)
  <2> SUFFICES ASSUME NEW r \in Slots, e.slots[r].status = "DELIVERED"
               PROVE  \E a \in AttemptsOf(e, r) : e.attempts[a].status = "DELIVERED" /\ e.attempts[a].manifest # None
    BY DEF LDelivered
  <2>1. r # s
    BY <1>7
  <2> QED
    BY <1>1, <1>7, <1>8, <1>13, <2>1 DEF LTies, LDelivered, AttemptsOf
<1>23. LHistory(d, e)
  BY <1>2, <1>8 DEF LHistory
<1> QED
  BY <1>10, <1>14, <1>15, <1>16, <1>17, <1>18, <1>19, <1>20, <1>21, <1>22, <1>23
     DEF Commits, LInv, LWork, LTies, e

-----------------------------------------------------------------------------
(* recover_interrupted, mark_delivered, fail and mark_export change the      *)
(* status of some live attempts and of their slots.                          *)

\* The attempts of A move to status as, their running jobs in J end, and of the slots
\* only those of A change.
Moved(d, A, J, as, e) ==
  /\ DOMAIN e.attempts = DOMAIN d.attempts
  /\ \A a \in DOMAIN d.attempts :
       IF a \in A THEN e.attempts[a].status = as /\ e.attempts[a].updated = e.watermark
       ELSE e.attempts[a] = d.attempts[a]
  /\ \A a \in DOMAIN d.attempts :
       d.attempts[a].manifest # None => e.attempts[a].manifest = d.attempts[a].manifest
  /\ DOMAIN e.jobs = DOMAIN d.jobs
  /\ \A j \in DOMAIN d.jobs :
       IF j \in J /\ d.jobs[j].status = "running"
       THEN e.jobs[j].status # "running" /\ e.jobs[j].at = e.watermark
       ELSE e.jobs[j] = d.jobs[j]
  /\ \A s \in Slots : e.slots[s] = d.slots[s] \/ e.slots[s].updated = e.watermark
  /\ d.watermark <= e.watermark

\* Moving live attempts to one status, and their jobs out of running, keeps the attempts'
\* side of the invariant.
LEMMA MovedWork ==
  ASSUME NEW d, LWork(d), NEW A, A \subseteq AttemptsIn(d, Live), NEW J, NEW as \in AttemptStatus,
         NEW e, LType(e), Moved(d, A, J, as, e), as # "RUNNING",
         as \in Unresolved \cup {"DELIVERED"} => \A a \in A : e.attempts[a].manifest # None,
         as \notin Live => \A j \in DOMAIN d.jobs : j[1] \in A /\ j[2] >= 1 => j \in J
  PROVE  LWork(e) /\ LHistory(d, e)
<1>1. LType(d) /\ DOMAIN e.attempts = DOMAIN d.attempts /\ DOMAIN e.jobs = DOMAIN d.jobs
  BY DEF LWork, Moved
<1>2. AttemptsIn(e, Live) \subseteq AttemptsIn(d, Live)
      /\ AttemptsIn(e, {"RUNNING"}) \subseteq AttemptsIn(d, {"RUNNING"})
  BY DEF Moved, AttemptsIn
<1>3. LBudget(e)
  BY <1>1 DEF LWork, LBudget, AttemptsOf
<1>4. LOneRunning(e)
  BY <1>2 DEF LWork, LOneRunning
<1>5. LNewest(e)
  BY <1>1, <1>2 DEF LWork, LNewest, AttemptsOf
<1>6. LNoOrphan(e)
  <2> SUFFICES ASSUME NEW j \in DOMAIN e.jobs, j[2] >= 1, e.jobs[j].status = "running"
               PROVE  e.attempts[j[1]].status \in Live
    BY DEF LNoOrphan
  <2>1. j \in DOMAIN d.jobs /\ j \notin J /\ d.jobs[j].status = "running"
    BY <1>1 DEF Moved
  <2>2. j[1] \in DOMAIN d.attempts /\ d.attempts[j[1]].status \in Live
    BY <1>1, <2>1 DEF LWork, LNoOrphan, LType
  <2>3. CASE j[1] \in A
    BY <2>1, <2>2, <2>3 DEF Moved
  <2>4. CASE j[1] \notin A
    BY <2>2, <2>4 DEF Moved
  <2> QED
    BY <2>3, <2>4
<1>7. LStamps(e)
  <2>1. d.watermark \in Nat /\ e.watermark \in Nat /\ d.watermark <= e.watermark
    BY <1>1 DEF LType, Moved
  <2>2. \A s \in Slots : e.slots[s].updated <= e.watermark
    BY <1>1, <2>1 DEF LWork, LStamps, LType, Moved, SlotRow
  <2>3. \A a \in DOMAIN e.attempts : e.attempts[a].updated <= e.watermark
    <3> TAKE a \in DOMAIN e.attempts
    <3>1. d.attempts[a].updated \in Nat /\ d.attempts[a].updated <= d.watermark
      BY <1>1 DEF LWork, LStamps, LType, AttemptRow
    <3>2. e.attempts[a].updated = e.watermark \/ e.attempts[a] = d.attempts[a]
      BY <1>1 DEF Moved
    <3> QED
      BY <2>1, <3>1, <3>2
  <2>4. \A j \in DOMAIN e.jobs : e.jobs[j].at <= e.watermark
    BY <1>1, <2>1 DEF LWork, LStamps, LType, Moved, JobRow
  <2> QED
    BY <2>2, <2>3, <2>4 DEF LStamps
<1>8. LExported(e)
  BY <1>1 DEF LWork, LExported, Moved, AttemptsIn
<1>9. LHistory(d, e)
  <2>1. \A a \in A : d.attempts[a].status \notin ClosedAttempts
    BY DEF AttemptsIn, Live, Unresolved, ClosedAttempts
  <2> QED
    BY <2>1 DEF Moved, LHistory
<1> QED
  BY <1>3, <1>4, <1>5, <1>6, <1>7, <1>8, <1>9 DEF LWork

\* The slots in S, each the slot of an attempt of A, take status ss; a slot that is left
\* alone did not show the work of A.
Shown(d, A, as, S, ss, e) ==
  /\ \A s \in Slots : IF s \in S THEN e.slots[s].status = ss ELSE e.slots[s] = d.slots[s]
  /\ \A s \in S : \E a \in A : SlotOf(a) = s
  /\ \A a \in A : SlotOf(a) \notin S => d.slots[SlotOf(a)].status # d.attempts[a].status
  /\ as \in Live => ss = as /\ \A a \in A : SlotOf(a) \in S
  /\ as \notin Live => ss \notin Live
  /\ ss = "DELIVERED" => as = "DELIVERED" /\ \A a \in A : e.attempts[a].manifest # None

\* Moving live attempts and their slots together keeps them in agreement.
LEMMA MovedTies ==
  ASSUME NEW d, LInv(d), NEW A, A \subseteq AttemptsIn(d, Live), NEW J, NEW as \in AttemptStatus,
         NEW e, LType(e), Moved(d, A, J, as, e), NEW S, NEW ss, Shown(d, A, as, S, ss, e)
  PROVE  LTies(e)
<1>1. /\ LType(d) /\ LWork(d) /\ LTies(d)
      /\ DOMAIN e.attempts = DOMAIN d.attempts
      /\ \A a \in DOMAIN d.attempts : IF a \in A THEN e.attempts[a].status = as
                                      ELSE e.attempts[a] = d.attempts[a]
      /\ \A a \in DOMAIN d.attempts : SlotOf(a) \in Slots
      /\ \A a \in A : a \in DOMAIN d.attempts /\ d.attempts[a].status \in Live
  BY DEF LInv, LWork, Moved, LType, AttemptIds, SlotOf, AttemptsIn
<1>2. LFollows(e)
  <2> SUFFICES ASSUME NEW a \in AttemptsIn(e, Live)
               PROVE  \/ e.slots[SlotOf(a)].status = e.attempts[a].status
                      \/ e.attempts[a].status = "RUNNING" /\ e.slots[SlotOf(a)].status = "MISSED"
    BY DEF LFollows
  <2>1. a \in DOMAIN d.attempts /\ SlotOf(a) \in Slots /\ e.attempts[a].status \in Live
    BY <1>1 DEF AttemptsIn
  <2>2. CASE a \in A
    BY <1>1, <2>1, <2>2 DEF Shown
  <2>3. CASE a \notin A
    <3>1. a \in AttemptsIn(d, Live) /\ e.attempts[a] = d.attempts[a]
      BY <1>1, <2>1, <2>3 DEF AttemptsIn
    <3>2. SlotOf(a) \notin S
      BY <1>1, <2>3, <3>1, SameLive DEF Shown
    <3> QED
      BY <1>1, <2>1, <3>1, <3>2 DEF LTies, LFollows, Shown
  <2> QED
    BY <2>2, <2>3
<1>3. LBacked(e)
  <2> SUFFICES ASSUME NEW s \in Slots, e.slots[s].status \in Live
               PROVE  \E a \in AttemptsOf(e, s) : e.attempts[a].status = e.slots[s].status
    BY DEF LBacked
  <2>1. CASE s \in S
    <3>1. PICK a \in A : SlotOf(a) = s
      BY <2>1 DEF Shown
    <3>2. as \in Live /\ ss = as
      BY <2>1 DEF Shown
    <3> QED
      BY <1>1, <2>1, <3>1, <3>2 DEF AttemptsOf, Shown
  <2>2. CASE s \notin S
    <3>1. e.slots[s] = d.slots[s]
      BY <2>2 DEF Shown
    <3>2. PICK a \in AttemptsOf(d, s) : d.attempts[a].status = d.slots[s].status
      BY <1>1, <3>1 DEF LTies, LBacked
    <3>3. a \notin A /\ a \in DOMAIN d.attempts /\ SlotOf(a) = s
      BY <2>2, <3>2 DEF AttemptsOf, Shown
    <3> QED
      BY <1>1, <3>1, <3>2, <3>3 DEF AttemptsOf
  <2> QED
    BY <2>1, <2>2
<1>4. LDelivered(e)
  <2> SUFFICES ASSUME NEW s \in Slots, e.slots[s].status = "DELIVERED"
               PROVE  \E a \in AttemptsOf(e, s) : e.attempts[a].status = "DELIVERED" /\ e.attempts[a].manifest # None
    BY DEF LDelivered
  <2>1. CASE s \in S
    <3>1. PICK a \in A : SlotOf(a) = s
      BY <2>1 DEF Shown
    <3>2. as = "DELIVERED" /\ e.attempts[a].manifest # None
      BY <2>1 DEF Shown
    <3> QED
      BY <1>1, <3>1, <3>2 DEF AttemptsOf
  <2>2. CASE s \notin S
    <3>1. PICK a \in AttemptsOf(d, s) : d.attempts[a].status = "DELIVERED" /\ d.attempts[a].manifest # None
      BY <1>1, <2>2 DEF LTies, LDelivered, Shown
    <3>2. a \notin A /\ a \in DOMAIN d.attempts /\ SlotOf(a) = s
      BY <1>1, <3>1 DEF AttemptsOf, Live, Unresolved
    <3> QED
      BY <1>1, <3>1, <3>2 DEF AttemptsOf
  <2> QED
    BY <2>1, <2>2
<1> QED
  BY <1>2, <1>3, <1>4 DEF LTies

AttemptsSet(f, A, st, t, g) ==
  /\ g \in [DOMAIN f -> AttemptRow]
  /\ \A a \in DOMAIN f :
       IF a \in A THEN g[a].status = st /\ g[a].updated = t /\ g[a].manifest = f[a].manifest
       ELSE g[a] = f[a]

\* UPDATE attempts keeps identity and manifest of every row.
LEMMA SetAttemptsRows ==
  ASSUME NEW f, f \in [DOMAIN f -> AttemptRow], NEW A, NEW st \in AttemptStatus, NEW t \in Nat
  PROVE  AttemptsSet(f, A, st, t, SetAttempts(f, A, st, t))
<1> DEFINE g == SetAttempts(f, A, st, t)
<1>1. /\ DOMAIN g = DOMAIN f
      /\ g = [a \in DOMAIN f |-> g[a]]
      /\ \A a \in DOMAIN f : a \notin A => g[a] = f[a]
      /\ \A a \in DOMAIN f : a \in A => g[a] = [status |-> st, updated |-> t, ident |-> f[a].ident,
                                               manifest |-> f[a].manifest]
  BY DEF SetAttempts
<1> HIDE DEF g
<1>2. \A a \in DOMAIN f : g[a] \in AttemptRow
  <2> TAKE a \in DOMAIN f
  <2>1. f[a] \in AttemptRow
    OBVIOUS
  <2> QED
    BY <1>1, <2>1 DEF AttemptRow
<1>3. g \in [DOMAIN f -> AttemptRow]
  BY <1>1, <1>2
<1>4. \A a \in DOMAIN f : a \in A => g[a].status = st /\ g[a].updated = t /\ g[a].manifest = f[a].manifest
  BY <1>1
<1> QED
  BY <1>1, <1>3, <1>4 DEF AttemptsSet, g

\* recover_interrupted preserves the invariant and history.
LEMMA RecoverCommits ==
  ASSUME NEW d, LInv(d), NEW t \in Nat, CanRecover(d, t)
  PROVE  Commits(d, RecoverInterrupted(d, t))
<1> DEFINE dead == AttemptsIn(d, {"RUNNING"})
           J == JobsOf(d, AttemptsIn(d, {"RUNNING", "EXPORTED"}))
           S == SlotsIn(d, dead, {"RUNNING"})
           e == RecoverInterrupted(d, t)
<1>1. LType(d) /\ LWork(d) /\ LTies(d) /\ d.watermark <= t
  BY DEF LInv, LWork, CanRecover, Observes
<1>2. /\ e.slots = SetSlots(d.slots, S, "INTERRUPTED", t)
      /\ e.attempts = SetAttempts(d.attempts, dead, "INTERRUPTED", t)
      /\ e.jobs = CloseJobs(d.jobs, J, "interrupted", t)
      /\ e.watermark = t
      /\ e = Ledger(e.slots, e.attempts, e.jobs, e.watermark)
  BY DEF RecoverInterrupted, Ledger
<1>3. /\ dead \subseteq AttemptsIn(d, Live) /\ "INTERRUPTED" \in AttemptStatus
      /\ "INTERRUPTED" \notin Live /\ "INTERRUPTED" \notin Unresolved \cup {"DELIVERED"}
  BY DEF AttemptsIn, Live, AttemptStatus, ClosedAttempts, Unresolved
<1>4. /\ \A j \in DOMAIN d.jobs : j[1] \in dead => j \in J
      /\ S \subseteq Slots
      /\ \A s \in S : \E a \in dead : SlotOf(a) = s
      /\ \A a \in dead : SlotOf(a) \notin S => d.slots[SlotOf(a)].status # d.attempts[a].status
  BY <1>1 DEF JobsOf, AttemptsIn, SlotsIn, LType, AttemptIds, SlotOf
<1> HIDE DEF dead, J, S, e
<1>5. /\ e.slots \in [Slots -> SlotRow]
      /\ \A s \in Slots : IF s \in S THEN e.slots[s].status = "INTERRUPTED" /\ e.slots[s].updated = t
                          ELSE e.slots[s] = d.slots[s]
  BY <1>1, <1>2 DEF LType, SetSlots, SlotRow, SlotStatus, Claimable
<1>6. AttemptsSet(d.attempts, dead, "INTERRUPTED", t, e.attempts)
  <2>1. d.attempts \in [DOMAIN d.attempts -> AttemptRow]
    BY <1>1 DEF LType
  <2> QED
    BY <1>2, <1>3, <2>1, SetAttemptsRows
<1>7. /\ e.jobs \in [DOMAIN d.jobs -> JobRow]
      /\ \A j \in DOMAIN d.jobs :
           IF j \in J /\ d.jobs[j].status = "running"
           THEN e.jobs[j].status # "running" /\ e.jobs[j].at = t
           ELSE e.jobs[j] = d.jobs[j]
  BY <1>1, <1>2 DEF LType, CloseJobs, JobRow, JobStatus
<1>8. LType(e)
  BY <1>1, <1>2, <1>5, <1>6, <1>7 DEF LType, AttemptsSet
<1>9. Moved(d, dead, J, "INTERRUPTED", e)
  BY <1>1, <1>2, <1>5, <1>6, <1>7 DEF Moved, AttemptsSet
<1>10. LWork(e) /\ LHistory(d, e)
  BY <1>1, <1>3, <1>4, <1>8, <1>9, MovedWork
<1>11. Shown(d, dead, "INTERRUPTED", S, "INTERRUPTED", e)
  BY <1>3, <1>4, <1>5 DEF Shown
<1>12. LTies(e)
  BY <1>3, <1>8, <1>9, <1>11, MovedTies
<1> QED
  BY <1>10, <1>12 DEF Commits, LInv, e

\* mark_delivered on an attempt that is not DELIVERED yet.
LEMMA MarkDeliveredCommits ==
  ASSUME NEW d, LInv(d), NEW a, NEW m \in Manifests, NEW t \in Nat, CanMarkDelivered(d, a, m, t)
  PROVE  Commits(d, MarkDelivered(d, a, t))
<1>0. CASE d.attempts[a].status = "DELIVERED"
  BY <1>0, ObserveClockKept DEF MarkDelivered, Commits, CanMarkDelivered
<1>1. CASE d.attempts[a].status # "DELIVERED"
  <2> DEFINE J == UploadsOf(d, a)
             S == {s \in {SlotOf(a)} : d.slots[s].status = "EXPORTED"}
             e == MarkDelivered(d, a, t)
  <2>1. LType(d) /\ LWork(d) /\ d.watermark <= t
    BY DEF LInv, LWork, CanMarkDelivered, Observes
  <2>2. /\ e.slots = SetSlots(d.slots, S, "DELIVERED", t)
        /\ e.attempts = SetAttempts(d.attempts, {a}, "DELIVERED", t)
        /\ e.jobs = CloseJobs(d.jobs, J, "succeeded", t)
        /\ e.watermark = t
        /\ e = Ledger(e.slots, e.attempts, e.jobs, e.watermark)
    BY <1>1 DEF MarkDelivered, Ledger
  <2>3. a \in DOMAIN d.attempts /\ d.attempts[a].status = "EXPORTED" /\ SlotOf(a) \in Slots
    BY <1>1, <2>1 DEF CanMarkDelivered, AttemptsIn, LType, AttemptIds, SlotOf
  <2>4. /\ {a} \subseteq AttemptsIn(d, Live) /\ "DELIVERED" \in AttemptStatus
        /\ "DELIVERED" \notin Live /\ "DELIVERED" # "RUNNING"
        /\ d.attempts[a].manifest # None
    BY <2>1, <2>3, LedgerAssumption DEF AttemptsIn, Live, AttemptStatus, ClosedAttempts, Unresolved, CanMarkDelivered
  <2>5. /\ \A j \in DOMAIN d.jobs : j[1] \in {a} /\ j[2] >= 1 => j \in J
        /\ \A s \in S : \E b \in {a} : SlotOf(b) = s
        /\ \A b \in {a} : SlotOf(b) \notin S => d.slots[SlotOf(b)].status # d.attempts[b].status
    BY <2>3 DEF UploadsOf
  <2> HIDE DEF J, S, e
  <2>6. /\ e.slots \in [Slots -> SlotRow]
        /\ \A s \in Slots : IF s \in S THEN e.slots[s].status = "DELIVERED" /\ e.slots[s].updated = t
                            ELSE e.slots[s] = d.slots[s]
    BY <2>1, <2>2 DEF LType, SetSlots, SlotRow, SlotStatus, TERMINAL_SLOTS
  <2>7. AttemptsSet(d.attempts, {a}, "DELIVERED", t, e.attempts)
    <3>1. d.attempts \in [DOMAIN d.attempts -> AttemptRow]
      BY <2>1 DEF LType
    <3> QED
      BY <2>2, <2>4, <3>1, SetAttemptsRows
  <2>8. /\ e.jobs \in [DOMAIN d.jobs -> JobRow]
        /\ \A j \in DOMAIN d.jobs :
             IF j \in J /\ d.jobs[j].status = "running"
             THEN e.jobs[j].status # "running" /\ e.jobs[j].at = t
             ELSE e.jobs[j] = d.jobs[j]
    BY <2>1, <2>2 DEF LType, CloseJobs, JobRow, JobStatus
  <2>9. LType(e)
    BY <2>1, <2>2, <2>6, <2>7, <2>8 DEF LType, AttemptsSet
  <2>10. Moved(d, {a}, J, "DELIVERED", e) /\ \A b \in {a} : e.attempts[b].manifest # None
    BY <2>1, <2>2, <2>3, <2>4, <2>6, <2>7, <2>8 DEF Moved, AttemptsSet
  <2>11. LWork(e) /\ LHistory(d, e)
    BY <2>1, <2>4, <2>5, <2>9, <2>10, MovedWork
  <2>12. Shown(d, {a}, "DELIVERED", S, "DELIVERED", e)
    BY <2>4, <2>5, <2>6, <2>10 DEF Shown
  <2>13. LTies(e)
    BY <2>4, <2>9, <2>10, <2>12, MovedTies
  <2> QED
    BY <2>11, <2>13 DEF Commits, LInv, e
<1> QED
  BY <1>0, <1>1

\* fail preserves the invariant and history: an unresolved export survives it.
LEMMA FailCommits ==
  ASSUME NEW d, LInv(d), NEW a, NEW t \in Nat, CanFail(d, a, t)
  PROVE  Commits(d, Fail(d, a, t))
<1> DEFINE st == IF d.attempts[a].status \in Unresolved THEN d.attempts[a].status ELSE "FAILED"
           J == JobsOf(d, {a})
           S == {s \in {SlotOf(a)} : d.slots[s].status \notin TERMINAL_SLOTS}
           e == Fail(d, a, t)
<1>1. LType(d) /\ LWork(d) /\ LTies(d) /\ d.watermark <= t
  BY DEF LInv, LWork, CanFail, Observes
<1>2. /\ e.slots = SetSlots(d.slots, S, st, t)
      /\ e.attempts = SetAttempts(d.attempts, {a}, st, t)
      /\ e.jobs = CloseJobs(d.jobs, J, "failed", t)
      /\ e.watermark = t
      /\ e = Ledger(e.slots, e.attempts, e.jobs, e.watermark)
  BY DEF Fail, Ledger
<1>3. a \in DOMAIN d.attempts /\ a \in AttemptsIn(d, Live) /\ SlotOf(a) \in Slots
  BY <1>1 DEF CanFail, AttemptsIn, LType, AttemptIds, SlotOf
<1>4. /\ st \in AttemptStatus /\ st \in SlotStatus /\ st # "RUNNING" /\ st # "DELIVERED"
      /\ {a} \subseteq AttemptsIn(d, Live)
      /\ st \in Live => st \in Unresolved /\ d.attempts[a].status = st
      /\ st \in Unresolved \cup {"DELIVERED"} => d.attempts[a].manifest # None
  <2>1. CASE d.attempts[a].status \in Unresolved
    BY <1>1, <1>3, <2>1 DEF LWork, LExported, AttemptsIn, AttemptStatus, SlotStatus, Live, Unresolved
  <2>2. CASE d.attempts[a].status \notin Unresolved
    BY <1>3, <2>2 DEF AttemptStatus, SlotStatus, Claimable, ClosedAttempts, Live, Unresolved
  <2> QED
    BY <2>1, <2>2
<1>5. st \in Live => SlotOf(a) \in S
  BY <1>1, <1>3, <1>4 DEF LTies, LFollows, TERMINAL_SLOTS, Unresolved
<1>6. SlotOf(a) \notin S => d.slots[SlotOf(a)].status # d.attempts[a].status
  BY <1>3 DEF TERMINAL_SLOTS, AttemptsIn, Live, Unresolved
<1>7. (\A j \in DOMAIN d.jobs : j[1] \in {a} => j \in J) /\ (\A s \in S : s = SlotOf(a))
  BY DEF JobsOf
<1> HIDE DEF J, S, e, st
<1>8. /\ e.slots \in [Slots -> SlotRow]
      /\ \A s \in Slots : IF s \in S THEN e.slots[s].status = st /\ e.slots[s].updated = t
                          ELSE e.slots[s] = d.slots[s]
  BY <1>1, <1>2, <1>4 DEF LType, SetSlots, SlotRow
<1>9. AttemptsSet(d.attempts, {a}, st, t, e.attempts)
  <2>1. d.attempts \in [DOMAIN d.attempts -> AttemptRow]
    BY <1>1 DEF LType
  <2> QED
    BY <1>2, <1>4, <2>1, SetAttemptsRows
<1>10. /\ e.jobs \in [DOMAIN d.jobs -> JobRow]
       /\ \A j \in DOMAIN d.jobs :
            IF j \in J /\ d.jobs[j].status = "running"
            THEN e.jobs[j].status # "running" /\ e.jobs[j].at = t
            ELSE e.jobs[j] = d.jobs[j]
  BY <1>1, <1>2 DEF LType, CloseJobs, JobRow, JobStatus
<1>11. LType(e)
  BY <1>1, <1>2, <1>8, <1>9, <1>10 DEF LType, AttemptsSet
<1>12. Moved(d, {a}, J, st, e)
  BY <1>1, <1>2, <1>3, <1>8, <1>9, <1>10 DEF Moved, AttemptsSet
<1>13. st \in Unresolved \cup {"DELIVERED"} => \A b \in {a} : e.attempts[b].manifest # None
  BY <1>3, <1>4, <1>9 DEF AttemptsSet
<1>14. LWork(e) /\ LHistory(d, e)
  BY <1>1, <1>4, <1>7, <1>11, <1>12, <1>13, MovedWork
<1>15. Shown(d, {a}, st, S, st, e)
  BY <1>4, <1>5, <1>6, <1>7, <1>8 DEF Shown
<1>16. LTies(e)
  BY <1>4, <1>11, <1>12, <1>15, MovedTies
<1> QED
  BY <1>14, <1>16 DEF Commits, LInv, e

\* mark_export_intent and mark_export preserve the invariant and history.
LEMMA RecordExportCommits ==
  ASSUME NEW d, LInv(d), NEW a, NEW m \in Manifests, NEW st \in Unresolved, NEW t \in Nat,
         CanRecordExport(d, a, m, t)
  PROVE  Commits(d, RecordExport(d, a, m, st, t))
<1>0. CASE d.attempts[a].status \in {st, "EXPORTED"}
  BY <1>0, ObserveClockKept DEF RecordExport, Commits, CanRecordExport
<1>1. CASE d.attempts[a].status \notin {st, "EXPORTED"}
  <2> DEFINE new == [status |-> st, updated |-> t, ident |-> d.attempts[a].ident, manifest |-> m]
             e == RecordExport(d, a, m, st, t)
  <2>1. LType(d) /\ LWork(d) /\ d.watermark <= t
    BY DEF LInv, LWork, CanRecordExport, Observes
  <2>2. /\ e.slots = SetSlots(d.slots, {SlotOf(a)}, st, t)
        /\ e.attempts = [b \in DOMAIN d.attempts |-> IF b = a THEN new ELSE d.attempts[b]]
        /\ e.jobs = d.jobs
        /\ e.watermark = t
        /\ e = Ledger(e.slots, e.attempts, e.jobs, e.watermark)
    BY <1>1 DEF RecordExport, Ledger
  <2>3. /\ a \in DOMAIN d.attempts /\ a \in AttemptsIn(d, Live) /\ SlotOf(a) \in Slots
        /\ d.attempts[a].manifest \in {None, m} /\ m # None
    BY <2>1, LedgerAssumption DEF CanRecordExport, AttemptsIn, LType, AttemptIds, SlotOf
  <2>4. /\ st \in AttemptStatus /\ st \in SlotStatus /\ st # "RUNNING" /\ st # "DELIVERED"
        /\ st \in Live /\ {a} \subseteq AttemptsIn(d, Live)
    BY <2>3 DEF AttemptStatus, SlotStatus, Live, Unresolved
  <2>5. /\ new \in AttemptRow /\ new.status = st /\ new.updated = t /\ new.manifest = m
    <3>1. d.attempts[a] \in AttemptRow
      BY <2>1, <2>3 DEF LType
    <3> QED
      BY <2>4, <3>1 DEF AttemptRow
  <2> HIDE DEF e, new
  <2>6. /\ e.slots \in [Slots -> SlotRow]
        /\ \A s \in Slots : IF s \in {SlotOf(a)} THEN e.slots[s].status = st /\ e.slots[s].updated = t
                            ELSE e.slots[s] = d.slots[s]
    BY <2>1, <2>2, <2>4 DEF LType, SetSlots, SlotRow
  <2>7. e.attempts \in [DOMAIN d.attempts -> AttemptRow]
    BY <2>1, <2>2, <2>5 DEF LType
  <2>8. LType(e)
    BY <2>1, <2>2, <2>6, <2>7 DEF LType
  <2>9. Moved(d, {a}, {}, st, e)
    BY <2>1, <2>2, <2>3, <2>5, <2>6 DEF Moved
  <2>10. \A b \in {a} : e.attempts[b].manifest # None
    BY <2>2, <2>3, <2>5
  <2>11. LWork(e) /\ LHistory(d, e)
    BY <2>1, <2>4, <2>8, <2>9, <2>10, MovedWork
  <2>12. Shown(d, {a}, st, {SlotOf(a)}, st, e)
    BY <2>4, <2>6 DEF Shown
  <2>13. LTies(e)
    BY <2>4, <2>8, <2>9, <2>12, MovedTies
  <2> QED
    BY <2>11, <2>13 DEF Commits, LInv, e
<1> QED
  BY <1>0, <1>1

\* record_job preserves the invariant and history.
LEMMA RecordJobCommits ==
  ASSUME NEW d, LInv(d), NEW a, NEW k \in Nat, NEW st \in JobStatus, NEW t \in Nat,
         CanRecordJob(d, a, k, st, t)
  PROVE  Commits(d, RecordJob(d, a, k, st, t))
<1> DEFINE id == <<a, k>>
           same == id \in DOMAIN d.jobs /\ d.jobs[id].status # "running"
           e == RecordJob(d, a, k, st, t)
<1>1. LType(d) /\ LWork(d) /\ LTies(d) /\ d.watermark <= t /\ a \in DOMAIN d.attempts
  BY DEF LInv, LWork, CanRecordJob, Observes
<1>2. /\ e.slots = d.slots /\ e.attempts = d.attempts /\ e.watermark = t
      /\ e.jobs = IF same THEN d.jobs
                  ELSE [j \in DOMAIN d.jobs \cup {id} |->
                          IF j = id THEN [status |-> st, at |-> t] ELSE d.jobs[j]]
      /\ e = Ledger(e.slots, e.attempts, e.jobs, e.watermark)
  BY DEF RecordJob, Ledger
<1> HIDE DEF e
<1>3. /\ e.jobs \in [DOMAIN e.jobs -> JobRow]
      /\ DOMAIN e.jobs = DOMAIN d.jobs \cup {id}
      /\ \A j \in DOMAIN d.jobs : j # id \/ d.jobs[j].status # "running" => e.jobs[j] = d.jobs[j]
      /\ same \/ (e.jobs[id].status = st /\ e.jobs[id].at = t)
  BY <1>1, <1>2 DEF LType, JobRow
<1>4. LType(e)
  <2>1. DOMAIN e.attempts \subseteq AttemptIds /\ e.attempts \in [DOMAIN e.attempts -> AttemptRow]
    BY <1>1, <1>2 DEF LType
  <2>2. e.slots \in [Slots -> SlotRow] /\ e.watermark \in Nat
    BY <1>1, <1>2 DEF LType
  <2>3. DOMAIN e.jobs \subseteq (DOMAIN e.attempts) \X Nat
    <3>1. DOMAIN d.jobs \subseteq (DOMAIN d.attempts) \X Nat
      BY <1>1 DEF LType
    <3>2. id \in (DOMAIN d.attempts) \X Nat
      BY <1>1
    <3>3. DOMAIN e.attempts = DOMAIN d.attempts
      BY <1>2
    <3>4. DOMAIN e.jobs = DOMAIN d.jobs \cup {id}
      BY <1>3
    <3> HIDE DEF id
    <3> QED
      BY <3>1, <3>2, <3>3, <3>4
  <2>4. e = Ledger(e.slots, e.attempts, e.jobs, e.watermark)
    BY <1>2
  <2> QED
    BY <1>3, <2>1, <2>2, <2>3, <2>4 DEF LType
<1>5. LBudget(e) /\ LOneRunning(e) /\ LNewest(e) /\ LExported(e) /\ LTies(e)
  <2>0. e.slots = d.slots /\ e.attempts = d.attempts
    BY <1>2
  <2>1. /\ \A s : AttemptsOf(e, s) = AttemptsOf(d, s)
        /\ \A S : AttemptsIn(e, S) = AttemptsIn(d, S)
    BY <2>0 DEF AttemptsOf, AttemptsIn
  <2>2. LBudget(e)
    BY <1>1, <2>1 DEF LWork, LBudget
  <2>3. LOneRunning(e)
    BY <1>1, <2>1 DEF LWork, LOneRunning
  <2>4. LNewest(e)
    BY <1>1, <2>1 DEF LWork, LNewest
  <2>5. LExported(e)
    BY <1>1, <2>0, <2>1 DEF LWork, LExported
  <2>6. LFollows(e)
    BY <1>1, <2>0, <2>1 DEF LTies, LFollows
  <2>7. LBacked(e)
    BY <1>1, <2>0, <2>1 DEF LTies, LBacked
  <2>8. LDelivered(e)
    BY <1>1, <2>0, <2>1 DEF LTies, LDelivered
  <2> QED
    BY <2>2, <2>3, <2>4, <2>5, <2>6, <2>7, <2>8 DEF LTies
<1>6. LNoOrphan(e)
  <2> SUFFICES ASSUME NEW j \in DOMAIN e.jobs, j[2] >= 1, e.jobs[j].status = "running"
               PROVE  e.attempts[j[1]].status \in Live
    BY DEF LNoOrphan
  <2>1. CASE j # id
    BY <1>1, <1>2, <1>3, <2>1 DEF LWork, LNoOrphan
  <2>2. CASE j = id
    <3>1. ~same /\ st = "running" /\ j[1] = a
      BY <1>2, <1>3, <2>2
    <3>2. d.attempts[a].status \in Live
      BY <3>1 DEF CanRecordJob, Live, Unresolved
    <3> QED
      BY <1>2, <3>1, <3>2
  <2> QED
    BY <2>1, <2>2
<1>7. LStamps(e)
  <2>1. d.watermark \in Nat
    BY <1>1 DEF LType
  <2>2. \A s \in Slots : e.slots[s].updated <= t
    BY <1>1, <1>2, <2>1 DEF LWork, LStamps, LType, SlotRow
  <2>3. \A b \in DOMAIN e.attempts : e.attempts[b].updated <= t
    BY <1>1, <1>2, <2>1 DEF LWork, LStamps, LType, AttemptRow
  <2>4. \A j \in DOMAIN e.jobs : e.jobs[j].at <= t
    <3> TAKE j \in DOMAIN e.jobs
    <3>1. CASE j \in DOMAIN d.jobs /\ e.jobs[j] = d.jobs[j]
      BY <1>1, <2>1, <3>1 DEF LWork, LStamps, LType, JobRow
    <3>2. CASE ~(j \in DOMAIN d.jobs /\ e.jobs[j] = d.jobs[j])
      BY <1>3, <3>2
    <3> QED
      BY <3>1, <3>2
  <2> QED
    BY <1>2, <2>2, <2>3, <2>4 DEF LStamps
<1>8. LHistory(d, e)
  BY <1>2, <1>3 DEF LHistory
<1> QED
  BY <1>4, <1>5, <1>6, <1>7, <1>8 DEF Commits, LInv, LWork, e

-----------------------------------------------------------------------------
(* The specification. *)

\* An empty ledger satisfies the invariant.
LEMMA InitInv ==
  LedgerInit => LInv(db)
<1> SUFFICES ASSUME LedgerInit PROVE LInv(db)
  OBVIOUS
<1>1. /\ db.slots = [s \in Slots |-> [status |-> "ABSENT", updated |-> 0]]
      /\ DOMAIN db.attempts = {} /\ db.attempts \in [{} -> AttemptRow]
      /\ DOMAIN db.jobs = {} /\ db.jobs \in [{} -> JobRow]
      /\ db.watermark = 0
      /\ db = Ledger(db.slots, db.attempts, db.jobs, db.watermark)
  BY DEF LedgerInit, EmptyLedger, Ledger
<1>2. LType(db)
  BY <1>1 DEF LType, SlotRow, SlotStatus
<1>3. LBudget(db)
  <2> SUFFICES ASSUME NEW s \in Slots
               PROVE  \E n \in 0..MaxAttempts : AttemptsOf(db, s) = {<<s, k>> : k \in 1..n}
    BY DEF LBudget
  <2>1. 0 \in 0..MaxAttempts
    BY LedgerAssumption
  <2>2. AttemptsOf(db, s) = {<<s, k>> : k \in 1..0}
    BY <1>1 DEF AttemptsOf
  <2> QED
    BY <2>1, <2>2
<1>4. LOneRunning(db) /\ LNewest(db) /\ LNoOrphan(db) /\ LExported(db) /\ LFollows(db)
  BY <1>1 DEF LOneRunning, LNewest, LNoOrphan, LExported, LFollows, AttemptsIn
<1>5. LStamps(db)
  BY <1>1 DEF LStamps
<1>6. LBacked(db) /\ LDelivered(db)
  BY <1>1 DEF LBacked, LDelivered, Live, Unresolved
<1> QED
  BY <1>2, <1>3, <1>4, <1>5, <1>6 DEF LInv, LWork, LTies

\* Every transaction of any client preserves the invariant and history.
LEMMA NextCommits ==
  LInv(db) /\ LedgerNext => Commits(db, db')
<1> SUFFICES ASSUME LInv(db), LedgerNext PROVE Commits(db, db')
  OBVIOUS
<1>0. Times \subseteq Nat /\ JobNos \subseteq Nat
  BY LedgerAssumption
<1>1. CASE PlanDueStep
  BY <1>0, <1>1, PlanDueCommits DEF PlanDueStep
<1>2. CASE ClaimStep
  BY <1>0, <1>2, ClaimCommits DEF ClaimStep
<1>3. CASE RecoverStep
  BY <1>0, <1>3, RecoverCommits DEF RecoverStep
<1>4. CASE RecordJobStep
  BY <1>0, <1>4, RecordJobCommits DEF RecordJobStep
<1>5. CASE RecordExportStep
  BY <1>0, <1>5, RecordExportCommits DEF RecordExportStep
<1>6. CASE QuarantineStep
  BY <1>0, <1>6, QuarantineCommits DEF QuarantineStep
<1>7. CASE MarkDeliveredStep
  BY <1>0, <1>7, MarkDeliveredCommits DEF MarkDeliveredStep
<1>8. CASE FailStep
  BY <1>0, <1>8, FailCommits DEF FailStep
<1>9. CASE PendingReplayStep
  BY <1>0, <1>9, PendingReplayCommits DEF PendingReplayStep
<1> QED
  BY <1>1, <1>2, <1>3, <1>4, <1>5, <1>6, <1>7, <1>8, <1>9 DEF LedgerNext

\* Whatever its clients do, the ledger satisfies the whole invariant: tables of their
\* schema, and all the relations between slots, attempts, jobs and stamps below.
THEOREM LedgerInvariant == LedgerSpec => []LInv(db)
<1>1. LedgerInit => LInv(db)
  BY InitInv
<1>2. LInv(db) /\ [LedgerNext]_db => LInv(db)'
  BY NextCommits DEF Commits
<1> QED
  BY <1>1, <1>2, PTL DEF LedgerSpec

\* Every method keeps the tables well formed.
THEOREM LedgerTypeOK == LedgerSpec => []TypeOK
<1>1. LInv(db) => TypeOK
  BY DEF LInv, LWork, LType, TypeOK
<1> QED
  BY <1>1, LedgerInvariant, PTL

\* claim never lets two computations run at once.
THEOREM LedgerAtMostOneRunning == LedgerSpec => []AtMostOneRunning
<1>1. LInv(db) => AtMostOneRunning
  BY DEF LInv, LWork, LOneRunning, AtMostOneRunning
<1> QED
  BY <1>1, LedgerInvariant, PTL

\* No slot is computed more than max_attempts times.
THEOREM LedgerRetryBudget == LedgerSpec => []RetryBudget
<1>1. LInv(db) => RetryBudget
  BY DEF LInv, LWork, LBudget, RetryBudget
<1> QED
  BY <1>1, LedgerInvariant, PTL

\* Slot status and live attempt agree, so a slot with live work is never claimable.
THEOREM LedgerSlotFollowsAttempt == LedgerSpec => []SlotFollowsAttempt
<1>1. LInv(db) => SlotFollowsAttempt
  BY DEF LInv, LTies, LFollows, SlotFollowsAttempt
<1> QED
  BY <1>1, LedgerInvariant, PTL

\* Two packages of one slot never wait for delivery together.
THEOREM LedgerOneLivePerSlot == LedgerSpec => []OneLivePerSlot
<1>1. LInv(db) => OneLivePerSlot
  BY DEF LInv, LWork, LNewest, OneLivePerSlot
<1> QED
  BY <1>1, LedgerInvariant, PTL

\* A slot in progress, and a delivered slot, have an attempt to show for it.
THEOREM LedgerBacked == LedgerSpec => [](SlotIsBacked /\ DeliveredIsBacked)
<1>1. LInv(db) => SlotIsBacked /\ DeliveredIsBacked
  BY DEF LInv, LTies, LBacked, LDelivered, SlotIsBacked, DeliveredIsBacked
<1> QED
  BY <1>1, LedgerInvariant, PTL

\* An attempt never ends with an upload of its own still running.
THEOREM LedgerNoOrphanUpload == LedgerSpec => []NoOrphanUpload
<1>1. LInv(db) => NoOrphanUpload
  BY DEF LInv, LWork, LNoOrphan, NoOrphanUpload
<1> QED
  BY <1>1, LedgerInvariant, PTL

\* No stamp is ahead of the clock watermark.
THEOREM LedgerStamps == LedgerSpec => []StampsBehindWatermark
<1>1. LInv(db) => StampsBehindWatermark
  BY DEF LInv, LWork, LStamps, StampsBehindWatermark
<1> QED
  BY <1>1, LedgerInvariant, PTL

\* Attempts stay sound: one computation at a time, within the retry budget, one live package per
\* slot, no upload of a closed attempt, no stamp ahead of the watermark.
THEOREM LedgerAttemptsSound == LedgerSpec => []AttemptsSound
<1>1. AtMostOneRunning /\ RetryBudget /\ OneLivePerSlot /\ NoOrphanUpload /\ StampsBehindWatermark
      => AttemptsSound
  BY DEF AttemptsSound
<1> QED
  BY <1>1, LedgerAtMostOneRunning, LedgerRetryBudget, LedgerOneLivePerSlot, LedgerNoOrphanUpload,
     LedgerStamps, PTL

\* What a slot's row says is what its attempts show: its status follows the live attempt, and
\* work in progress and delivery are backed by an attempt.
THEOREM LedgerSlotsTruthful == LedgerSpec => []SlotsTruthful
<1>1. SlotFollowsAttempt /\ (SlotIsBacked /\ DeliveredIsBacked) => SlotsTruthful
  BY DEF SlotsTruthful
<1> QED
  BY <1>1, LedgerSlotFollowsAttempt, LedgerBacked, PTL

\* No method rewrites a closed attempt, an exported manifest or a finished job.
THEOREM LedgerHistoryImmutable == LedgerSpec => HistoryImmutable
<1>1. LInv(db) /\ [LedgerNext]_db =>
        [/\ \A a \in DOMAIN db.attempts :
              /\ a \in DOMAIN db'.attempts
              /\ db.attempts[a].status \in ClosedAttempts => db'.attempts[a].status = db.attempts[a].status
              /\ db.attempts[a].manifest # None => db'.attempts[a].manifest = db.attempts[a].manifest
         /\ \A j \in DOMAIN db.jobs :
              /\ j \in DOMAIN db'.jobs
              /\ db.jobs[j].status # "running" => db'.jobs[j] = db.jobs[j]]_db
  BY NextCommits DEF Commits, LHistory
<1> QED
  BY <1>1, LedgerInvariant, PTL DEF LedgerSpec, HistoryImmutable
=============================================================================
