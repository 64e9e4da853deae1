---------------------------- MODULE QueueProofs ----------------------------
(***************************************************************************)
(* Proofs about the three queues: the board runs of TaskRuns, the data     *)
(* jobs of DataJobs and the research jobs of ResearchJobs.                 *)
(***************************************************************************)
EXTENDS ResearchJobs, DataJobs, TaskRuns, FiniteSetTheorems, WellFoundedInduction, TLAPS

-----------------------------------------------------------------------------
(* Board runs.                                                              *)

\* A session's variables against the committed rows: it runs a row that has no outcome, and its
\* slot, which only the scheduler has, is unclaimed until it commits.
SessionOK(s) ==
  /\ ses[s].run # NoRun <=> ses[s].pc \in {"running", "recovering"}
  /\ ses[s].pc = "running" => row[ses[s].run] \in {"absent", "queued"}
  /\ ses[s].slot # NoRun => s = Scheduler /\ ses[s].pc \in {"starting", "running", "releasing"}
  /\ ses[s].slot # NoRun /\ ses[s].pc # "releasing" => ses[s].slot \notin claimed
  /\ ses[s].pc = "releasing" =>
       ses[s].slot # NoRun /\ ses[s].slot \in claimed /\ built[ses[s].slot] = 0

\* Two sessions have the same run only if its row is committed.
RunsApart ==
  \A s, t \in Sessions : s # t /\ ses[s].run # NoRun /\ ses[s].run = ses[t].run =>
    row[ses[s].run] # "absent"

\* A run without an outcome was not counted, and none was counted twice.
EndedRows ==
  /\ ended \in [Runs -> Nat]
  /\ \A r \in Runs : ended[r] <= 1 /\ (row[r] \in {"absent", "queued"} => ended[r] = 0)

\* A board belongs to a claimed slot.
BuiltClaimed ==
  /\ built \in [Slots -> Nat] /\ crashes \in Nat
  /\ \A k \in Slots : built[k] <= 1 /\ (k \notin claimed => built[k] = 0)

RunsInv ==
  /\ RunsTypeOK /\ (\A s \in Sessions : SessionOK(s)) /\ RunsApart
  /\ EndedRows /\ BuiltClaimed /\ ClaimBacked

Session == [pc : {"idle", "starting", "running", "releasing", "recovering"},
            want : Runs \cup {NoRun}, run : Runs \cup {NoRun}, fresh : BOOLEAN,
            slot : Slots \cup {NoRun}]

\* The constants, and a session that does nothing.
LEMMA RunsFacts ==
  /\ Scheduler # Worker /\ Sessions = {Scheduler, Worker}
  /\ NoRun \notin Sessions /\ NoRun \notin Runs /\ NoRun \notin Slots
  /\ IdleSession \in Session /\ IdleSession.pc = "idle"
  /\ IdleSession.run = NoRun /\ IdleSession.slot = NoRun
BY RunsAssumed DEF RunsAssumption, IdleSession, Session, Sessions

\* A fresh run id has no row and no session.
LEMMA FreshFacts ==
  ASSUME HasFreshId
  PROVE  FreshId \in Runs /\ row[FreshId] = "absent" /\ \A s \in Sessions : ses[s].run # FreshId
BY DEF HasFreshId, FreshId

\* Slots lost, one at most for every process that died.
LEMMA UnservedFacts ==
  ASSUME RunsInv
  PROVE  Unserved \subseteq Slots /\ IsFiniteSet(Unserved) /\ Cardinality(Unserved) \in Nat
<1>1. Unserved \subseteq Slots
  BY DEF Unserved, RunsInv, RunsTypeOK
<1>2. IsFiniteSet(Slots)
  BY FS_Interval, RunsAssumed DEF Slots, RunsAssumption
<1>3. IsFiniteSet(Unserved)
  BY <1>1, <1>2, FS_Subset
<1> QED
  BY <1>1, <1>3, FS_CardinalityType

LEMMA NothingLost ==
  ASSUME RunsInv, Unserved' \subseteq Unserved, crashes' = crashes
  PROVE  ClaimBacked'
<1>1. Cardinality(Unserved') <= Cardinality(Unserved) /\ Cardinality(Unserved') \in Nat
  <2>1. IsFiniteSet(Unserved)
    BY UnservedFacts
  <2>2. IsFiniteSet(Unserved') /\ Cardinality(Unserved') <= Cardinality(Unserved)
    BY <2>1, FS_Subset
  <2> QED
    BY <2>2, FS_CardinalityType
<1>2. Cardinality(Unserved) <= crashes /\ crashes \in Nat /\ Cardinality(Unserved) \in Nat
  BY UnservedFacts DEF RunsInv, ClaimBacked, BuiltClaimed
<1>3. Cardinality(Unserved') <= crashes'
  BY <1>1, <1>2
<1> QED
  BY <1>3 DEF ClaimBacked

\* The initial state satisfies the invariant.
LEMMA RunsInvInit == RunsInit => RunsInv
<1> SUFFICES ASSUME RunsInit PROVE RunsInv
  OBVIOUS
<1>1. \A s \in Sessions : ses[s] = IdleSession
  BY DEF RunsInit
<1>2. RunsTypeOK
  BY <1>1, RunsFacts DEF RunsInit, RunsTypeOK, Session
<1>3. (\A s \in Sessions : SessionOK(s)) /\ RunsApart
  BY <1>1, RunsFacts DEF SessionOK, RunsApart
<1>4. EndedRows /\ BuiltClaimed
  BY DEF RunsInit, EndedRows, BuiltClaimed
<1>5. ClaimBacked
  <2>1. Unserved = {} /\ crashes = 0
    BY DEF RunsInit, Unserved
  <2> QED
    BY <2>1, FS_EmptySet DEF ClaimBacked
<1> QED
  BY <1>2, <1>3, <1>4, <1>5 DEF RunsInv

\* Steps of a session that commit nothing: a session that is not running afterwards, or one that
\* has just taken the lock.
LEMMA SessionKeeps ==
  ASSUME RunsInv, NEW s \in Sessions, NEW x \in Session, ses' = [ses EXCEPT ![s] = x],
         UNCHANGED <<row, claimed, built, ended, crashes>>,
         due' \in Slots \cup {NoRun}, lock' \in Sessions \cup {NoRun},
         \A t \in Sessions \ {s} : lock = t => lock' = t,
         x.pc = "running" => lock' = s /\ row[x.run] \in {"absent", "queued"},
         x.run # NoRun <=> x.pc \in {"running", "recovering"},
         x.run # NoRun => \A t \in Sessions \ {s} : ses[t].run = x.run => row[x.run] # "absent",
         x.slot # NoRun => s = Scheduler /\ x.pc \in {"starting", "running"} /\ x.slot \notin claimed,
         x.pc # "releasing", ses[s].pc # "releasing"
  PROVE  RunsInv'
<1>1. ses'[s] = x /\ \A t \in Sessions \ {s} : ses'[t] = ses[t]
  BY DEF RunsInv, RunsTypeOK
<1>2. ses' \in [Sessions -> Session]
  BY DEF RunsInv, RunsTypeOK, Session
<1>3. \A t \in Sessions : ses'[t].pc = "running" => lock' = t
  BY <1>1 DEF RunsInv, RunsTypeOK
<1>4. RunsTypeOK'
  BY <1>2, <1>3 DEF RunsInv, RunsTypeOK, Session
<1>5. \A t \in Sessions : SessionOK(t)'
  BY <1>1 DEF RunsInv, SessionOK
<1>6. RunsApart'
  BY <1>1 DEF RunsInv, RunsApart
<1>7. EndedRows' /\ BuiltClaimed'
  BY DEF RunsInv, EndedRows, BuiltClaimed
<1>8. ClaimBacked'
  <2>1. Unserved' \subseteq Unserved
    BY <1>1 DEF Unserved
  <2> QED
    BY <2>1, NothingLost
<1> QED
  BY <1>4, <1>5, <1>6, <1>7, <1>8 DEF RunsInv

\* enqueue_refresh inserts a row nobody has.
LEMMA EnqueueRefreshKeeps == ASSUME RunsInv, EnqueueRefresh PROVE RunsInv'
<1>1. FreshId \in Runs /\ row[FreshId] = "absent" /\ \A s \in Sessions : ses[s].run # FreshId
  BY FreshFacts DEF EnqueueRefresh
<1> DEFINE r == FreshId
<1> HIDE DEF r
<1>2. r \in Runs /\ row[r] = "absent" /\ \A s \in Sessions : ses[s].run # r
  BY <1>1 DEF r
<1>3. row' = [row EXCEPT ![r] = "queued"]
  BY DEF EnqueueRefresh, r
<1>4. UNCHANGED <<claimed, lock, ses, due, built, ended, raised, fails, crashes>>
  BY DEF EnqueueRefresh
<1>5. row'[r] = "queued" /\ \A q \in Runs \ {r} : row'[q] = row[q]
  BY <1>2, <1>3 DEF RunsInv, RunsTypeOK
<1>6. RunsTypeOK'
  BY <1>3, <1>4 DEF RunsInv, RunsTypeOK
<1>7. \A s \in Sessions : ses[s].run \in Runs \cup {NoRun}
  BY DEF RunsInv, RunsTypeOK
<1>8. \A s \in Sessions : SessionOK(s)'
  BY <1>2, <1>4, <1>5, <1>7, RunsFacts DEF RunsInv, SessionOK
<1>9. RunsApart'
  BY <1>2, <1>4, <1>5, <1>7 DEF RunsInv, RunsApart
<1>10. EndedRows'
  BY <1>2, <1>4, <1>5 DEF RunsInv, EndedRows
<1>11. BuiltClaimed' /\ ClaimBacked'
  BY <1>4 DEF RunsInv, BuiltClaimed, ClaimBacked, Unserved
<1> QED
  BY <1>6, <1>8, <1>9, <1>10, <1>11 DEF RunsInv

\* The outcome of a run is committed together with the claim of its slot.
LEMMA CommitKeeps ==
  ASSUME RunsInv, NEW s \in Sessions, Succeed(s) \/ EndPartial(s) PROVE RunsInv'
<1> DEFINE r == ses[s].run
           k == ses[s].slot
<1>1. ses[s] \in Session /\ ses[s].pc = "running" /\ lock = s
  BY DEF Succeed, EndPartial, RunsInv, RunsTypeOK, Session
<1>2. r \in Runs /\ row[r] \in {"absent", "queued"} /\ ended[r] = 0 /\ k \in Slots \cup {NoRun}
  BY <1>1 DEF RunsInv, SessionOK, EndedRows, Session
<1>3. PICK status \in {"succeeded", "partial", "failed"} : CommitRun(s, status)
  BY DEF Succeed, EndPartial
<1>4. row' = [row EXCEPT ![r] = status] /\ ended' = [ended EXCEPT ![r] = ended[r] + 1] /\ lock' = NoRun
  BY <1>3 DEF CommitRun
<1>5. claimed' = IF k = NoRun THEN claimed ELSE claimed \cup {k}
  BY <1>3 DEF CommitRun
<1>6. /\ row'[r] = status /\ ended'[r] = 1
      /\ \A q \in Runs \ {r} : row'[q] = row[q] /\ ended'[q] = ended[q]
  BY <1>2, <1>4 DEF RunsInv, RunsTypeOK, EndedRows
<1>7. k # NoRun => s = Scheduler /\ k \notin claimed /\ built[k] = 0
  BY <1>1, <1>2 DEF RunsInv, SessionOK, BuiltClaimed
<1>8. PICK x \in Session :
        /\ ses' = [ses EXCEPT ![s] = x] /\ x.run = NoRun
        /\ \/ x = IdleSession /\ Succeed(s)
           \/ x = IdleSession /\ k = NoRun /\ EndPartial(s)
           \/ x.pc = "releasing" /\ x.slot = k /\ k # NoRun /\ ~Succeed(s)
  <2> DEFINE y == [IdleSession EXCEPT !.pc = "releasing", !.slot = k]
  <2>1. y \in Session /\ y.run = NoRun /\ y.pc = "releasing" /\ y.slot = k
    BY <1>2, RunsFacts DEF Session, IdleSession
  <2>2. CASE Succeed(s)
    BY <2>2, RunsFacts DEF Succeed
  <2>3. CASE EndPartial(s) /\ k = NoRun
    BY <2>3, RunsFacts DEF EndPartial
  <2>4. CASE EndPartial(s) /\ k # NoRun /\ ~Succeed(s)
    <3>1. ses' = [ses EXCEPT ![s] = y]
      BY <2>4 DEF EndPartial
    <3> QED
      BY <2>1, <2>4, <3>1
  <2> QED
    BY <2>2, <2>3, <2>4
<1>9. ses'[s] = x /\ \A t \in Sessions \ {s} : ses'[t] = ses[t]
  BY <1>8 DEF RunsInv, RunsTypeOK
<1>10. \A t \in Sessions \ {s} : ses[t].pc # "running" /\ ses[t].run \in Runs \cup {NoRun}
  BY <1>1 DEF RunsInv, RunsTypeOK
<1>11. UNCHANGED <<due, crashes>>
  BY DEF Succeed, EndPartial
<1> HIDE DEF r, k
<1>12. built' \in [Slots -> Nat] /\ (\A j \in Slots : j # k => built'[j] = built[j])
       /\ (k # NoRun => built'[k] = IF Succeed(s) THEN 1 ELSE 0)
  <2>1. CASE Succeed(s)
    <3>1. built' = IF k = NoRun THEN built ELSE [built EXCEPT ![k] = built[k] + 1]
      BY <2>1 DEF Succeed, k
    <3> QED
      BY <1>2, <1>7, <2>1, <3>1 DEF RunsInv, BuiltClaimed
  <2>2. CASE EndPartial(s) /\ ~Succeed(s)
    BY <1>7, <2>2 DEF EndPartial, RunsInv, BuiltClaimed
  <2> QED
    BY <2>1, <2>2
<1>13. RunsTypeOK'
  <2>1. ses' \in [Sessions -> Session]
    BY <1>8 DEF RunsInv, RunsTypeOK, Session
  <2>2. \A t \in Sessions : ses'[t].pc # "running"
    BY <1>8, <1>9, <1>10, RunsFacts
  <2>3. claimed' \subseteq Slots /\ row' \in [Runs -> {"absent", "queued", "succeeded", "partial", "failed"}]
    BY <1>2, <1>4, <1>5 DEF RunsInv, RunsTypeOK
  <2> QED
    BY <1>4, <1>11, <2>1, <2>2, <2>3 DEF RunsInv, RunsTypeOK, Session
<1>14. ASSUME NEW t \in Sessions PROVE SessionOK(t)'
  <2>1. CASE t = s
    BY <1>5, <1>7, <1>8, <1>9, <1>12, <2>1, RunsFacts DEF SessionOK
  <2>2. CASE t # s
    <3>1. ses'[t] = ses[t] /\ SessionOK(t) /\ ses[t].pc # "running"
      BY <1>9, <1>10, <2>2 DEF RunsInv
    <3>2. ses[t].slot # NoRun => k = NoRun
      BY <1>7, <2>2, <3>1 DEF SessionOK
    <3>3. k = NoRun => claimed' = claimed
      BY <1>5
    <3>4. ses[t].slot # NoRun => ses[t].slot # k
      BY <3>2
    <3>5. ses[t].slot \in Slots \cup {NoRun}
      BY DEF RunsInv, RunsTypeOK
    <3>6. ses[t].slot # NoRun => claimed' = claimed /\ built'[ses[t].slot] = built[ses[t].slot]
      BY <1>12, <3>2, <3>3, <3>4, <3>5
    <3> QED
      BY <3>1, <3>6 DEF SessionOK
  <2> QED
    BY <2>1, <2>2
<1>15. RunsApart'
  BY <1>6, <1>8, <1>9, <1>10, RunsFacts DEF RunsInv, RunsApart
<1>16. EndedRows'
  BY <1>2, <1>4, <1>6 DEF RunsInv, EndedRows
<1>17. BuiltClaimed'
  <2>1. ASSUME NEW j \in Slots PROVE built'[j] <= 1 /\ (j \notin claimed' => built'[j] = 0)
    <3>1. CASE j = k
      BY <1>5, <1>12, <3>1, RunsFacts
    <3>2. CASE j # k
      BY <1>5, <1>12, <3>2 DEF RunsInv, BuiltClaimed
    <3> QED
      BY <3>1, <3>2
  <2> QED
    BY <1>11, <1>12, <2>1 DEF RunsInv, BuiltClaimed
<1>18. ClaimBacked'
  <2> SUFFICES ASSUME NEW j \in Unserved'
               PROVE  j \in Unserved
    BY <1>11, NothingLost
  <2>1. j \in claimed' /\ built'[j] = 0 /\ \A t \in Sessions : ses'[t].pc = "releasing" => ses'[t].slot # j
    BY DEF Unserved
  <2>2. ~(k # NoRun /\ j = k)
    BY <1>8, <1>9, <1>12, <2>1
  <2>3. j \in claimed /\ j \in Slots /\ j # k
    BY <1>5, <2>1, <2>2, RunsFacts DEF RunsInv, RunsTypeOK
  <2>4. built[j] = 0
    BY <1>12, <2>1, <2>3
  <2>5. \A t \in Sessions : ses[t].pc = "releasing" => ses[t].slot # j
    BY <1>1, <1>9, <2>1
  <2> QED
    BY <2>3, <2>4, <2>5 DEF Unserved
<1> QED
  BY <1>13, <1>14, <1>15, <1>16, <1>17, <1>18 DEF RunsInv

\* The claim of a run that ended without success is given back.
LEMMA ReleaseKeeps == ASSUME RunsInv, NEW s \in Sessions, ReleaseSlot(s) PROVE RunsInv'
<1> DEFINE k == ses[s].slot
<1>1. k \in Slots /\ k \in claimed /\ built[k] = 0 /\ s = Scheduler
  BY DEF ReleaseSlot, RunsInv, RunsTypeOK, SessionOK
<1>2. claimed' = claimed \ {k} /\ ses' = [ses EXCEPT ![s] = IdleSession]
  BY DEF ReleaseSlot
<1>3. UNCHANGED <<row, lock, due, built, ended, raised, fails, crashes>>
  BY DEF ReleaseSlot
<1>4. ses'[s] = IdleSession /\ \A t \in Sessions \ {s} : ses'[t] = ses[t]
  BY <1>2 DEF RunsInv, RunsTypeOK
<1>5. \A t \in Sessions \ {s} : ses[t].slot = NoRun
  BY <1>1 DEF RunsInv, SessionOK
<1> HIDE DEF k
<1>6. RunsTypeOK'
  BY <1>2, <1>3, <1>4, RunsFacts DEF RunsInv, RunsTypeOK, Session
<1>7. \A t \in Sessions : SessionOK(t)'
  BY <1>3, <1>4, <1>5, RunsFacts DEF RunsInv, SessionOK
<1>8. RunsApart'
  BY <1>3, <1>4, RunsFacts DEF RunsInv, RunsApart
<1>9. EndedRows' /\ BuiltClaimed'
  BY <1>1, <1>2, <1>3 DEF RunsInv, EndedRows, BuiltClaimed
<1>10. ClaimBacked'
  <2>1. \A j \in claimed' : ses[s].slot # j
    BY <1>2 DEF k
  <2>2. Unserved' \subseteq Unserved
    BY <1>2, <1>3, <1>4, <2>1 DEF Unserved
  <2> QED
    BY <1>3, <2>2, NothingLost
<1> QED
  BY <1>6, <1>7, <1>8, <1>9, <1>10 DEF RunsInv

\* The audit of a failed run: its row is written only if it is not there.
LEMMA RecoverKeeps == ASSUME RunsInv, NEW s \in Sessions, Recover(s) PROVE RunsInv'
<1> DEFINE r == ses[s].run
<1>1. r \in Runs /\ ses[s].pc = "recovering"
  BY RunsFacts DEF Recover, RunsInv, RunsTypeOK, SessionOK
<1>2. ses' = [ses EXCEPT ![s] = IdleSession]
  BY DEF Recover
<1>3. row' = IF row[r] = "absent" THEN [row EXCEPT ![r] = "failed"] ELSE row
  BY DEF Recover
<1>4. UNCHANGED <<claimed, lock, due, built, ended, raised, fails, crashes>>
  BY DEF Recover
<1>5. ses'[s] = IdleSession /\ \A t \in Sessions \ {s} : ses'[t] = ses[t]
  BY <1>2 DEF RunsInv, RunsTypeOK
<1>6. row[r] = "absent" => \A t \in Sessions \ {s} : ses[t].run # r
  BY <1>1, RunsFacts DEF RunsInv, RunsApart
<1>7. \A t \in Sessions : ses[t].run \in Runs \cup {NoRun}
  BY DEF RunsInv, RunsTypeOK
<1> HIDE DEF r
<1>8. \A q \in Runs : row'[q] = row[q] \/ (q = r /\ row[r] = "absent" /\ row'[q] = "failed")
  BY <1>1, <1>3 DEF RunsInv, RunsTypeOK
<1>9. RunsTypeOK'
  BY <1>1, <1>2, <1>3, <1>4, <1>5, RunsFacts DEF RunsInv, RunsTypeOK, Session
<1>10. ASSUME NEW t \in Sessions PROVE SessionOK(t)'
  <2>1. CASE t = s
    BY <1>5, <2>1, RunsFacts DEF SessionOK
  <2>2. CASE t # s
    BY <1>4, <1>5, <1>6, <1>7, <1>8, <2>2, RunsFacts DEF RunsInv, SessionOK
  <2> QED
    BY <2>1, <2>2
<1>11. RunsApart'
  BY <1>5, <1>7, <1>8, RunsFacts DEF RunsInv, RunsApart
<1>12. EndedRows' /\ BuiltClaimed'
  BY <1>4, <1>8 DEF RunsInv, EndedRows, BuiltClaimed
<1>13. ClaimBacked'
  <2>1. Unserved' \subseteq Unserved
    BY <1>1, <1>4, <1>5 DEF Unserved
  <2> QED
    BY <1>4, <2>1, NothingLost
<1> QED
  BY <1>9, <1>10, <1>11, <1>12, <1>13 DEF RunsInv

\* A process dies: its transaction and its lock are gone, a committed claim stays.
LEMMA SessionDiesKeeps == ASSUME RunsInv, NEW s \in Sessions, SessionDies(s) PROVE RunsInv'
<1>1. ses' = [ses EXCEPT ![s] = IdleSession] /\ lock' = (IF lock = s THEN NoRun ELSE lock)
  BY DEF SessionDies
<1>2. UNCHANGED <<row, claimed, due, built, ended, raised, fails>>
  BY DEF SessionDies
<1>3. crashes' = crashes + 1 /\ crashes \in Nat
  BY DEF SessionDies, RunsInv, BuiltClaimed
<1>4. ses'[s] = IdleSession /\ \A t \in Sessions \ {s} : ses'[t] = ses[t]
  BY <1>1 DEF RunsInv, RunsTypeOK
<1>5. RunsTypeOK'
  BY <1>1, <1>2, <1>4, RunsFacts DEF RunsInv, RunsTypeOK, Session
<1>6. (\A t \in Sessions : SessionOK(t)') /\ RunsApart'
  BY <1>2, <1>4, RunsFacts DEF RunsInv, SessionOK, RunsApart
<1>7. EndedRows' /\ BuiltClaimed'
  BY <1>2, <1>3 DEF RunsInv, EndedRows, BuiltClaimed
<1>8. ClaimBacked'
  <2> DEFINE k == ses[s].slot
             U == Unserved \cup {k}
  <2>1. Unserved' \subseteq U
    BY <1>2, <1>4 DEF Unserved
  <2>2. IsFiniteSet(Unserved) /\ Cardinality(Unserved) \in Nat /\ Cardinality(Unserved) <= crashes
    BY UnservedFacts DEF RunsInv, ClaimBacked
  <2>3. IsFiniteSet(U) /\ (Cardinality(U) = Cardinality(Unserved) \/ Cardinality(U) = Cardinality(Unserved) + 1)
    BY <2>2, FS_AddElement
  <2> HIDE DEF U
  <2>4. Cardinality(Unserved') <= Cardinality(U) /\ IsFiniteSet(Unserved')
    BY <2>1, <2>3, FS_Subset
  <2>5. Cardinality(Unserved') \in Nat
    BY <2>4, FS_CardinalityType
  <2>6. Cardinality(Unserved') <= crashes'
    BY <1>3, <2>2, <2>3, <2>4, <2>5
  <2> QED
    BY <2>6 DEF ClaimBacked
<1> QED
  BY <1>5, <1>6, <1>7, <1>8 DEF RunsInv

\* Steps that start a run or give it up before anything is committed.
LEMMA StartKeeps ==
  ASSUME RunsInv,
         TickImpl \/ WorkerStart \/ \E s \in Sessions : Begin(s) \/ Raise(s)
  PROVE  RunsInv'
<1>1. /\ ses \in [Sessions -> Session] /\ lock \in Sessions \cup {NoRun}
      /\ due \in Slots \cup {NoRun} /\ \A s \in Sessions : SessionOK(s) /\ ses[s] \in Session
  BY DEF RunsInv, RunsTypeOK, Session
<1>2. CASE TickImpl
  <2>1. PICK want, slot :
          /\ want \in Runs \cup {NoRun}
          /\ slot = NoRun \/ (slot = due /\ slot \in Slots /\ slot \notin claimed)
          /\ ses' = [ses EXCEPT ![Scheduler] =
                       [IdleSession EXCEPT !.pc = "starting", !.want = want, !.slot = slot]]
    <3> DEFINE want == IF QueuedRuns = {} THEN NoRun ELSE CHOOSE r \in QueuedRuns : TRUE
               slot == IF due # NoRun /\ due \notin claimed THEN due ELSE NoRun
    <3>1. want \in Runs \cup {NoRun}
      BY DEF QueuedRuns
    <3>2. slot = NoRun \/ (slot = due /\ slot \in Slots /\ slot \notin claimed)
      BY <1>1
    <3>3. ses' = [ses EXCEPT ![Scheduler] =
                    [IdleSession EXCEPT !.pc = "starting", !.want = want, !.slot = slot]]
      BY <1>2 DEF TickImpl
    <3> QED
      BY <3>1, <3>2, <3>3
  <2> DEFINE x == [IdleSession EXCEPT !.pc = "starting", !.want = want, !.slot = slot]
  <2>2. x \in Session /\ x.pc = "starting" /\ x.run = NoRun /\ x.slot = slot
    BY <2>1, RunsFacts DEF Session, IdleSession
  <2>3. ses' = [ses EXCEPT ![Scheduler] = x]
    BY <2>1
  <2>4. UNCHANGED <<row, claimed, lock, due, built, ended, crashes>> /\ ses[Scheduler].pc = "idle"
    BY <1>2, RunsFacts DEF TickImpl
  <2> HIDE DEF x
  <2> QED
    BY <1>1, <2>1, <2>2, <2>3, <2>4, RunsFacts, SessionKeeps
<1>3. CASE WorkerStart
  <2> DEFINE x == [IdleSession EXCEPT !.pc = "starting"]
  <2>1. x \in Session /\ x.pc = "starting" /\ x.run = NoRun /\ x.slot = NoRun
    BY RunsFacts DEF Session, IdleSession
  <2>2. ses' = [ses EXCEPT ![Worker] = x] /\ ses[Worker].pc = "idle"
    BY <1>3, RunsFacts DEF WorkerStart
  <2>3. UNCHANGED <<row, claimed, lock, due, built, ended, crashes>>
    BY <1>3 DEF WorkerStart
  <2> HIDE DEF x
  <2> QED
    BY <1>1, <2>1, <2>2, <2>3, RunsFacts, SessionKeeps
<1>4. ASSUME NEW s \in Sessions, Begin(s) PROVE RunsInv'
  <2>1. UNCHANGED <<row, claimed, due, built, ended, crashes>> /\ ses[s].pc = "starting"
    BY <1>4 DEF Begin
  <2>2. CASE ses' = [ses EXCEPT ![s] = IdleSession] /\ lock' = lock
    BY <1>1, <2>1, <2>2, RunsFacts, SessionKeeps
  <2>3. ASSUME NEW r \in QueuedRuns, lock = NoRun, lock' = s,
               ses' = [ses EXCEPT ![s] = [ses[s] EXCEPT !.pc = "running", !.run = r]]
        PROVE  RunsInv'
    <3> DEFINE x == [ses[s] EXCEPT !.pc = "running", !.run = r]
    <3>1. r \in Runs /\ row[r] = "queued" /\ r # NoRun
      BY RunsFacts DEF QueuedRuns
    <3>2. x \in Session /\ x.pc = "running" /\ x.run = r /\ x.slot = ses[s].slot
      BY <1>1, <3>1 DEF Session
    <3>3. x.slot # NoRun => s = Scheduler /\ x.slot \notin claimed
      BY <1>1, <2>1, <3>2 DEF SessionOK
    <3>4. ses' = [ses EXCEPT ![s] = x]
      BY <2>3
    <3>5. \A t \in Sessions \ {s} : lock = t => lock' = t
      BY <2>3, RunsFacts
    <3> HIDE DEF x
    <3> QED
      BY <1>1, <2>1, <2>3, <3>1, <3>2, <3>3, <3>4, <3>5, SessionKeeps
  <2>4. ASSUME HasFreshId, lock = NoRun, lock' = s,
               ses' = [ses EXCEPT ![s] = [ses[s] EXCEPT !.pc = "running", !.run = FreshId, !.fresh = TRUE]]
        PROVE  RunsInv'
    <3> DEFINE r == FreshId
               x == [ses[s] EXCEPT !.pc = "running", !.run = r, !.fresh = TRUE]
    <3>1. r \in Runs /\ row[r] = "absent" /\ r # NoRun /\ \A t \in Sessions : ses[t].run # r
      BY <2>4, RunsFacts, FreshFacts
    <3>2. ses' = [ses EXCEPT ![s] = x]
      BY <2>4
    <3> HIDE DEF r
    <3>3. x \in Session /\ x.pc = "running" /\ x.run = r /\ x.slot = ses[s].slot
      BY <1>1, <3>1 DEF Session
    <3>4. x.slot # NoRun => s = Scheduler /\ x.slot \notin claimed
      BY <1>1, <2>1, <3>3 DEF SessionOK
    <3>5. \A t \in Sessions \ {s} : lock = t => lock' = t
      BY <2>4, RunsFacts
    <3> HIDE DEF x
    <3> QED
      BY <1>1, <2>1, <2>4, <3>1, <3>2, <3>3, <3>4, <3>5, SessionKeeps
  <2> QED
    BY <1>4, <2>2, <2>3, <2>4 DEF Begin, Busy
<1>5. ASSUME NEW s \in Sessions, Raise(s) PROVE RunsInv'
  <2> DEFINE x == [ses[s] EXCEPT !.pc = "recovering", !.slot = NoRun]
  <2>1. x \in Session /\ x.pc = "recovering" /\ x.run = ses[s].run /\ x.slot = NoRun
    BY <1>1, RunsFacts DEF Session
  <2>2. ses' = [ses EXCEPT ![s] = x] /\ ses[s].pc = "running" /\ lock' = NoRun
    BY <1>5 DEF Raise
  <2>3. UNCHANGED <<row, claimed, due, built, ended, crashes>>
    BY <1>5 DEF Raise
  <2>4. lock = s
    BY <2>2 DEF RunsInv, RunsTypeOK
  <2>5. x.run # NoRun => \A t \in Sessions \ {s} : ses[t].run = x.run => row[x.run] # "absent"
    BY <2>1 DEF RunsInv, RunsApart
  <2>6. x.run # NoRun
    BY <1>1, <2>1, <2>2 DEF SessionOK
  <2> HIDE DEF x
  <2> QED
    BY <1>1, <2>1, <2>2, <2>3, <2>4, <2>5, <2>6, SessionKeeps
<1> QED
  BY <1>2, <1>3, <1>4, <1>5

\* Every step keeps the invariant.
LEMMA RunsInvStep == RunsInv /\ [RunsNext]_runVars => RunsInv'
<1> SUFFICES ASSUME RunsInv, [RunsNext]_runVars PROVE RunsInv'
  OBVIOUS
<1>1. CASE EnqueueRefresh
  BY <1>1, EnqueueRefreshKeeps
<1>2. CASE NextSlot \/ UNCHANGED runVars
  <2>1. UNCHANGED <<row, claimed, lock, ses, built, ended, crashes>>
    BY <1>2 DEF NextSlot, runVars
  <2>2. due' \in Slots \cup {NoRun}
    <3>1. NSlots \in Nat \ {0} /\ due \in Slots \cup {NoRun}
      BY RunsAssumed DEF RunsAssumption, RunsInv, RunsTypeOK
    <3>2. CASE UNCHANGED runVars
      BY <3>1, <3>2 DEF runVars
    <3>3. CASE NextSlot
      BY <3>1, <3>3 DEF NextSlot, Slots
    <3> QED
      BY <1>2, <3>2, <3>3
  <2>3. RunsTypeOK'
    BY <2>1, <2>2 DEF RunsInv, RunsTypeOK
  <2> QED
    BY <2>1, <2>3 DEF RunsInv, SessionOK, RunsApart, EndedRows, BuiltClaimed, ClaimBacked, Unserved
<1>3. CASE TickImpl \/ WorkerStart
  BY <1>3, StartKeeps
<1>4. ASSUME NEW s \in Sessions, Progress(s) PROVE RunsInv'
  BY <1>4, StartKeeps, CommitKeeps, ReleaseKeeps, RecoverKeeps DEF Progress
<1>5. ASSUME NEW s \in Sessions, SessionDies(s) PROVE RunsInv'
  BY <1>5, SessionDiesKeeps
<1> QED
  BY <1>1, <1>2, <1>3, <1>4, <1>5 DEF RunsNext

\* The board runs keep their invariant in every reachable state.
THEOREM RunsInvariant == RunsSpec => []RunsInv
<1>1. RunsInv /\ [RunsNext]_runVars => RunsInv'
  BY RunsInvStep
<1> QED
  BY <1>1, RunsInvInit, PTL DEF RunsSpec

\* A slot gets one board and a request one outcome, and a claim is backed, for every number of
\* runs, slots, failures and crashes.
THEOREM SlotsAreServedOnce == RunsSpec => []SlotsServedOnce
<1>1. RunsInv => SlotsServedOnce
  BY DEF RunsInv, SlotsServedOnce, OneBoardPerSlot, RunEndsOnce, EndedRows, BuiltClaimed
<1> QED
  BY <1>1, RunsInvariant, PTL

-----------------------------------------------------------------------------
(* Data jobs.                                                               *)

AtMostOne == \A i, j \in DataIds : data[i].status = "running" /\ data[j].status = "running" => i = j

\* A job that was not claimed yet has no process and made no call.
NotStarted ==
  \A j \in DataIds : data[j].status \in {"absent", "queued"} => child[j] = NoChild /\ calls[j] = 0

\* What a supervisor knows of its job: it is running until its process has ended, no one else
\* supervises it, and the age of the process and the lease together follow the clock.
Unspawned(j) == child[j] = NoChild /\ data[j].status = "running" /\ data[j].until = clock + Lease
Watched(w, j) ==
  /\ child[j].sup = w /\ child[j].age <= Deadline /\ data[j].until + child[j].age = clock + Lease
  /\ child[j].alive => data[j].status = "running"
  /\ data[j].status \in {"running"} \cup Terminal
Supervised == \A w \in Workers : wk[w] # NoJob => Unspawned(wk[w]) \/ Watched(w, wk[w])
SupervisedByOne == \A w, v \in Workers : wk[w] # NoJob /\ wk[w] = wk[v] => w = v
SupervisedAlive ==
  \A j \in DataIds : child[j].alive /\ child[j].sup # NoJob => wk[child[j].sup] = j

\* No process lives longer than the clock, and the model was called once when the ticket's
\* process is past that step.
ProcessesOK ==
  \A j \in DataIds :
    /\ child[j].age <= clock
    /\ calls[j] <= 1 /\ (calls[j] = 1 => child[j].step >= 1)
    /\ calls[j] = 1 /\ child[j].alive => child[j].step >= 2

\* An accepted result is that of a ticket which succeeded under the same revision.
ResultOK ==
  res.status = "completed" =>
    /\ res.lease \in DataIds /\ data[res.lease].kind = "api"
    /\ data[res.lease].status = "succeeded" /\ res.rev = data[res.lease].rev

DataInv ==
  /\ DataTypeOK /\ AtMostOne /\ NotStarted /\ Supervised /\ SupervisedByOne /\ SupervisedAlive
  /\ ProcessesOK /\ ResultOK

\* The constants, the row of a job that does not exist and the process of one that has none.
LEMMA DataFacts ==
  /\ NDataJobs \in Nat /\ Steps \in Nat /\ Steps > 0 /\ Deadline \in Nat /\ MaxRev \in Nat /\ MaxRev > 0
  /\ LastTick \in Nat /\ Lease \in Nat /\ Lease > Deadline /\ MaxKills \in Nat
  /\ NoJob \notin Workers /\ NoJob \notin DataIds
  /\ NoRow \in Row /\ NoRow.status = "absent" /\ NoRow.kind = "steps"
  /\ NoChild \in Process /\ ~NoChild.alive /\ NoChild.sup = NoJob /\ NoChild.step = 0 /\ NoChild.age = 0
<1>1. /\ NDataJobs \in Nat /\ Steps \in Nat /\ Steps > 0 /\ Deadline \in Nat /\ MaxRev \in Nat /\ MaxRev > 0
      /\ LastTick \in Nat /\ Lease \in Nat /\ Lease > Deadline /\ MaxKills \in Nat
      /\ NoJob \notin Workers /\ NoJob \notin DataIds
  BY DataAssumed DEF DataAssumption
<1>2. 0 \in 0..(LastTick + Lease) /\ 0 \in 0..MaxRev /\ 0 \in 0..(Steps + 2) /\ 0 \in 0..LastTick
  BY <1>1
<1>3. NoRow \in Row /\ NoRow.status = "absent" /\ NoRow.kind = "steps"
  BY <1>2 DEF NoRow, Row, Terminal
<1>4. NoChild \in Process /\ ~NoChild.alive /\ NoChild.sup = NoJob /\ NoChild.step = 0 /\ NoChild.age = 0
  BY <1>2 DEF NoChild, Process
<1> QED
  BY <1>1, <1>3, <1>4

\* A queue of numbered jobs has an oldest one.
LEMMA OldestOf ==
  ASSUME NEW Q, Q \subseteq Nat, Q # {}
  PROVE  Min(Q) \in Q
<1> DEFINE L == OpToRel(<, Nat)
<1>1. IsWellFoundedOn(L, Nat)
  BY NatLessThanWellFounded
<1>2. \A i, j \in Nat : i < j => <<i, j>> \in L
  BY DEF OpToRel
<1> HIDE DEF L
<1>3. PICK x \in Q : \A y \in Q : <<y, x>> \notin L
  BY <1>1, WFMin
<1>4. \A y \in Q : x <= y
  <2> TAKE y \in Q
  <2>1. x \in Nat /\ y \in Nat
    OBVIOUS
  <2>2. ~(y < x)
    BY <1>2, <1>3, <2>1
  <2> QED
    BY <2>1, <2>2
<1> QED
  BY <1>4 DEF Min

\* The oldest queued data job.
LEMMA MinQueued == ASSUME NEW Q \in SUBSET DataIds, Q # {} PROVE Min(Q) \in Q
<1>1. Q \subseteq Nat
  BY DEF DataIds
<1> QED
  BY <1>1, OldestOf

\* A supervised job is not swept: its lease outlives the deadline of its process.
LEMMA SupervisedNotSwept ==
  ASSUME DataInv, NEW w \in Workers, wk[w] # NoJob
  PROVE  wk[w] \in DataIds /\ wk[w] \notin ExpiredRows /\ data[wk[w]].status # "queued"
         /\ data[wk[w]].status # "absent"
<1> DEFINE j == wk[w]
<1>1. j \in DataIds /\ (Unspawned(j) \/ Watched(w, j))
  BY DEF DataInv, DataTypeOK, Supervised
<1>2. data[j].until \in Nat /\ child[j].age \in Nat /\ clock \in Nat
  BY <1>1, DataFacts DEF DataInv, DataTypeOK, Row, Process
<1> HIDE DEF j
<1>3. CASE Unspawned(j)
  BY <1>1, <1>2, <1>3, DataFacts DEF Unspawned, ExpiredRows, j
<1>4. CASE Watched(w, j)
  <2>1. data[j].until > clock
    BY <1>2, <1>4, DataFacts DEF Watched
  <2>2. data[j].status # "queued" /\ data[j].status # "absent"
    BY <1>4 DEF Watched, Terminal
  <2> QED
    BY <1>1, <1>2, <2>1, <2>2, DataFacts DEF ExpiredRows, j
<1> QED
  BY <1>1, <1>3, <1>4

\* The initial state satisfies the invariant.
LEMMA DataInvInit == DataInit => DataInv
<1> SUFFICES ASSUME DataInit PROVE DataInv
  OBVIOUS
<1>1. \A j \in DataIds : data[j] = NoRow /\ child[j] = NoChild /\ calls[j] = 0
  BY DEF DataInit
<1>2. \A w \in Workers : wk[w] = NoJob
  BY DEF DataInit
<1>3. DataTypeOK
  BY DataFacts DEF DataInit, DataTypeOK, Ticket
<1>4. AtMostOne /\ NotStarted /\ Supervised /\ SupervisedByOne /\ SupervisedAlive
  BY <1>1, <1>2, DataFacts DEF AtMostOne, NotStarted, Supervised, SupervisedByOne, SupervisedAlive
<1>5. ProcessesOK
  BY <1>1, DataFacts DEF ProcessesOK, DataInit
<1>6. ResultOK
  BY DEF DataInit, ResultOK
<1> QED
  BY <1>3, <1>4, <1>5, <1>6 DEF DataInv

-----------------------------------------------------------------------------
(* Steps of the owner.                                                      *)

\* A new job is queued, with or without reserving the research job.
LEMMA EnqueueKeeps ==
  ASSUME DataInv, NEW j \in DataIds, NextFree(j), NEW x \in Row, x.status = "queued",
         data' = [data EXCEPT ![j] = x], UNCHANGED <<clock, child, wk, rev, calls, kills>>,
         res' \in Ticket, res' = res \/ res'.status = "running"
  PROVE  DataInv'
<1>1. data[j].status = "absent" /\ data[j].kind # "api"
  BY DataFacts DEF NextFree
<1>2. data'[j] = x /\ \A i \in DataIds \ {j} : data'[i] = data[i]
  BY DEF DataInv, DataTypeOK
<1>3. DataTypeOK'
  BY DEF DataInv, DataTypeOK
<1>4. AtMostOne'
  BY <1>2 DEF DataInv, AtMostOne
<1>5. NotStarted'
  BY <1>1, <1>2 DEF DataInv, NotStarted
<1>6. \A w \in Workers : wk[w] # NoJob => wk[w] \in DataIds /\ data'[wk[w]] = data[wk[w]]
  BY <1>1, <1>2, SupervisedNotSwept
<1>7. Supervised'
  BY <1>6 DEF DataInv, Supervised, Unspawned, Watched
<1>8. SupervisedByOne' /\ SupervisedAlive' /\ ProcessesOK'
  BY DEF DataInv, SupervisedByOne, SupervisedAlive, ProcessesOK
<1>9. ResultOK'
  BY <1>1, <1>2 DEF DataInv, ResultOK
<1> QED
  BY <1>3, <1>4, <1>5, <1>7, <1>8, <1>9 DEF DataInv

\* Profile changes and what else happens to the research job.
LEMMA OwnerKeeps ==
  ASSUME DataInv, UNCHANGED <<clock, data, child, wk, calls, kills>>, rev' \in 0..MaxRev,
         res' \in Ticket, res' = res \/ res'.status # "completed"
  PROVE  DataInv'
<1>1. DataTypeOK'
  BY DEF DataInv, DataTypeOK
<1>2. ResultOK'
  BY DEF DataInv, ResultOK
<1> QED
  BY <1>1, <1>2 DEF DataInv, AtMostOne, NotStarted, Supervised, Unspawned, Watched, SupervisedByOne,
     SupervisedAlive, ProcessesOK

-----------------------------------------------------------------------------
(* Steps of a process.                                                      *)

\* A process ends, or goes on with its next step; its row may get an outcome only if it ends and
\* the row is running, or failed for a job that does not look.
LEMMA ProcessKeeps ==
  ASSUME DataInv, NEW j \in DataIds, child[j].alive, NEW c \in Process, NEW x \in Row,
         child' = [child EXCEPT ![j] = c], data' = [data EXCEPT ![j] = x],
         UNCHANGED <<clock, wk, rev>>, kills' \in 0..MaxKills, calls' \in [DataIds -> Nat],
         c.sup = child[j].sup, c.age = child[j].age, c.step >= child[j].step,
         x.until = data[j].until, x.kind = data[j].kind, x.rev = data[j].rev,
         x.status = data[j].status \/ (~c.alive /\ x.status \in Terminal),
         x.status = data[j].status \/ data[j].kind # "api" \/ data[j].status = "running",
         \A i \in DataIds \ {j} : calls'[i] = calls[i],
         calls'[j] <= 1, calls'[j] = 1 => c.step >= 1, calls'[j] = 1 /\ c.alive => c.step >= 2,
         res' \in Ticket,
         res' = res \/ (res'.status # "completed" \/ (res'.lease = j /\ res'.rev = x.rev /\
                        x.kind = "api" /\ x.status = "succeeded"))
  PROVE  DataInv'
<1>1. child'[j] = c /\ \A i \in DataIds \ {j} : child'[i] = child[i]
  BY DEF DataInv, DataTypeOK
<1>2. data'[j] = x /\ \A i \in DataIds \ {j} : data'[i] = data[i]
  BY DEF DataInv, DataTypeOK
<1>3. data[j].status \notin {"absent", "queued"} /\ child[j] # NoChild
  BY DataFacts DEF DataInv, NotStarted
<1>4. DataTypeOK'
  BY DEF DataInv, DataTypeOK
<1>5. AtMostOne'
  BY <1>2 DEF DataInv, AtMostOne, Terminal
<1>6. NotStarted'
  BY <1>1, <1>2, <1>3 DEF DataInv, NotStarted, Terminal
<1>7. ASSUME NEW w \in Workers, wk[w] # NoJob PROVE Unspawned(wk[w])' \/ Watched(w, wk[w])'
  <2>1. wk[w] \in DataIds /\ (Unspawned(wk[w]) \/ Watched(w, wk[w]))
    BY <1>7 DEF DataInv, DataTypeOK, Supervised
  <2>2. CASE wk[w] = j
    <3>1. Watched(w, j)
      BY <1>3, <2>1, <2>2 DEF Unspawned
    <3>2. Watched(w, j)'
      BY <1>1, <1>2, <3>1 DEF Watched, Terminal
    <3> QED
      BY <2>2, <3>2 DEF Watched
  <2>3. CASE wk[w] # j
    BY <1>1, <1>2, <2>1, <2>3 DEF Unspawned, Watched
  <2> QED
    BY <2>2, <2>3
<1>8. Supervised' /\ SupervisedByOne'
  BY <1>7 DEF DataInv, Supervised, SupervisedByOne
<1>9. SupervisedAlive'
  BY <1>1 DEF DataInv, SupervisedAlive
<1>10. ProcessesOK'
  BY <1>1 DEF DataInv, ProcessesOK
<1>11. ResultOK'
  BY <1>2 DEF DataInv, ResultOK, Terminal
<1> QED
  BY <1>4, <1>5, <1>6, <1>8, <1>9, <1>10, <1>11 DEF DataInv

-----------------------------------------------------------------------------
(* Steps of a supervisor.                                                   *)

\* What a claim sweeps is running, and no supervisor watches it.
LEMMA SweepFacts ==
  ASSUME DataInv
  PROVE  /\ SweptRows \in [DataIds -> Row]
         /\ \A i \in DataIds :
              /\ SweptRows[i].kind = data[i].kind /\ SweptRows[i].rev = data[i].rev
              /\ SweptRows[i].until = data[i].until
              /\ SweptRows[i].status = data[i].status
                   \/ (SweptRows[i].status = "failed" /\ data[i].status = "running")
              /\ i \notin ExpiredRows => SweptRows[i] = data[i]
         /\ SweptTicket \in Ticket /\ (SweptTicket = res \/ SweptTicket.status = "failed")
<1>1. data \in [DataIds -> Row] /\ res \in Ticket
  BY DEF DataInv, DataTypeOK
<1>2. \A i \in DataIds : [data[i] EXCEPT !.status = "failed"] \in Row
  BY <1>1 DEF Row, Terminal
<1>3. SweptRows \in [DataIds -> Row]
  BY <1>1, <1>2 DEF SweptRows
<1>4. \A i \in ExpiredRows : data[i].status = "running"
  BY DEF ExpiredRows
<1>5. \A i \in DataIds :
        /\ SweptRows[i].kind = data[i].kind /\ SweptRows[i].rev = data[i].rev
        /\ SweptRows[i].until = data[i].until
        /\ SweptRows[i].status = data[i].status
             \/ (SweptRows[i].status = "failed" /\ data[i].status = "running")
        /\ i \notin ExpiredRows => SweptRows[i] = data[i]
  BY <1>1, <1>4 DEF SweptRows, Row
<1>6. SweptTicket \in Ticket /\ (SweptTicket = res \/ SweptTicket.status = "failed")
  BY <1>1 DEF SweptTicket, Ticket
<1> QED
  BY <1>3, <1>5, <1>6

\* The rows change as a sweep changes them, and at most one job is claimed with the oldest
\* queued one.
LEMMA SweepKeeps ==
  ASSUME DataInv, UNCHANGED <<clock, child, rev, calls, kills, wk>>, res' = SweptTicket,
         data' = SweptRows
  PROVE  DataInv'
<1>1. \A w \in Workers : wk[w] # NoJob => wk[w] \in DataIds /\ data'[wk[w]] = data[wk[w]]
  BY SupervisedNotSwept, SweepFacts
<1>2. DataTypeOK'
  BY SweepFacts DEF DataInv, DataTypeOK
<1>3. AtMostOne' /\ NotStarted'
  BY SweepFacts DEF DataInv, AtMostOne, NotStarted
<1>4. Supervised'
  BY <1>1 DEF DataInv, Supervised, Unspawned, Watched
<1>5. SupervisedByOne' /\ SupervisedAlive' /\ ProcessesOK'
  BY DEF DataInv, SupervisedByOne, SupervisedAlive, ProcessesOK
<1>6. ResultOK'
  BY SweepFacts DEF DataInv, ResultOK
<1> QED
  BY <1>2, <1>3, <1>4, <1>5, <1>6 DEF DataInv

\* A claim.
LEMMA ClaimKeeps ==
  ASSUME DataInv, NEW w \in Workers, ClaimNext(w)
  PROVE  DataInv'
<1> DEFINE queued == {j \in DataIds : SweptRows[j].status = "queued"}
           q == Min(queued)
           x == [SweptRows[q] EXCEPT !.status = "running", !.until = clock + Lease]
<1>1. UNCHANGED <<clock, child, rev, calls, kills>> /\ res' = SweptTicket /\ wk[w] = NoJob
  BY DEF ClaimNext
<1>2. CASE data' = SweptRows /\ UNCHANGED wk
  BY <1>1, <1>2, SweepKeeps
<1>3. CASE /\ \A j \in DataIds : SweptRows[j].status # "running"
           /\ queued # {} /\ wk' = [wk EXCEPT ![w] = q]
           /\ data' = [SweptRows EXCEPT ![q].status = "running", ![q].until = clock + Lease]
  <2>1. q \in queued
    BY <1>3, MinQueued
  <2>2. q \in DataIds /\ SweptRows[q].status = "queued"
    BY <2>1
  <2> HIDE DEF q, queued
  <2>3. data[q].status = "queued" /\ SweptRows[q] \in Row
    BY <2>2, SweepFacts
  <2>4. clock + Lease \in 0..(LastTick + Lease)
    BY DataFacts DEF DataInv, DataTypeOK
  <2>5. x \in Row /\ x.status = "running" /\ x.until = clock + Lease
    BY <2>3, <2>4 DEF Row, Terminal
  <2>6. data' = [SweptRows EXCEPT ![q] = x]
    BY <1>3, <2>2, <2>3, SweepFacts
  <2> HIDE DEF x
  <2>7. data'[q] = x /\ \A i \in DataIds \ {q} : data'[i] = SweptRows[i]
    BY <2>2, <2>6, SweepFacts
  <2>8. \A v \in Workers : wk[v] # NoJob =>
          wk[v] \in DataIds /\ wk[v] # q /\ data'[wk[v]] = data[wk[v]] /\ wk'[v] = wk[v]
    BY <1>1, <1>3, <2>3, <2>7, SupervisedNotSwept, SweepFacts DEF DataInv, DataTypeOK
  <2>9. wk'[w] = q /\ \A v \in Workers \ {w} : wk'[v] = wk[v]
    BY <1>3 DEF DataInv, DataTypeOK
  <2>10. child[q] = NoChild /\ ~child[q].alive /\ calls[q] = 0
    BY <2>2, <2>3, DataFacts DEF DataInv, NotStarted
  <2>11. DataTypeOK'
    BY <1>1, <1>3, <2>2, <2>5, <2>6, SweepFacts DEF DataInv, DataTypeOK
  <2>12. AtMostOne'
    BY <1>3, <2>7 DEF AtMostOne
  <2>13. NotStarted'
    BY <1>1, <2>5, <2>7, SweepFacts DEF DataInv, NotStarted
  <2>14. Supervised'
    <3>1. ASSUME NEW v \in Workers, wk'[v] # NoJob
          PROVE  Unspawned(wk[v])' \/ Watched(v, wk[v])'
      <4>1. CASE v = w
        BY <1>1, <2>5, <2>7, <2>9, <2>10, <4>1 DEF Unspawned
      <4>2. CASE v # w
        <5>1. wk'[v] = wk[v] /\ wk[v] # NoJob
          BY <2>9, <3>1, <4>2
        <5>2. (Unspawned(wk[v]) \/ Watched(v, wk[v])) /\ data'[wk[v]] = data[wk[v]]
          BY <2>8, <5>1 DEF DataInv, Supervised
        <5> QED
          BY <1>1, <5>1, <5>2 DEF Unspawned, Watched
      <4> QED
        BY <4>1, <4>2
    <3> QED
      BY <3>1 DEF Supervised
  <2>15. SupervisedByOne'
    BY <2>8, <2>9 DEF DataInv, SupervisedByOne
  <2>16. SupervisedAlive'
    BY <1>1, <2>8, <2>9, <2>10, DataFacts DEF DataInv, DataTypeOK, Process, SupervisedAlive
  <2>17. ProcessesOK'
    BY <1>1 DEF DataInv, ProcessesOK
  <2>18. ResultOK'
    BY <1>1, <2>3, <2>7, SweepFacts DEF DataInv, ResultOK
  <2> QED
    BY <2>11, <2>12, <2>13, <2>14, <2>15, <2>16, <2>17, <2>18 DEF DataInv
<1> QED
  BY <1>2, <1>3 DEF ClaimNext

\* A job its supervisor watches was started, and the supervisor is its process's.
LEMMA WatchedFacts ==
  ASSUME DataInv, NEW w \in Workers, wk[w] # NoJob, child[wk[w]] # NoChild
  PROVE  /\ wk[w] \in DataIds /\ Watched(w, wk[w])
         /\ data[wk[w]].status \notin {"absent", "queued"}
<1>1. wk[w] \in DataIds /\ Watched(w, wk[w])
  BY DEF DataInv, DataTypeOK, Supervised, Unspawned
<1> QED
  BY <1>1 DEF Watched, Terminal

\* A supervisor starts the process.
LEMMA SpawnKeeps ==
  ASSUME DataInv, NEW w \in Workers, Spawn(w)
  PROVE  DataInv'
<1>0. PICK j \in DataIds : j = wk[w]
  BY DEF Spawn, DataInv, DataTypeOK
<1> DEFINE c == [NoChild EXCEPT !.alive = TRUE, !.sup = w]
<1>1. j = wk[w] /\ j # NoJob /\ child[j] = NoChild /\ Unspawned(j)
  BY <1>0, DataFacts DEF Spawn, DataInv, DataTypeOK, Supervised, Watched
<1>2. c \in Process /\ c.alive /\ c.sup = w /\ c.age = 0
  BY DataFacts DEF NoChild, Process
<1>3. UNCHANGED <<clock, data, wk, res, rev, calls, kills>> /\ child' = [child EXCEPT ![j] = c]
  BY <1>1 DEF Spawn
<1> HIDE DEF c
<1>4. child'[j] = c /\ \A i \in DataIds \ {j} : child'[i] = child[i]
  BY <1>1, <1>3 DEF DataInv, DataTypeOK
<1>5. DataTypeOK'
  BY <1>2, <1>3 DEF DataInv, DataTypeOK
<1>6. \A v \in Workers : wk[v] = j => v = w
  BY <1>1 DEF DataInv, SupervisedByOne
<1>7. Watched(w, j)'
  <2>1. data[j].status = "running" /\ data[j].until = clock + Lease
    BY <1>1 DEF Unspawned
  <2>2. clock + Lease \in Nat /\ clock + Lease + 0 = clock + Lease /\ 0 <= Deadline
    BY DataFacts DEF DataInv, DataTypeOK
  <2>3. data'[j] = data[j] /\ clock' = clock /\ child'[j] = c
    BY <1>3, <1>4
  <2> QED
    BY <1>2, <2>1, <2>2, <2>3 DEF Watched, Terminal
<1>8. Supervised'
  <2>1. ASSUME NEW v \in Workers, wk[v] # NoJob, v # w
        PROVE  Unspawned(wk[v])' \/ Watched(v, wk[v])'
    <3>1. wk[v] \in DataIds /\ wk[v] # j /\ (Unspawned(wk[v]) \/ Watched(v, wk[v]))
      BY <1>6, <2>1 DEF DataInv, DataTypeOK, Supervised
    <3> QED
      BY <1>3, <1>4, <3>1 DEF Unspawned, Watched
  <2> QED
    BY <1>1, <1>3, <1>7, <2>1 DEF Supervised, Watched
<1>9. AtMostOne' /\ SupervisedByOne' /\ ResultOK'
  BY <1>3 DEF DataInv, AtMostOne, SupervisedByOne, ResultOK
<1>10. NotStarted'
  BY <1>1, <1>3, <1>4 DEF DataInv, NotStarted, Unspawned
<1>11. SupervisedAlive'
  BY <1>1, <1>2, <1>3, <1>4 DEF DataInv, SupervisedAlive
<1>12. ProcessesOK'
  BY <1>1, <1>2, <1>3, <1>4, DataFacts DEF DataInv, DataTypeOK, ProcessesOK
<1> QED
  BY <1>5, <1>8, <1>9, <1>10, <1>11, <1>12 DEF DataInv

\* The process ends and the supervisor lets the job go.
LEMMA ReapKeeps ==
  ASSUME DataInv, NEW w \in Workers, Reap(w)
  PROVE  DataInv'
<1>0. PICK j \in DataIds : j = wk[w]
  BY DEF Reap, DataInv, DataTypeOK
<1> DEFINE c == [child[j] EXCEPT !.alive = FALSE]
           x == [data[j] EXCEPT !.status = "failed"]
<1>1. j = wk[w] /\ j # NoJob /\ child[j].sup = w
  BY <1>0 DEF Reap
<1>2. Watched(w, j) /\ data[j].status \notin {"absent", "queued"} /\ child[j] # NoChild
  BY <1>1, WatchedFacts, DataFacts
<1>3. data[j] \in Row /\ child[j] \in Process
  BY <1>1 DEF DataInv, DataTypeOK
<1>4. c \in Process /\ ~c.alive /\ c.sup = w /\ c.age = child[j].age /\ c.step = child[j].step
  BY <1>1, <1>3 DEF Process
<1>5. x \in Row /\ x.status = "failed" /\ x.kind = data[j].kind /\ x.rev = data[j].rev
  BY <1>3 DEF Row, Terminal
<1>6. /\ UNCHANGED <<clock, res, rev, calls, kills>> /\ child' = [child EXCEPT ![j] = c]
      /\ wk' = [wk EXCEPT ![w] = NoJob]
      /\ (data' = data /\ data[j].status # "running")
           \/ (data' = [data EXCEPT ![j] = x] /\ data[j].status = "running")
  BY <1>1 DEF Reap
<1> HIDE DEF c, x
<1>7. child'[j] = c /\ \A i \in DataIds \ {j} : child'[i] = child[i] /\ data'[i] = data[i]
  BY <1>1, <1>6 DEF DataInv, DataTypeOK
<1>8. data'[j] = data[j] \/ (data'[j] = x /\ data[j].status = "running")
  BY <1>1, <1>6 DEF DataInv, DataTypeOK
<1>9. wk'[w] = NoJob /\ \A v \in Workers \ {w} : wk'[v] = wk[v]
  BY <1>6 DEF DataInv, DataTypeOK
<1>10. DataTypeOK'
  BY <1>4, <1>5, <1>6 DEF DataInv, DataTypeOK
<1>11. AtMostOne' /\ NotStarted' /\ ResultOK'
  <2>1. AtMostOne'
    BY <1>5, <1>6, <1>7, <1>8 DEF DataInv, AtMostOne
  <2>2. NotStarted'
    BY <1>2, <1>5, <1>6, <1>7, <1>8 DEF DataInv, NotStarted
  <2>3. ResultOK'
    BY <1>6, <1>7, <1>8 DEF DataInv, ResultOK
  <2> QED
    BY <2>1, <2>2, <2>3
<1>12. Supervised'
  <2>1. ASSUME NEW v \in Workers, wk'[v] # NoJob
        PROVE  Unspawned(wk[v])' \/ Watched(v, wk[v])'
    <3>1. v # w /\ wk'[v] = wk[v] /\ wk[v] # NoJob
      BY <1>9, <2>1
    <3>2. wk[v] \in DataIds /\ wk[v] # j /\ (Unspawned(wk[v]) \/ Watched(v, wk[v]))
      BY <1>1, <3>1 DEF DataInv, DataTypeOK, Supervised, SupervisedByOne
    <3> QED
      BY <1>6, <1>7, <3>1, <3>2 DEF Unspawned, Watched
  <2> QED
    BY <2>1 DEF Supervised
<1>13. SupervisedByOne'
  BY <1>9 DEF DataInv, SupervisedByOne
<1>14. SupervisedAlive'
  <2>1. \A i \in DataIds : child[i].sup \in Workers \cup {NoJob}
    BY DEF DataInv, DataTypeOK, Process
  <2> QED
    BY <1>1, <1>4, <1>7, <1>9, <2>1 DEF DataInv, SupervisedAlive
<1>15. ProcessesOK'
  BY <1>1, <1>4, <1>6, <1>7 DEF DataInv, ProcessesOK
<1> QED
  BY <1>10, <1>11, <1>12, <1>13, <1>14, <1>15 DEF DataInv

\* A supervisor that dies leaves its process alone.
LEMMA KillSupervisorKeeps ==
  ASSUME DataInv, NEW w \in Workers, KillSupervisor(w)
  PROVE  DataInv'
<1>1. UNCHANGED <<clock, data, res, rev, calls>> /\ kills' \in 0..MaxKills
  BY DataFacts DEF KillSupervisor, DataInv, DataTypeOK
<1>2. wk'[w] = NoJob /\ \A v \in Workers \ {w} : wk'[v] = wk[v]
  BY DEF KillSupervisor, DataInv, DataTypeOK
<1>3. \A j \in DataIds :
        /\ child[j].sup # w => child'[j] = child[j]
        /\ child[j].sup = w => child'[j] = [child[j] EXCEPT !.sup = NoJob]
  BY DEF KillSupervisor
<1>4. \A j \in DataIds : child[j] \in Process
  BY DEF DataInv, DataTypeOK
<1>5. \A j \in DataIds : [child[j] EXCEPT !.sup = NoJob] \in Process
  BY <1>4 DEF Process
<1>6. \A j \in DataIds :
        /\ child'[j].alive = child[j].alive /\ child'[j].age = child[j].age
        /\ child'[j].step = child[j].step
        /\ child'[j].sup = child[j].sup \/ child'[j].sup = NoJob
        /\ child'[j].sup # w
  <2> TAKE j \in DataIds
  <2>1. CASE child[j].sup # w
    BY <1>3, <2>1
  <2>2. CASE child[j].sup = w
    <3>1. child'[j] = [child[j] EXCEPT !.sup = NoJob] /\ child[j] \in Process /\ w # NoJob
      BY <1>3, <1>4, <2>2, DataFacts
    <3> QED
      BY <3>1 DEF Process
  <2> QED
    BY <2>1, <2>2
<1>7. DataTypeOK'
  <2>1. child' \in [DataIds -> Process]
    BY <1>4, <1>5 DEF KillSupervisor
  <2>2. wk' \in [Workers -> DataIds \cup {NoJob}]
    BY DEF KillSupervisor, DataInv, DataTypeOK
  <2> QED
    BY <1>1, <2>1, <2>2 DEF DataInv, DataTypeOK
<1>8. AtMostOne' /\ ResultOK'
  BY <1>1 DEF DataInv, AtMostOne, ResultOK
<1>9. NotStarted'
  BY <1>1, <1>3, DataFacts DEF DataInv, NotStarted
<1>10. Supervised'
  <2>1. ASSUME NEW v \in Workers, wk'[v] # NoJob
        PROVE  Unspawned(wk[v])' \/ Watched(v, wk[v])'
    <3>1. v # w /\ wk'[v] = wk[v] /\ wk[v] # NoJob
      BY <1>2, <2>1
    <3>2. wk[v] \in DataIds /\ (Unspawned(wk[v]) \/ Watched(v, wk[v]))
      BY <3>1 DEF DataInv, DataTypeOK, Supervised
    <3>3. child'[wk[v]] = child[wk[v]]
      BY <1>3, <3>1, <3>2, DataFacts DEF Unspawned, Watched
    <3> QED
      BY <1>1, <3>1, <3>2, <3>3 DEF Unspawned, Watched
  <2> QED
    BY <2>1 DEF Supervised
<1>11. SupervisedByOne'
  BY <1>2 DEF DataInv, SupervisedByOne
<1>12. SupervisedAlive'
  BY <1>2, <1>4, <1>6 DEF DataInv, SupervisedAlive, Process
<1>13. ProcessesOK'
  BY <1>1, <1>6 DEF DataInv, ProcessesOK
<1> QED
  BY <1>7, <1>8, <1>9, <1>10, <1>11, <1>12, <1>13 DEF DataInv

\* Time passes while every supervised process is alive and before its deadline.
LEMMA ClockTickKeeps ==
  ASSUME DataInv, ClockTick
  PROVE  DataInv'
<1>1. UNCHANGED <<data, wk, res, rev, calls, kills>> /\ clock' = clock + 1
  BY DEF ClockTick
<1>2. clock \in Nat /\ clock + 1 \in 0..LastTick /\ Lease \in Nat /\ LastTick \in Nat
  BY DataFacts DEF ClockTick, DataInv, DataTypeOK
<1>3. \A j \in DataIds : child[j] \in Process /\ child[j].age \in Nat /\ child[j].age <= clock
  BY DEF DataInv, DataTypeOK, ProcessesOK, Process
<1>4. \A j \in DataIds :
        /\ ~child[j].alive => child'[j] = child[j]
        /\ child[j].alive => child'[j] = [child[j] EXCEPT !.age = child[j].age + 1]
  BY DEF ClockTick
<1>5. \A j \in DataIds : child[j].age + 1 \in 0..LastTick
  BY <1>2, <1>3
<1>6. \A j \in DataIds : [child[j] EXCEPT !.age = child[j].age + 1] \in Process
  BY <1>3, <1>5 DEF Process
<1>7. \A j \in DataIds :
        /\ child'[j].alive = child[j].alive /\ child'[j].sup = child[j].sup
        /\ child'[j].step = child[j].step
        /\ child'[j].age = child[j].age \/ child'[j].age = child[j].age + 1
        /\ child[j].alive => child'[j].age = child[j].age + 1
  BY <1>3, <1>4 DEF Process
<1>8. DataTypeOK'
  <2>1. child' \in [DataIds -> Process]
    BY <1>3, <1>6 DEF ClockTick
  <2> QED
    BY <1>1, <1>2, <2>1 DEF DataInv, DataTypeOK
<1>9. AtMostOne' /\ SupervisedByOne' /\ ResultOK'
  BY <1>1 DEF DataInv, AtMostOne, SupervisedByOne, ResultOK
<1>10. NotStarted'
  BY <1>1, <1>4, DataFacts DEF DataInv, NotStarted
<1>11. Supervised'
  <2>1. ASSUME NEW w \in Workers, wk[w] # NoJob
        PROVE  Watched(w, wk[w])'
    <3>0. PICK j \in DataIds : j = wk[w]
      BY <2>1 DEF DataInv, DataTypeOK
    <3>1. j = wk[w] /\ child[j].alive /\ child[j].age < Deadline /\ Watched(w, j)
      BY <2>1, <3>0, WatchedFacts, DataFacts DEF ClockTick
    <3>2. wk'[w] = j /\ data' = data /\ child'[j].age = child[j].age + 1
      BY <1>1, <1>7, <3>1
    <3>3. data[j].until \in Nat /\ child[j].age \in Nat /\ Deadline \in Nat
      BY <1>3, <3>1, DataFacts DEF DataInv, DataTypeOK, Row
    <3>4. data[j].until + child[j].age = clock + Lease
      BY <3>1 DEF Watched
    <3>5. data[j].until + (child[j].age + 1) = (clock + 1) + Lease /\ child[j].age + 1 <= Deadline
      BY <1>2, <3>1, <3>3, <3>4
    <3>6. Watched(w, j)'
      BY <1>1, <1>7, <3>1, <3>2, <3>5 DEF Watched
    <3> QED
      BY <1>1, <3>1, <3>6 DEF Watched
  <2> QED
    BY <1>1, <2>1 DEF Supervised
<1>12. SupervisedAlive'
  BY <1>1, <1>7 DEF DataInv, SupervisedAlive
<1>13. ProcessesOK'
  <2>1. \A j \in DataIds : child'[j].age <= clock'
    BY <1>1, <1>2, <1>3, <1>7
  <2> QED
    BY <1>1, <1>7, <2>1 DEF DataInv, ProcessesOK
<1> QED
  BY <1>8, <1>9, <1>10, <1>11, <1>12, <1>13 DEF DataInv

-----------------------------------------------------------------------------
(* Every step of the data queue.                                            *)

\* The steps of the processes.
LEMMA ChildKeeps ==
  ASSUME DataInv, NEW j \in DataIds, Child(j) \/ KillChild(j)
  PROVE  DataInv'
<1>1. /\ child[j] \in Process /\ data[j] \in Row /\ res \in Ticket /\ rev \in 0..MaxRev
      /\ calls \in [DataIds -> Nat] /\ kills \in 0..MaxKills
      /\ child \in [DataIds -> Process] /\ data \in [DataIds -> Row]
  BY DEF DataInv, DataTypeOK
<1>2. child[j].alive
  BY DEF Child, Step, Finish, CheckTicket, CallModel, CommitTicket, KillChild
<1> DEFINE dead == [child[j] EXCEPT !.alive = FALSE]
           next == [child[j] EXCEPT !.step = child[j].step + 1]
<1>3. /\ dead \in Process /\ ~dead.alive /\ dead.sup = child[j].sup /\ dead.age = child[j].age
      /\ dead.step = child[j].step
  BY <1>1 DEF Process
<1>4. child[j].step \in Nat /\ Steps \in Nat /\ Steps > 0
  BY <1>1, DataFacts DEF Process
<1>5. ASSUME child[j].step < Steps + 2
      PROVE  /\ next \in Process /\ next.alive = child[j].alive /\ next.sup = child[j].sup
             /\ next.age = child[j].age /\ next.step = child[j].step + 1
  <2>1. child[j].step + 1 \in 0..(Steps + 2)
    BY <1>4, <1>5
  <2> QED
    BY <1>1, <2>1 DEF Process
<1>6. /\ Exit(j) <=> child' = [child EXCEPT ![j] = dead]
      /\ Proceed(j) <=> child' = [child EXCEPT ![j] = next]
  BY <1>1 DEF Exit, Proceed
<1>7. data = [data EXCEPT ![j] = data[j]]
  BY <1>1
<1>8. calls[j] <= 1 /\ (calls[j] = 1 => child[j].step >= 1) /\ (calls[j] = 1 => child[j].step >= 2)
  BY <1>2 DEF DataInv, ProcessesOK
<1> HIDE DEF dead, next
\* The process ends without an outcome.
<1>9. ASSUME Exit(j), UNCHANGED <<clock, wk, rev, data, res, calls>>, kills' \in 0..MaxKills
      PROVE  DataInv'
  <2>1. child' = [child EXCEPT ![j] = dead] /\ data' = [data EXCEPT ![j] = data[j]]
    BY <1>6, <1>7, <1>9
  <2>2. dead.step >= child[j].step
    BY <1>3, <1>4
  <2> QED
    BY <1>1, <1>2, <1>3, <1>8, <1>9, <2>1, <2>2, ProcessKeeps
\* The process goes on.
<1>10. ASSUME Proceed(j), child[j].step < Steps + 2,
              UNCHANGED <<clock, wk, rev, data, res, calls, kills>>
       PROVE  DataInv'
  <2>1. child' = [child EXCEPT ![j] = next] /\ data' = [data EXCEPT ![j] = data[j]]
    BY <1>6, <1>7, <1>10
  <2>2. next.step >= child[j].step /\ (calls[j] = 1 => next.step >= 1 /\ next.step >= 2)
    BY <1>4, <1>5, <1>8, <1>10
  <2> QED
    BY <1>1, <1>2, <1>5, <1>8, <1>10, <2>1, <2>2, ProcessKeeps
\* The ticket fails.
<1>11. ASSUME FailTicket(j), UNCHANGED <<clock, wk, rev, kills>>, calls' \in [DataIds -> Nat],
              \A i \in DataIds \ {j} : calls'[i] = calls[i], calls'[j] <= 1,
              calls'[j] = 1 => child[j].step >= 1
       PROVE  DataInv'
  <2>1. child' = [child EXCEPT ![j] = dead]
    BY <1>6, <1>11 DEF FailTicket
  <2>2. PICK x \in Row :
          /\ data' = [data EXCEPT ![j] = x] /\ x.kind = data[j].kind /\ x.rev = data[j].rev
          /\ x.until = data[j].until
          /\ x.status = data[j].status \/ (x.status = "failed" /\ data[j].status = "running")
    <3> DEFINE y == [data[j] EXCEPT !.status = "failed"]
    <3>1. /\ y \in Row /\ y.kind = data[j].kind /\ y.rev = data[j].rev /\ y.until = data[j].until
          /\ y.status = "failed"
      BY <1>1 DEF Row, Terminal
    <3>2. data' = [data EXCEPT ![j] = y] \/ data' = [data EXCEPT ![j] = data[j]]
      BY <1>7, <1>11 DEF FailTicket
    <3>3. data[j].status = "running" \/ data' = [data EXCEPT ![j] = data[j]]
      BY <1>7, <1>11 DEF FailTicket
    <3> HIDE DEF y
    <3> QED
      BY <1>1, <3>1, <3>2, <3>3
  <2>3. res' \in Ticket /\ (res' = res \/ res'.status = "failed")
    BY <1>1, <1>11 DEF FailTicket, Ticket
  <2>4. dead.step >= child[j].step
    BY <1>3, <1>4
  <2>5. x.status = data[j].status \/ (~dead.alive /\ x.status \in Terminal)
    BY <1>3, <2>2 DEF Terminal
  <2> QED
    BY <1>1, <1>2, <1>3, <1>11, <2>1, <2>2, <2>3, <2>4, <2>5, ProcessKeeps
<1>12. CASE KillChild(j)
  <2>1. kills' \in 0..MaxKills
    BY <1>1, <1>12, DataFacts DEF KillChild
  <2> QED
    BY <1>9, <1>12, <2>1 DEF KillChild, Exit
<1>13. CASE Step(j)
  <2>1. child[j].step < Steps + 2
    BY <1>4, <1>13 DEF Step
  <2> QED
    BY <1>1, <1>9, <1>10, <1>13, <2>1 DEF Step
<1>14. CASE Finish(j)
  <2>1. PICK s \in Terminal :
          data' = IF data[j].status = "running" \/ data[j].kind = "direct"
                  THEN [data EXCEPT ![j].status = s] ELSE data
    BY <1>14 DEF Finish
  <2> DEFINE x == [data[j] EXCEPT !.status = s]
  <2>2. /\ x \in Row /\ x.kind = data[j].kind /\ x.rev = data[j].rev /\ x.until = data[j].until
        /\ x.status = s
    BY <1>1 DEF Row
  <2>3. data' = [data EXCEPT ![j] = x] \/ data' = data
    BY <2>1
  <2>4. data[j].kind # "api" /\ Exit(j) /\ UNCHANGED <<clock, wk, res, rev, calls, kills>>
    BY <1>14 DEF Finish
  <2>5. dead.step >= child[j].step
    BY <1>3, <1>4
  <2> HIDE DEF x
  <2>6. CASE data' = data
    BY <1>1, <1>9, <2>4, <2>6
  <2>7. CASE data' = [data EXCEPT ![j] = x]
    BY <1>1, <1>2, <1>3, <1>6, <1>8, <2>2, <2>4, <2>5, <2>7, ProcessKeeps
  <2> QED
    BY <2>3, <2>6, <2>7
<1>15. CASE CheckTicket(j)
  <2>1. child[j].step < Steps + 2 /\ UNCHANGED <<clock, wk, rev, calls, kills>>
    BY <1>4, <1>15 DEF CheckTicket
  <2> QED
    BY <1>1, <1>8, <1>9, <1>10, <1>11, <1>15, <2>1 DEF CheckTicket
<1>16. CASE CallModel(j)
  <2>1. child[j].step = 1 /\ UNCHANGED <<clock, wk, rev, kills>>
    BY <1>16 DEF CallModel
  <2>2. calls[j] = 0
    BY <1>1, <1>8, <2>1
  <2>3. /\ calls' \in [DataIds -> Nat] /\ calls'[j] = 1
        /\ \A i \in DataIds \ {j} : calls'[i] = calls[i]
    BY <1>1, <1>16, <2>2 DEF CallModel
  <2>4. CASE Proceed(j) /\ UNCHANGED <<data, res>>
    <3>1. child[j].step < Steps + 2
      BY <1>4, <2>1
    <3>2. child' = [child EXCEPT ![j] = next] /\ data' = [data EXCEPT ![j] = data[j]]
      BY <1>6, <1>7, <2>4
    <3>3. next.step >= child[j].step /\ next.step >= 1 /\ next.step >= 2
      BY <1>5, <2>1, <3>1
    <3>4. next \in Process /\ next.sup = child[j].sup /\ next.age = child[j].age
      BY <1>5, <3>1
    <3>5. kills' \in 0..MaxKills /\ UNCHANGED <<clock, wk, rev>> /\ res' = res /\ res' \in Ticket
      BY <1>1, <2>1, <2>4
    <3>6. calls'[j] <= 1 /\ data[j] \in Row
      BY <1>1, <2>3
    <3> QED
      BY <1>2, <2>3, <3>2, <3>3, <3>4, <3>5, <3>6, ProcessKeeps
  <2>5. CASE FailTicket(j)
    BY <1>11, <2>1, <2>3, <2>5
  <2> QED
    BY <1>16, <2>4, <2>5 DEF CallModel
<1>17. CASE CommitTicket(j)
  <2>1. UNCHANGED <<clock, wk, rev, calls, kills>> /\ data[j].kind = "api"
    BY <1>17 DEF CommitTicket
  <2>2. CASE FailTicket(j)
    BY <1>1, <1>8, <1>11, <2>1, <2>2
  <2>3. CASE /\ data' = [data EXCEPT ![j].status = "succeeded"] /\ Exit(j)
             /\ res' = [res EXCEPT !.status = "completed", !.rev = rev]
             /\ rev = data[j].rev /\ data[j].status = "running" /\ res.lease = j
    <3> DEFINE x == [data[j] EXCEPT !.status = "succeeded"]
    <3>1. /\ x \in Row /\ x.kind = "api" /\ x.rev = data[j].rev /\ x.until = data[j].until
          /\ x.status = "succeeded" /\ x.kind = data[j].kind
      BY <1>1, <2>1 DEF Row, Terminal
    <3>2. data' = [data EXCEPT ![j] = x]
      BY <2>3
    <3>3. res' \in Ticket /\ res'.lease = j /\ res'.rev = data[j].rev
      BY <1>1, <2>3 DEF Ticket
    <3>4. dead.step >= child[j].step
      BY <1>3, <1>4
    <3>5. x.status \in Terminal
      BY <3>1 DEF Terminal
    <3> HIDE DEF x
    <3>6. child' = [child EXCEPT ![j] = dead]
      BY <1>6, <2>3
    <3>7. /\ calls' \in [DataIds -> Nat] /\ calls' = calls /\ kills' \in 0..MaxKills
          /\ UNCHANGED <<clock, wk, rev>>
      BY <1>1, <2>1
    <3>8. /\ x.status = data[j].status \/ (~dead.alive /\ x.status \in Terminal)
          /\ data[j].status = "running" /\ res'.rev = x.rev
      BY <1>3, <2>3, <3>1, <3>3, <3>5
    <3>9. calls'[j] <= 1 /\ (calls'[j] = 1 => dead.step >= 1) /\ (calls'[j] = 1 /\ dead.alive => dead.step >= 2)
      BY <1>3, <1>8, <3>7
    <3> QED
      BY <1>2, <1>3, <3>1, <3>2, <3>3, <3>4, <3>6, <3>7, <3>8, <3>9, ProcessKeeps
  <2> QED
    BY <1>17, <2>2, <2>3 DEF CommitTicket
<1> QED
  BY <1>12, <1>13, <1>14, <1>15, <1>16, <1>17 DEF Child

\* The steps of the owner.
LEMMA OwnerStepKeeps ==
  ASSUME DataInv,
         SaveProfile \/ RemoveProfile \/ RetryResearch \/ EndResearch
           \/ \E j \in DataIds : EnqueueTicket(j) \/ \E k \in Kinds : EnqueueData(j, k)
  PROVE  DataInv'
<1>1. res \in Ticket /\ rev \in 0..MaxRev /\ rev \in Nat /\ clock \in 0..LastTick
  BY DataFacts DEF DataInv, DataTypeOK
<1>2. CASE SaveProfile
  BY <1>1, <1>2, DataFacts, OwnerKeeps DEF SaveProfile
<1>3. CASE RemoveProfile
  BY <1>1, <1>3, DataFacts, OwnerKeeps DEF RemoveProfile
<1>4. CASE RetryResearch
  <2>1. res' \in Ticket /\ res'.status = "queued"
    BY <1>1, <1>4 DEF RetryResearch, Ticket
  <2> QED
    BY <1>1, <1>4, <2>1, OwnerKeeps DEF RetryResearch
<1>5. CASE EndResearch
  <2>1. res' \in Ticket /\ res'.status = "failed"
    BY <1>1, <1>5 DEF EndResearch, Ticket
  <2> QED
    BY <1>1, <1>5, <2>1, OwnerKeeps DEF EndResearch
<1>6. ASSUME NEW j \in DataIds, EnqueueTicket(j) PROVE DataInv'
  <2> DEFINE x == [NoRow EXCEPT !.status = "queued", !.kind = "api", !.rev = rev]
  <2>1. x \in Row /\ x.status = "queued"
    BY <1>1, <1>6, DataFacts DEF EnqueueTicket, Row, NoRow
  <2>2. clock + Lease \in 0..(LastTick + Lease)
    BY <1>1, DataFacts
  <2>3. res' \in Ticket /\ res'.status = "running"
    BY <1>1, <1>6, <2>2 DEF EnqueueTicket, Ticket
  <2>4. /\ NextFree(j) /\ data' = [data EXCEPT ![j] = x]
        /\ UNCHANGED <<clock, child, wk, rev, calls, kills>>
    BY <1>6 DEF EnqueueTicket
  <2> HIDE DEF x
  <2> QED
    BY <2>1, <2>3, <2>4, EnqueueKeeps
<1>7. ASSUME NEW j \in DataIds, NEW k \in Kinds, EnqueueData(j, k) PROVE DataInv'
  <2> DEFINE x == [NoRow EXCEPT !.status = "queued", !.kind = k]
  <2>1. x \in Row /\ x.status = "queued"
    BY DataFacts DEF Row, NoRow
  <2>2. /\ NextFree(j) /\ data' = [data EXCEPT ![j] = x]
        /\ UNCHANGED <<clock, child, wk, res, rev, calls, kills>>
    BY <1>7 DEF EnqueueData
  <2> HIDE DEF x
  <2> QED
    BY <1>1, <2>1, <2>2, EnqueueKeeps
<1> QED
  BY <1>2, <1>3, <1>4, <1>5, <1>6, <1>7

\* Every step keeps the invariant.
LEMMA DataInvStep == DataInv /\ [DataNext]_dataVars => DataInv'
<1> SUFFICES ASSUME DataInv, [DataNext]_dataVars PROVE DataInv'
  OBVIOUS
<1>1. CASE UNCHANGED dataVars
  BY <1>1 DEF dataVars, DataInv, DataTypeOK, AtMostOne, NotStarted, Supervised, Unspawned, Watched,
     SupervisedByOne, SupervisedAlive, ProcessesOK, ResultOK
<1>2. ASSUME NEW w \in Workers, Supervisor(w) \/ KillSupervisor(w) PROVE DataInv'
  BY <1>2, ClaimKeeps, SpawnKeeps, ReapKeeps, KillSupervisorKeeps DEF Supervisor
<1> QED
  BY <1>1, <1>2, ChildKeeps, OwnerStepKeeps, ClockTickKeeps DEF DataNext

\* The data queue keeps its invariant in every reachable state.
THEOREM DataInvariant == DataSpec => []DataInv
<1>1. DataInv /\ [DataNext]_dataVars => DataInv'
  BY DataInvStep
<1> QED
  BY <1>1, DataInvInit, PTL DEF DataSpec

\* What the invariant says of the queue: one running job, orphans apart, no live lease declared
\* dead, at most one paid call and a result of the current revision.
LEMMA DataInvSound == DataInv => JobsRunOnce
<1> SUFFICES ASSUME DataInv PROVE JobsRunOnce
  OBVIOUS
<1>1. OneRunning
  <2> DEFINE S == {j \in DataIds : data[j].status = "running"}
  <2>1. CASE S = {}
    BY <2>1, FS_EmptySet DEF OneRunning
  <2>2. CASE S # {}
    <3>1. PICK j \in S : S = {j}
      BY <2>2 DEF DataInv, AtMostOne
    <3>2. Cardinality({j}) = 1
      BY FS_Singleton
    <3> QED
      BY <3>1, <3>2 DEF OneRunning
  <2> QED
    BY <2>1, <2>2
<1>2. OverlapOnlyOrphans
  <2>1. \A j \in DataIds : child[j].alive /\ child[j].sup # NoJob =>
          child[j].sup \in Workers /\ wk[child[j].sup] = j /\ data[j].status = "running"
    <3> TAKE j \in DataIds
    <3> HAVE child[j].alive /\ child[j].sup # NoJob
    <3>1. child[j].sup \in Workers /\ wk[child[j].sup] = j
      BY DEF DataInv, DataTypeOK, Process, SupervisedAlive
    <3>2. Watched(child[j].sup, j)
      BY <3>1, WatchedFacts, DataFacts
    <3> QED
      BY <3>1, <3>2 DEF Watched
  <2> QED
    BY <2>1 DEF OverlapOnlyOrphans, DataInv, AtMostOne
<1>3. NeverExpiredUnderSupervision
  BY SupervisedNotSwept DEF NeverExpiredUnderSupervision
<1>4. PaidOnceAndCurrent
  BY DEF DataInv, ProcessesOK, ResultOK, PaidOnceAndCurrent
<1> QED
  BY <1>1, <1>2, <1>3, <1>4 DEF JobsRunOnce, WorkersApart

\* One job at a time under one supervisor, one paid call per ticket, results of the current
\* profile: for every number of workers, jobs, ticks, crashes and revisions.
THEOREM JobsAreRunOnce == DataSpec => []JobsRunOnce
  BY DataInvariant, DataInvSound, PTL

\* A job that ended keeps its outcome, whatever its process or another worker still does.
THEOREM OutcomesAreFinal == DataSpec => OutcomeFinal
<1> DEFINE A == \A j \in DataIds : data[j].status \in Terminal /\ data[j].kind # "direct"
                  => data'[j].status = data[j].status
<1>1. DataInv /\ [DataNext]_dataVars => [A]_dataVars
  <2> SUFFICES ASSUME DataInv, DataNext, NEW j \in DataIds, data[j].status \in Terminal,
                      data[j].kind # "direct"
               PROVE  data'[j].status = data[j].status
    BY DEF A
  <2>1. data[j].status \notin {"absent", "queued", "running"} /\ data \in [DataIds -> Row]
    BY DEF Terminal, DataInv, DataTypeOK
  <2>2. CASE data' = data
    BY <2>2
  <2>3. ASSUME NEW w \in Workers, ClaimNext(w) PROVE data'[j].status = data[j].status
    <3> DEFINE queued == {i \in DataIds : SweptRows[i].status = "queued"}
    <3>1. SweptRows[j] = data[j]
      BY <2>1 DEF SweptRows, ExpiredRows
    <3>2. queued # {} => Min(queued) \in DataIds /\ Min(queued) # j
      BY <2>1, <3>1, MinQueued
    <3> HIDE DEF queued
    <3>3. \/ data' = SweptRows
          \/ queued # {} /\ data' = [SweptRows EXCEPT ![Min(queued)].status = "running",
                                                      ![Min(queued)].until = clock + Lease]
      BY <2>3 DEF ClaimNext, queued
    <3> QED
      BY <3>1, <3>2, <3>3, SweepFacts
  <2>4. ASSUME NEW w \in Workers, Reap(w) PROVE data'[j].status = data[j].status
    BY <2>1, <2>4 DEF Reap
  <2>5. ASSUME NEW i \in DataIds, Child(i) PROVE data'[j].status = data[j].status
    BY <2>1, <2>5 DEF Child, Step, Finish, CheckTicket, CallModel, CommitTicket, FailTicket
  <2>6. ASSUME NEW i \in DataIds, EnqueueTicket(i) \/ \E k \in Kinds : EnqueueData(i, k)
        PROVE  data'[j].status = data[j].status
    BY <2>1, <2>6, DataFacts DEF EnqueueTicket, EnqueueData, NextFree
  <2> QED
    BY <2>2, <2>3, <2>4, <2>5, <2>6 DEF DataNext, Supervisor, ClockTick, SaveProfile, RemoveProfile,
       RetryResearch, EndResearch, Spawn, KillSupervisor, KillChild
<1> QED
  BY <1>1, DataInvariant, PTL DEF DataSpec, OutcomeFinal, A

-----------------------------------------------------------------------------
(* Research jobs: the rows of the server.                                   *)

\* What a row says for itself: a result exactly when it is completed, the claims it may still
\* take, and a device's result only from the device that holds it and called its model.
JobOK(j, x) ==
  /\ x.result # NoDevice <=> x.status = "completed"
  /\ x.attempts <= MaxAttempts /\ (x.status = "queued" => x.attempts < MaxAttempts)
  /\ x.lease # 0 => x.dev \in Devices
  /\ x.result \in Devices => x.dev = x.result /\ ran[<<x.result, j>>] = 1

OpenJob(x) == x.status \in {"queued", "running"} /\ x.exp > now
OpenRows(f) == {j \in Jobs : OpenJob(f[j])}
OneRun(f) == \A i, j \in Jobs :
  f[i].status = "running" /\ f[j].status = "running" /\ f[i].dev = f[j].dev /\ f[i].dev \in Devices
    => i = j
LeaseOfOne(f) == \A i, j \in Jobs : f[i].lease # 0 /\ f[i].lease = f[j].lease => i = j
HeldByPaired(f) ==
  \A j \in Jobs : f[j].status = "running" /\ f[j].dev \in Devices => dev[f[j].dev] # "revoked"

Rows(f) ==
  /\ f \in [Jobs -> ResearchJob] /\ \A j \in Jobs : JobOK(j, f[j])
  /\ OneRun(f) /\ LeaseOfOne(f) /\ HeldByPaired(f) /\ Cardinality(OpenRows(f)) <= MaxActive

ServerInv ==
  /\ now \in 0..Horizon /\ dev \in [Devices -> {"absent", "pending", "active", "revoked"}]
  /\ Rows(job)

\* A claim id belongs to the device that drew it: in its marker, its requests, its folders and
\* the rows of the jobs lent under it.
Uses(d, l) ==
  \/ marker[d] = l \/ \E m \in reqs : m.dev = d /\ m.lease = l
  \/ \E j \in Jobs : folder[d][j] = l \/ (job[j].dev = d /\ job[j].lease = l)
ClaimsOwned ==
  \A d \in Devices, l \in Ids \ {0} :
    Uses(d, l) => l <= drawn /\ \A e \in Devices : Uses(e, l) => e = d

\* One model call per folder: the attempt file is written before it, and only it leaves a result.
CallsBacked ==
  \A d \in Devices, j \in Jobs :
    /\ ran[<<d, j>>] <= 1 /\ (j \notin attempt[d] => ran[<<d, j>>] = 0)
    /\ output[d][j] = "valid" => ran[<<d, j>>] = 1
BridgesOK ==
  \A d \in Devices :
    /\ pc[d].op \notin {"idle", "claim"} => pc[d].job \in Jobs
    /\ pc[d].op = "model" => pc[d].job \in attempt[d] /\ ran[<<d, pc[d].job>>] = 0
RequestsOK ==
  \A m \in reqs :
    /\ m.kind # "claim" => m.job \in Jobs
    /\ m.kind = "result" => ran[<<m.dev, m.job>>] = 1

FileTypes ==
  /\ faults \in 0..MaxFaults /\ drawn \in Ids
  /\ marker \in [Devices -> Ids] /\ folder \in [Devices -> [Jobs -> Ids]]
  /\ attempt \in [Devices -> SUBSET Jobs]
  /\ output \in [Devices -> [Jobs -> {"none", "valid", "invalid"}]]
  /\ reqs \subseteq Message /\ pc \in [Devices -> Bridge] /\ ran \in [Devices \X Jobs -> Nat]

BridgeInv == FileTypes /\ CallsBacked /\ BridgesOK /\ RequestsOK

ResearchInv == ServerInv /\ BridgeInv /\ ClaimsOwned

\* The constants, the absent row and the idle bridge.
LEMMA ResearchFacts ==
  /\ NJobs \in Nat /\ NJobs > 0 /\ MaxActive \in Nat /\ MaxAttempts \in Nat /\ MaxAttempts > 0
  /\ LeaseLen \in Nat /\ TTL \in Nat /\ MaxClaims \in Nat /\ MaxFaults \in Nat /\ Horizon \in Nat
  /\ Manual \notin Devices /\ NoDevice \notin Devices /\ NoDevice # Manual
  /\ Jobs \subseteq Nat /\ 0 \notin Jobs /\ Jobs \subseteq 0..NJobs /\ 0 \in 0..NJobs /\ 0 \in Ids
  /\ Absent \in ResearchJob /\ Absent.status = "absent" /\ Absent.result = NoDevice
  /\ Absent.attempts = 0 /\ Absent.lease = 0 /\ Absent.review = "pending"
  /\ Idle \in Bridge /\ Idle.op = "idle" /\ Idle.job = 0 /\ Idle.reason = NoDevice
<1>1. /\ NJobs \in Nat /\ NJobs > 0 /\ MaxActive \in Nat /\ MaxAttempts \in Nat /\ MaxAttempts > 0
      /\ LeaseLen \in Nat /\ TTL \in Nat /\ MaxClaims \in Nat /\ MaxFaults \in Nat /\ Horizon \in Nat
      /\ Manual \notin Devices /\ NoDevice \notin Devices /\ NoDevice # Manual
  BY ResearchAssumed DEF ResearchAssumption
<1>2. /\ Jobs \subseteq Nat /\ 0 \notin Jobs /\ Jobs \subseteq 0..NJobs /\ 0 \in 0..NJobs /\ 0 \in Ids
      /\ 0 \in 0..(Horizon + LeaseLen) /\ 0 \in 0..(Horizon + TTL)
  BY <1>1 DEF Jobs, Ids
<1>3. /\ Absent \in ResearchJob /\ Absent.status = "absent" /\ Absent.result = NoDevice
      /\ Absent.attempts = 0 /\ Absent.lease = 0 /\ Absent.review = "pending"
  BY <1>2 DEF Absent, ResearchJob
<1>4. Idle \in Bridge /\ Idle.op = "idle" /\ Idle.job = 0 /\ Idle.reason = NoDevice
  BY <1>2 DEF Idle, Bridge, Reasons
<1> QED
  BY <1>1, <1>2, <1>3, <1>4

\* There are finitely many jobs, and as many open ones as the rows show.
LEMMA OpenFinite ==
  ASSUME NEW f
  PROVE  IsFiniteSet(OpenRows(f)) /\ Cardinality(OpenRows(f)) \in Nat
<1>1. IsFiniteSet(Jobs)
  BY ResearchFacts, FS_Interval DEF Jobs
<1>2. IsFiniteSet(OpenRows(f))
  BY <1>1, FS_Subset DEF OpenRows
<1> QED
  BY <1>2, FS_CardinalityType

\* One row changes: what it must respect for the rows to stay sound.
LEMMA RowSet ==
  ASSUME NEW f, Rows(f), NEW j \in Jobs, NEW x \in ResearchJob, JobOK(j, x),
         \/ x.status # "running"
         \/ f[j].status = "running" /\ x.dev = f[j].dev
         \/ /\ x.dev \in Devices => dev[x.dev] # "revoked"
            /\ \A i \in Jobs : f[i].status = "running" => f[i].dev # x.dev,
         x.lease = 0 \/ x.lease = f[j].lease \/ \A i \in Jobs \ {j} : f[i].lease # x.lease,
         Cardinality(OpenRows(f)) < MaxActive \/ (OpenJob(x) => OpenJob(f[j]))
  PROVE  Rows([f EXCEPT ![j] = x])
<1> DEFINE g == [f EXCEPT ![j] = x]
<1>1. g \in [Jobs -> ResearchJob] /\ g[j] = x /\ \A i \in Jobs \ {j} : g[i] = f[i]
  BY DEF Rows
<1> HIDE DEF g
<1>2. \A i \in Jobs : JobOK(i, g[i])
  BY <1>1 DEF Rows
<1>3. OneRun(g)
  BY <1>1 DEF Rows, OneRun
<1>4. LeaseOfOne(g)
  BY <1>1 DEF Rows, LeaseOfOne
<1>5. HeldByPaired(g)
  BY <1>1 DEF Rows, HeldByPaired
<1>6. Cardinality(OpenRows(g)) <= MaxActive
  <2>1. IsFiniteSet(OpenRows(f)) /\ Cardinality(OpenRows(f)) \in Nat /\ Cardinality(OpenRows(g)) \in Nat
        /\ Cardinality(OpenRows(f)) <= MaxActive /\ MaxActive \in Nat
    BY OpenFinite, ResearchFacts DEF Rows
  <2>2. OpenRows(g) \subseteq OpenRows(f) \cup {j}
    BY <1>1 DEF OpenRows
  <2>3. CASE OpenJob(x) => OpenJob(f[j])
    <3>1. OpenRows(g) \subseteq OpenRows(f)
      BY <1>1, <2>3 DEF OpenRows
    <3> QED
      BY <2>1, <3>1, FS_Subset
  <2>4. CASE Cardinality(OpenRows(f)) < MaxActive
    <3>1. /\ IsFiniteSet(OpenRows(f) \cup {j})
          /\ Cardinality(OpenRows(f) \cup {j}) \in {Cardinality(OpenRows(f)), Cardinality(OpenRows(f)) + 1}
      BY <2>1, FS_AddElement
    <3>2. Cardinality(OpenRows(g)) <= Cardinality(OpenRows(f) \cup {j})
      BY <2>2, <3>1, FS_Subset
    <3> QED
      BY <2>1, <2>4, <3>1, <3>2
  <2> QED
    BY <2>3, <2>4
<1> QED
  BY <1>1, <1>2, <1>3, <1>4, <1>5, <1>6 DEF Rows, g

\* Jobs that end without a result leave the rows sound.
LEMMA RowsFail ==
  ASSUME NEW f, Rows(f), NEW S \in SUBSET Jobs, \A j \in S : f[j].status = "running"
  PROVE  Rows([j \in Jobs |-> IF j \in S THEN [f[j] EXCEPT !.status = "failed"] ELSE f[j]])
<1> DEFINE g == [j \in Jobs |-> IF j \in S THEN [f[j] EXCEPT !.status = "failed"] ELSE f[j]]
<1>1. \A j \in Jobs : f[j] \in ResearchJob /\ [f[j] EXCEPT !.status = "failed"] \in ResearchJob
  BY DEF Rows, ResearchJob
<1>2. g \in [Jobs -> ResearchJob]
  BY <1>1
<1>3. \A j \in Jobs :
        /\ g[j].dev = f[j].dev /\ g[j].lease = f[j].lease /\ g[j].attempts = f[j].attempts
        /\ g[j].result = f[j].result /\ g[j].exp = f[j].exp
        /\ g[j].status = f[j].status \/ (g[j].status = "failed" /\ f[j].status = "running")
  BY <1>1 DEF ResearchJob
<1> HIDE DEF g
<1>4. \A j \in Jobs : JobOK(j, g[j])
  BY <1>3 DEF Rows, JobOK
<1>5. OneRun(g) /\ HeldByPaired(g)
  BY <1>3 DEF Rows, OneRun, HeldByPaired
<1>6. LeaseOfOne(g)
  BY <1>3 DEF Rows, LeaseOfOne
<1>7. Cardinality(OpenRows(g)) <= MaxActive
  <2>1. OpenRows(g) \subseteq OpenRows(f)
    BY <1>3 DEF OpenRows, OpenJob
  <2>2. Cardinality(OpenRows(g)) <= Cardinality(OpenRows(f))
    BY <2>1, OpenFinite, FS_Subset
  <2> QED
    BY <2>2, OpenFinite, ResearchFacts DEF Rows
<1> QED
  BY <1>2, <1>4, <1>5, <1>6, <1>7 DEF Rows, g

\* With the clock, the devices and the calls unchanged, sound rows are sound afterwards.
LEMMA RowsStay ==
  ASSUME NEW f, Rows(f), UNCHANGED <<now, dev, ran>>
  PROVE  Rows(f)'
  BY DEF Rows, JobOK, HeldByPaired, OpenRows, OpenJob

\* A claim id stays its device's while no use of it appears.
LEMMA ClaimsStay ==
  ASSUME ClaimsOwned, drawn' = drawn,
         \A d \in Devices, l \in Ids \ {0} : Uses(d, l)' => Uses(d, l)
  PROVE  ClaimsOwned'
<1> SUFFICES ASSUME NEW d \in Devices, NEW l \in Ids \ {0}, Uses(d, l)'
             PROVE  l <= drawn' /\ \A e \in Devices : Uses(e, l)' => e = d
  BY DEF ClaimsOwned
<1>1. Uses(d, l) /\ \A e \in Devices : Uses(e, l)' => Uses(e, l)
  OBVIOUS
<1>2. l <= drawn /\ \A e \in Devices : Uses(e, l) => e = d
  BY <1>1 DEF ClaimsOwned
<1> QED
  BY <1>1, <1>2

-----------------------------------------------------------------------------
(* Research jobs: the owner.                                                *)

\* A row the owner changes.
LEMMA OwnerJobKeeps ==
  ASSUME ResearchInv, NEW j \in Jobs, NEW x, job' = [job EXCEPT ![j] = x],
         Rows([job EXCEPT ![j] = x]), x.lease = 0 \/ (x.lease = job[j].lease /\ x.dev = job[j].dev),
         UNCHANGED <<now, dev, reqs, files, pc, drawn, ran, faults>>
  PROVE  ResearchInv'
<1>1. ServerInv'
  BY RowsStay DEF ResearchInv, ServerInv
<1>2. BridgeInv'
  BY DEF ResearchInv, BridgeInv, FileTypes, CallsBacked, BridgesOK, RequestsOK, files
<1>3. job'[j] = x /\ \A i \in Jobs \ {j} : job'[i] = job[i]
  BY DEF ResearchInv, ServerInv, Rows
<1>4. \A d \in Devices, l \in Ids \ {0} : Uses(d, l)' => Uses(d, l)
  BY <1>3 DEF Uses, files
<1>5. ClaimsOwned'
  BY <1>4, ClaimsStay DEF ResearchInv
<1> QED
  BY <1>1, <1>2, <1>5 DEF ResearchInv

\* The owner creates, cancels, retries, reviews and completes jobs.
LEMMA ResearchOwnerKeeps ==
  ASSUME ResearchInv,
         Enqueue \/ \E j \in Jobs : Cancel(j) \/ Retry(j) \/ Review(j) \/ ImportResult(j)
  PROVE  ResearchInv'
<1>1. /\ Rows(job) /\ now \in 0..Horizon
      /\ \A j \in Jobs : job[j] \in ResearchJob /\ JobOK(j, job[j])
  BY DEF ResearchInv, ServerInv, Rows
<1>2. Active = OpenRows(job)
  BY DEF Active, OpenRows, OpenJob
<1>3. now + TTL \in 0..(Horizon + TTL)
  BY <1>1, ResearchFacts
<1>4. CASE Enqueue
  <2>1. PICK j \in Jobs :
          /\ job[j] = Absent /\ Cardinality(Active) < MaxActive
          /\ job' = [job EXCEPT ![j] = [Absent EXCEPT !.status = "queued", !.exp = now + TTL]]
          /\ UNCHANGED <<now, dev, reqs, files, pc, drawn, ran, faults>>
    BY <1>4 DEF Enqueue
  <2> DEFINE x == [Absent EXCEPT !.status = "queued", !.exp = now + TTL]
  <2>2. /\ x \in ResearchJob /\ x.status = "queued" /\ x.lease = 0 /\ x.attempts = 0
        /\ x.result = NoDevice
    <3>1. "queued" \in {"absent", "queued", "running", "completed", "failed", "cancelled"}
      OBVIOUS
    <3>2. x \in ResearchJob
      BY <1>3, <3>1, ResearchFacts DEF ResearchJob
    <3>3. /\ x.status = "queued" /\ x.lease = Absent.lease /\ x.attempts = Absent.attempts
          /\ x.result = Absent.result
      BY DEF Absent
    <3> QED
      BY <3>2, <3>3, ResearchFacts
  <2>3. job' = [job EXCEPT ![j] = x]
    BY <2>1
  <2> HIDE DEF x
  <2>4. JobOK(j, x)
    BY <2>2, ResearchFacts DEF JobOK
  <2>5. Rows([job EXCEPT ![j] = x])
    BY <1>1, <1>2, <2>1, <2>2, <2>4, RowSet
  <2> QED
    BY <2>1, <2>2, <2>3, <2>5, OwnerJobKeeps
<1>5. ASSUME NEW j \in Jobs, Cancel(j) PROVE ResearchInv'
  <2> DEFINE x == [job[j] EXCEPT !.status = "cancelled"]
  <2>1. /\ x \in ResearchJob /\ x.status = "cancelled" /\ x.lease = job[j].lease /\ x.dev = job[j].dev
        /\ x.attempts = job[j].attempts /\ x.result = job[j].result
    BY <1>1 DEF ResearchJob
  <2>2. /\ job' = [job EXCEPT ![j] = x] /\ job[j].status \in {"queued", "running"}
        /\ UNCHANGED <<now, dev, reqs, files, pc, drawn, ran, faults>>
    BY <1>5 DEF Cancel
  <2> HIDE DEF x
  <2>3. JobOK(j, x) /\ ~OpenJob(x)
    BY <1>1, <2>1, <2>2 DEF JobOK, OpenJob
  <2>4. Rows([job EXCEPT ![j] = x])
    BY <1>1, <2>1, <2>3, RowSet
  <2> QED
    BY <2>1, <2>2, <2>4, OwnerJobKeeps
<1>6. ASSUME NEW j \in Jobs, Retry(j) PROVE ResearchInv'
  <2> DEFINE x == [job[j] EXCEPT !.status = "queued", !.dev = NoDevice, !.lease = 0, !.until = 0]
  <2>1. 0 \in 0..(Horizon + LeaseLen)
    BY ResearchFacts
  <2>2. /\ x \in ResearchJob /\ x.status = "queued" /\ x.lease = 0 /\ x.dev = NoDevice
        /\ x.attempts = job[j].attempts /\ x.result = job[j].result
    BY <1>1, <2>1, ResearchFacts DEF ResearchJob
  <2>3. /\ job' = [job EXCEPT ![j] = x] /\ job[j].result = NoDevice /\ job[j].attempts < MaxAttempts
        /\ Cardinality(Active) < MaxActive
        /\ UNCHANGED <<now, dev, reqs, files, pc, drawn, ran, faults>>
    BY <1>6 DEF Retry
  <2> HIDE DEF x
  <2>4. JobOK(j, x)
    BY <1>1, <2>2, <2>3, ResearchFacts DEF JobOK
  <2>5. Rows([job EXCEPT ![j] = x])
    BY <1>1, <1>2, <2>2, <2>3, <2>4, RowSet
  <2> QED
    BY <2>2, <2>3, <2>5, OwnerJobKeeps
<1>7. ASSUME NEW j \in Jobs, Review(j) PROVE ResearchInv'
  <2>1. PICK decision \in {"accepted", "rejected"} : job' = [job EXCEPT ![j].review = decision]
    BY <1>7 DEF Review
  <2> DEFINE x == [job[j] EXCEPT !.review = decision]
  <2>2. /\ x \in ResearchJob /\ x.status = job[j].status /\ x.lease = job[j].lease /\ x.dev = job[j].dev
        /\ x.attempts = job[j].attempts /\ x.result = job[j].result /\ x.exp = job[j].exp
    BY <1>1 DEF ResearchJob
  <2>3. /\ job' = [job EXCEPT ![j] = x] /\ job[j].status = "completed"
        /\ UNCHANGED <<now, dev, reqs, files, pc, drawn, ran, faults>>
    BY <1>7, <2>1 DEF Review
  <2> HIDE DEF x
  <2>4. JobOK(j, x) /\ ~OpenJob(x)
    BY <1>1, <2>2, <2>3 DEF JobOK, OpenJob
  <2>5. Rows([job EXCEPT ![j] = x])
    BY <1>1, <2>2, <2>3, <2>4, RowSet
  <2> QED
    BY <2>2, <2>3, <2>5, OwnerJobKeeps
<1>8. ASSUME NEW j \in Jobs, ImportResult(j) PROVE ResearchInv'
  <2> DEFINE x == [job[j] EXCEPT !.status = "completed", !.result = Manual]
  <2>1. /\ x \in ResearchJob /\ x.status = "completed" /\ x.lease = job[j].lease /\ x.dev = job[j].dev
        /\ x.attempts = job[j].attempts /\ x.result = Manual
    BY <1>1 DEF ResearchJob
  <2>2. /\ job' = [job EXCEPT ![j] = x]
        /\ UNCHANGED <<now, dev, reqs, files, pc, drawn, ran, faults>>
    BY <1>8 DEF ImportResult
  <2> HIDE DEF x
  <2>3. JobOK(j, x) /\ ~OpenJob(x)
    BY <1>1, <2>1, ResearchFacts DEF JobOK, OpenJob
  <2>4. Rows([job EXCEPT ![j] = x])
    BY <1>1, <2>1, <2>3, RowSet
  <2> QED
    BY <2>1, <2>2, <2>4, OwnerJobKeeps
<1> QED
  BY <1>4, <1>5, <1>6, <1>7, <1>8

\* Pairing, revoking, and time.
LEMMA DevicesKeep ==
  ASSUME ResearchInv, ResearchTick \/ \E d \in Devices : NewPairing(d) \/ Pair(d) \/ Revoke(d)
  PROVE  ResearchInv'
<1>1. UNCHANGED <<reqs, files, pc, drawn, ran, faults>>
  BY DEF ResearchTick, NewPairing, Pair, Revoke
<1>2. BridgeInv'
  BY <1>1 DEF ResearchInv, BridgeInv, FileTypes, CallsBacked, BridgesOK, RequestsOK, files
<1>3. /\ now \in 0..Horizon /\ dev \in [Devices -> {"absent", "pending", "active", "revoked"}]
      /\ Rows(job) /\ job \in [Jobs -> ResearchJob]
  BY DEF ResearchInv, ServerInv, Rows
<1>4. ASSUME \A i \in Jobs : job'[i].dev = job[i].dev /\ job'[i].lease = job[i].lease
      PROVE  ClaimsOwned'
  <2>1. \A d \in Devices, l \in Ids \ {0} : Uses(d, l)' => Uses(d, l)
    BY <1>1, <1>4 DEF Uses, files
  <2> QED
    BY <1>1, <2>1, ClaimsStay DEF ResearchInv
<1>5. CASE ResearchTick
  <2>1. now' = now + 1 /\ now' \in 0..Horizon /\ job' = job /\ dev' = dev
    BY <1>3, <1>5, ResearchFacts DEF ResearchTick
  <2>2. \A j \in Jobs : job[j].exp \in Nat
    BY <1>3, ResearchFacts DEF ResearchJob
  <2>3. OpenRows(job)' \subseteq OpenRows(job)
    <3>1. now \in Nat
      BY <1>3, ResearchFacts
    <3>2. \A j \in Jobs : job[j].exp > now + 1 => job[j].exp > now
      BY <2>2, <3>1
    <3>3. \A j \in Jobs : OpenJob(job[j])' => OpenJob(job[j])
      BY <2>1, <3>2 DEF OpenJob
    <3> QED
      BY <3>3 DEF OpenRows
  <2>4. Cardinality(OpenRows(job)') <= MaxActive
    <3>1. Cardinality(OpenRows(job)') <= Cardinality(OpenRows(job)) /\ Cardinality(OpenRows(job)') \in Nat
      BY <2>3, OpenFinite, FS_Subset, FS_CardinalityType
    <3> QED
      BY <1>3, <3>1, OpenFinite, ResearchFacts DEF Rows
  <2>5. Rows(job)'
    BY <1>1, <1>3, <2>1, <2>4 DEF Rows, JobOK, OneRun, LeaseOfOne, HeldByPaired
  <2>6. ServerInv'
    BY <1>3, <2>1, <2>5 DEF ServerInv
  <2> QED
    BY <1>2, <1>4, <2>1, <2>6 DEF ResearchInv
<1>6. ASSUME NEW d \in Devices, NewPairing(d) \/ Pair(d) PROVE ResearchInv'
  <2>1. /\ dev' \in [Devices -> {"absent", "pending", "active", "revoked"}] /\ now' = now /\ job' = job
        /\ \A e \in Devices : dev'[e] = "revoked" => dev[e] = "revoked"
    BY <1>3, <1>6 DEF NewPairing, Pair
  <2>2. Rows(job)'
    BY <1>1, <1>3, <2>1 DEF Rows, JobOK, OneRun, LeaseOfOne, HeldByPaired, OpenRows, OpenJob
  <2>3. ServerInv'
    BY <1>3, <2>1, <2>2 DEF ServerInv
  <2> QED
    BY <1>2, <1>4, <2>1, <2>3 DEF ResearchInv
<1>7. ASSUME NEW d \in Devices, Revoke(d) PROVE ResearchInv'
  <2>1. PICK g :
          /\ g = [j \in Jobs |-> IF j \in Running(d) THEN [job[j] EXCEPT !.status = "failed"] ELSE job[j]]
          /\ job' = g
    BY <1>7 DEF Revoke
  <2>2. Rows(g)
    BY <1>3, <2>1, RowsFail DEF Running
  <2>3. \A j \in Jobs : /\ g[j].dev = job[j].dev /\ g[j].lease = job[j].lease
                        /\ ~(g[j].status = "running" /\ g[j].dev = d)
    BY <1>3, <2>1 DEF Running, ResearchJob
  <2>4. dev' = [dev EXCEPT ![d] = "revoked"] /\ now' = now
    BY <1>7 DEF Revoke
  <2>5. /\ dev' \in [Devices -> {"absent", "pending", "active", "revoked"}]
        /\ \A e \in Devices \ {d} : dev'[e] = dev[e]
    BY <1>3, <2>4
  <2>6. HeldByPaired(g)'
    BY <2>2, <2>3, <2>5 DEF Rows, HeldByPaired
  <2>7. Rows(g)'
    BY <1>1, <2>2, <2>4, <2>6 DEF Rows, JobOK, OneRun, LeaseOfOne, OpenRows, OpenJob
  <2>8. ServerInv'
    BY <1>3, <2>1, <2>4, <2>5, <2>7 DEF ServerInv
  <2> QED
    BY <1>2, <1>4, <2>1, <2>3, <2>8 DEF ResearchInv
<1> QED
  BY <1>5, <1>6, <1>7

-----------------------------------------------------------------------------
(* Research jobs: the bridge.                                               *)

\* The server's rows stay sound while calls are only added.
LEMMA ServerStays ==
  ASSUME ServerInv, UNCHANGED server, \A x \in Devices \X Jobs : ran[x] = 1 => ran'[x] = 1
  PROVE  ServerInv'
<1>1. \A j \in Jobs : JobOK(j, job[j])'
  BY DEF ServerInv, Rows, JobOK, server
<1> QED
  BY <1>1 DEF ServerInv, Rows, OneRun, LeaseOfOne, HeldByPaired, OpenRows, OpenJob, server

\* A request leaves.
LEMMA SendClaimKeeps ==
  ASSUME ResearchInv, NEW d \in Devices, SendClaim(d)
  PROVE  ResearchInv'
<1> DEFINE id == IF marker[d] = 0 THEN drawn + 1 ELSE marker[d]
           m == Request("claim", d, 0, id)
           b == [pc[d] EXCEPT !.op = "claim"]
<1>1. /\ FileTypes /\ CallsBacked /\ BridgesOK /\ RequestsOK /\ pc[d] \in Bridge
      /\ drawn \in Nat /\ drawn \in Ids /\ marker[d] \in Ids
  BY ResearchFacts DEF ResearchInv, BridgeInv, FileTypes, Ids
<1>2. /\ drawn' = IF marker[d] = 0 THEN drawn + 1 ELSE drawn
      /\ marker' = [marker EXCEPT ![d] = id] /\ reqs' = reqs \cup {m}
      /\ pc' = [pc EXCEPT ![d] = b] /\ UNCHANGED <<server, folder, attempt, output, ran, faults>>
      /\ (marker[d] = 0 => drawn < MaxClaims)
  BY DEF SendClaim
<1>4. id \in Ids /\ drawn' \in Ids /\ drawn <= drawn'
  BY <1>1, <1>2, ResearchFacts DEF Ids
<1>5. b \in Bridge /\ b.op = "claim"
  BY <1>1 DEF Bridge
<1> HIDE DEF b
<1>6. (marker[d] # 0 /\ id = marker[d] /\ drawn' = drawn) \/ (id = drawn + 1 /\ drawn' = drawn + 1)
  BY <1>2
<1> HIDE DEF id
<1>7. m \in Message /\ m.kind = "claim" /\ m.dev = d /\ m.lease = id
  BY <1>4, ResearchFacts DEF Request, Message, Reasons
<1> HIDE DEF m
<1>8. ServerInv'
  BY <1>2, ServerStays DEF ResearchInv
<1>9. FileTypes'
  BY <1>1, <1>2, <1>4, <1>5, <1>7 DEF FileTypes
<1>10. CallsBacked' /\ BridgesOK' /\ RequestsOK'
  <2>1. pc'[d] = b /\ \A e \in Devices \ {d} : pc'[e] = pc[e]
    BY <1>1, <1>2 DEF FileTypes
  <2> QED
    BY <1>1, <1>2, <1>5, <1>7, <2>1 DEF CallsBacked, BridgesOK, RequestsOK
<1>11. ClaimsOwned'
  <2>1. marker'[d] = id /\ \A e \in Devices \ {d} : marker'[e] = marker[e]
    BY <1>1, <1>2 DEF FileTypes
  <2>2. \A e \in Devices, l \in Ids \ {0} : Uses(e, l)' => Uses(e, l) \/ (e = d /\ l = id)
    BY <1>2, <1>7, <2>1 DEF Uses, server
  <2>3. \A l \in Ids \ {0} : \A e \in Devices : Uses(e, l) => l <= drawn /\ \A c \in Devices : Uses(c, l) => c = e
    BY DEF ResearchInv, ClaimsOwned
  <2>4. \A l \in Ids : l \in Nat
    BY ResearchFacts DEF Ids
  <2>5. CASE marker[d] # 0 /\ id = marker[d] /\ drawn' = drawn
    <3>1. Uses(d, id)
      BY <2>5 DEF Uses
    <3>2. \A e \in Devices, l \in Ids \ {0} : Uses(e, l)' => Uses(e, l)
      BY <2>2, <3>1
    <3> QED
      BY <2>5, <3>2, ClaimsStay DEF ResearchInv
  <2>6. CASE id = drawn + 1 /\ drawn' = drawn + 1
    <3>1. \A e \in Devices : ~Uses(e, id)
      BY <1>1, <1>4, <2>3, <2>6, ResearchFacts DEF Ids
    <3>2. \A l \in Ids : l <= drawn => l <= drawn'
      <4> TAKE l \in Ids
      <4>1. l \in Nat /\ drawn \in Nat /\ drawn' = drawn + 1
        BY <1>1, <2>4, <2>6
      <4> QED
        BY <4>1
    <3> SUFFICES ASSUME NEW e \in Devices, NEW l \in Ids \ {0}, Uses(e, l)'
                 PROVE  l <= drawn' /\ \A c \in Devices : Uses(c, l)' => c = e
      BY DEF ClaimsOwned
    <3>3. CASE l = id
      BY <1>1, <2>2, <2>4, <2>6, <3>1, <3>3
    <3>4. CASE l # id
      BY <2>2, <2>3, <3>2, <3>4
    <3> QED
      BY <3>3, <3>4
  <2> QED
    BY <1>6, <2>5, <2>6
<1> QED
  BY <1>8, <1>9, <1>10, <1>11 DEF ResearchInv, BridgeInv

\* The bridge moves on in its own files, and the server's rows and the claims stay.
LEMMA BridgeStepKeeps ==
  ASSUME ResearchInv, NEW d \in Devices,
         (\E j \in Jobs : Execute(d, j) \/ Release(d, j)) \/ RunModel(d) \/ GiveUp(d)
  PROVE  ResearchInv'
<1>1. /\ FileTypes /\ CallsBacked /\ BridgesOK /\ RequestsOK /\ pc[d] \in Bridge /\ ServerInv
  BY DEF ResearchInv, BridgeInv, FileTypes
<1>2. UNCHANGED <<server, reqs, folder, drawn>>
  BY DEF Execute, Release, RunModel, GiveUp, files
<1>3. ASSUME \A e \in Devices : marker'[e] = marker[e] \/ marker'[e] = 0
      PROVE  ClaimsOwned'
  <2>1. \A e \in Devices, l \in Ids \ {0} : Uses(e, l)' => Uses(e, l)
    BY <1>2, <1>3 DEF Uses, server
  <2> QED
    BY <1>2, <2>1, ClaimsStay DEF ResearchInv
<1>4. ASSUME NEW j \in Jobs, Execute(d, j) PROVE ResearchInv'
  <2>1. UNCHANGED <<marker, output, ran, faults>>
    BY <1>4 DEF Execute
  <2>2. PICK b \in Bridge :
          /\ pc' = [pc EXCEPT ![d] = b] /\ b.job = j
          /\ \/ /\ b.op = "model" /\ j \notin attempt[d]
                /\ attempt' = [attempt EXCEPT ![d] = attempt[d] \cup {j}]
             \/ b.op \in {"send", "report"} /\ attempt' = attempt
    <3>1. /\ [Idle EXCEPT !.job = j, !.op = "model"] \in Bridge
          /\ [Idle EXCEPT !.job = j, !.op = "model"].op = "model"
          /\ [Idle EXCEPT !.job = j, !.op = "model"].job = j
      BY ResearchFacts DEF Idle, Bridge
    <3>2. /\ [Idle EXCEPT !.job = j, !.op = "send"] \in Bridge
          /\ [Idle EXCEPT !.job = j, !.op = "send"].op = "send"
          /\ [Idle EXCEPT !.job = j, !.op = "send"].job = j
      BY ResearchFacts DEF Idle, Bridge
    <3>3. \A r \in {"runner_failed", "invalid_result"} :
            /\ [op |-> "report", job |-> j, reason |-> r] \in Bridge
      BY ResearchFacts DEF Bridge, Reasons
    <3> QED
      BY <1>4, <3>1, <3>2, <3>3 DEF Execute
  <2>3. pc'[d] = b /\ \A e \in Devices \ {d} : pc'[e] = pc[e] /\ attempt'[e] = attempt[e]
    BY <1>1, <2>2 DEF FileTypes
  <2>4. attempt[d] \subseteq attempt'[d] /\ (b.op = "model" => j \in attempt'[d] /\ ran[<<d, j>>] = 0)
    BY <1>1, <2>2 DEF FileTypes, CallsBacked
  <2>5. attempt' \in [Devices -> SUBSET Jobs]
    <3>1. attempt \in [Devices -> SUBSET Jobs]
      BY <1>1 DEF FileTypes
    <3>2. attempt[d] \cup {j} \in SUBSET Jobs
      BY <3>1
    <3> QED
      BY <2>2, <3>1, <3>2
  <2>6. FileTypes'
    BY <1>1, <1>2, <2>1, <2>2, <2>5 DEF FileTypes
  <2>7. CallsBacked' /\ RequestsOK'
    BY <1>1, <1>2, <2>1, <2>3, <2>4 DEF CallsBacked, RequestsOK
  <2>8. BridgesOK'
    BY <1>1, <2>1, <2>2, <2>3, <2>4 DEF BridgesOK
  <2> QED
    BY <1>1, <1>2, <1>3, <2>1, <2>6, <2>7, <2>8, ServerStays DEF ResearchInv, BridgeInv
<1>5. ASSUME NEW j \in Jobs, Release(d, j) PROVE ResearchInv'
  <2>1. UNCHANGED <<attempt, output, pc, ran, faults>> /\ marker' = [marker EXCEPT ![d] = 0]
    BY <1>5 DEF Release
  <2>2. FileTypes'
    BY <1>1, <1>2, <2>1, ResearchFacts DEF FileTypes
  <2>3. CallsBacked' /\ BridgesOK' /\ RequestsOK'
    BY <1>1, <1>2, <2>1 DEF CallsBacked, BridgesOK, RequestsOK
  <2>4. ClaimsOwned'
    BY <1>1, <1>3, <2>1 DEF FileTypes
  <2> QED
    BY <1>1, <1>2, <2>1, <2>2, <2>3, <2>4, ServerStays DEF ResearchInv, BridgeInv
<1>6. CASE GiveUp(d)
  <2>1. /\ UNCHANGED <<marker, attempt, output, ran>> /\ pc' = [pc EXCEPT ![d] = Idle]
        /\ faults' \in 0..MaxFaults
    BY <1>1, <1>6, ResearchFacts DEF GiveUp, files, FileTypes
  <2>2. FileTypes'
    BY <1>1, <1>2, <2>1, ResearchFacts DEF FileTypes
  <2>3. pc'[d] = Idle /\ \A e \in Devices \ {d} : pc'[e] = pc[e]
    BY <1>1, <2>1 DEF FileTypes
  <2>4. CallsBacked' /\ BridgesOK' /\ RequestsOK'
    BY <1>1, <1>2, <2>1, <2>3, ResearchFacts DEF CallsBacked, BridgesOK, RequestsOK
  <2> QED
    BY <1>1, <1>2, <1>3, <2>1, <2>2, <2>4, ServerStays DEF ResearchInv, BridgeInv
<1>7. CASE RunModel(d)
  <2>1. PICK j \in Jobs : j = pc[d].job /\ j \in attempt[d] /\ ran[<<d, j>>] = 0
    BY <1>1, <1>7 DEF RunModel, BridgesOK
  <2>2. UNCHANGED <<marker, attempt, faults>> /\ ran' = [ran EXCEPT ![<<d, j>>] = 1]
    BY <1>1, <1>7, <2>1 DEF RunModel, FileTypes
  <2>3. /\ ran' \in [Devices \X Jobs -> Nat] /\ ran'[<<d, j>>] = 1
        /\ \A e \in Devices, i \in Jobs : <<e, i>> # <<d, j>> => ran'[<<e, i>>] = ran[<<e, i>>]
    BY <1>1, <2>2 DEF FileTypes
  <2>4. PICK out \in {"none", "valid", "invalid"}, b \in Bridge :
          output' = [output EXCEPT ![d][j] = out] /\ pc' = [pc EXCEPT ![d] = b]
          /\ b.job = j /\ b.op \in {"send", "report"}
    <3>1. /\ [Idle EXCEPT !.job = j, !.op = "send"] \in Bridge
          /\ [Idle EXCEPT !.job = j, !.op = "send"].op = "send"
          /\ [Idle EXCEPT !.job = j, !.op = "send"].job = j
      BY ResearchFacts DEF Idle, Bridge
    <3>2. \A r \in {"timeout", "invalid_result"} :
            /\ [op |-> "report", job |-> j, reason |-> r] \in Bridge
      BY ResearchFacts DEF Bridge, Reasons
    <3> QED
      BY <1>7, <2>1, <3>1, <3>2 DEF RunModel
  <2>5. /\ output' \in [Devices -> [Jobs -> {"none", "valid", "invalid"}]]
        /\ \A e \in Devices, i \in Jobs : <<e, i>> # <<d, j>> => output'[e][i] = output[e][i]
    BY <1>1, <2>4 DEF FileTypes
  <2>6. pc'[d] = b /\ \A e \in Devices \ {d} : pc'[e] = pc[e]
    BY <1>1, <2>4 DEF FileTypes
  <2>7. FileTypes'
    BY <1>1, <1>2, <2>2, <2>3, <2>4, <2>5 DEF FileTypes
  <2>8. \A x \in Devices \X Jobs : ran[x] = 1 => ran'[x] = 1
    BY <2>1, <2>3
  <2>9. CallsBacked'
    <3> SUFFICES ASSUME NEW e \in Devices, NEW i \in Jobs
                 PROVE  /\ ran'[<<e, i>>] <= 1 /\ (i \notin attempt'[e] => ran'[<<e, i>>] = 0)
                        /\ output'[e][i] = "valid" => ran'[<<e, i>>] = 1
      BY DEF CallsBacked
    <3>1. CASE e = d /\ i = j
      BY <2>1, <2>2, <2>3, <3>1
    <3>2. CASE ~(e = d /\ i = j)
      <4>1. <<e, i>> # <<d, j>>
        BY <3>2
      <4>2. ran'[<<e, i>>] = ran[<<e, i>>] /\ output'[e][i] = output[e][i]
        BY <2>3, <2>5, <4>1
      <4> QED
        BY <1>1, <2>2, <4>2 DEF CallsBacked
    <3> QED
      BY <3>1, <3>2
  <2>10. BridgesOK'
    BY <1>1, <2>2, <2>3, <2>4, <2>6 DEF BridgesOK
  <2>11. RequestsOK'
    <3>1. \A m \in reqs : m.dev \in Devices
      BY <1>1 DEF FileTypes, Message
    <3> QED
      BY <1>1, <1>2, <2>8, <3>1 DEF RequestsOK
  <2>12. ServerInv'
    BY <1>1, <1>2, <2>8, ServerStays
  <2> QED
    BY <1>3, <2>2, <2>7, <2>9, <2>10, <2>11, <2>12 DEF ResearchInv, BridgeInv
<1> QED
  BY <1>4, <1>5, <1>6, <1>7

\* A report or a result leaves, under the lease in the job's folder.
LEMMA SendJobKeeps ==
  ASSUME ResearchInv, NEW d \in Devices, SendReport(d) \/ SendResult(d)
  PROVE  ResearchInv'
<1>1. /\ FileTypes /\ CallsBacked /\ BridgesOK /\ RequestsOK /\ pc[d] \in Bridge /\ ServerInv
  BY DEF ResearchInv, BridgeInv, FileTypes
<1>2. UNCHANGED <<server, files, drawn, ran, faults>>
  BY DEF SendReport, SendResult
<1>3. PICK j \in Jobs, m \in Message, b \in Bridge :
        /\ reqs' = reqs \cup {m} /\ pc' = [pc EXCEPT ![d] = b]
        /\ m.dev = d /\ m.job = j /\ m.lease = folder[d][j] /\ m.kind \in {"failure", "result"}
        /\ m.kind = "result" => output[d][j] = "valid"
        /\ b.job = j /\ b.op \in {"failure", "result"}
  <2>1. CASE SendReport(d)
    <3>1. PICK j \in Jobs : j = pc[d].job
      BY <1>1, <2>1 DEF SendReport, BridgesOK
    <3> DEFINE m == [Request("failure", d, j, folder[d][j]) EXCEPT !.reason = pc[d].reason]
               b == [pc[d] EXCEPT !.op = "failure"]
    <3>2. folder[d][j] \in Ids /\ pc[d].reason \in Reasons
      BY <1>1 DEF FileTypes, Bridge
    <3>3. m \in Message /\ m.dev = d /\ m.job = j /\ m.lease = folder[d][j] /\ m.kind = "failure"
      BY <3>2, ResearchFacts DEF Request, Message
    <3>4. b \in Bridge /\ b.job = j /\ b.op = "failure"
      BY <1>1, <3>1 DEF Bridge
    <3>5. reqs' = reqs \cup {m} /\ pc' = [pc EXCEPT ![d] = b]
      BY <2>1, <3>1 DEF SendReport
    <3> HIDE DEF m, b
    <3> QED
      BY <3>3, <3>4, <3>5
  <2>2. CASE SendResult(d)
    <3>1. PICK j \in Jobs :
            /\ output[d][j] = "valid"
            /\ reqs' = reqs \cup {Request("result", d, j, folder[d][j])}
            /\ pc' = [pc EXCEPT ![d] = [Idle EXCEPT !.op = "result", !.job = j]]
      BY <2>2 DEF SendResult
    <3> DEFINE m == Request("result", d, j, folder[d][j])
               b == [Idle EXCEPT !.op = "result", !.job = j]
    <3>2. folder[d][j] \in Ids
      BY <1>1 DEF FileTypes
    <3>3. m \in Message /\ m.dev = d /\ m.job = j /\ m.lease = folder[d][j] /\ m.kind = "result"
      BY <3>2, ResearchFacts DEF Request, Message, Reasons
    <3>4. b \in Bridge /\ b.job = j /\ b.op = "result"
      BY ResearchFacts DEF Idle, Bridge
    <3> HIDE DEF m, b
    <3> QED
      BY <3>1, <3>3, <3>4 DEF m, b
  <2> QED
    BY <2>1, <2>2
<1>4. pc'[d] = b /\ \A e \in Devices \ {d} : pc'[e] = pc[e]
  BY <1>1, <1>3 DEF FileTypes
<1>5. FileTypes'
  BY <1>1, <1>2, <1>3 DEF FileTypes, files
<1>6. CallsBacked' /\ BridgesOK' /\ RequestsOK'
  BY <1>1, <1>2, <1>3, <1>4 DEF CallsBacked, BridgesOK, RequestsOK, files
<1>7. ClaimsOwned'
  <2>1. Uses(d, folder[d][j])
    BY DEF Uses
  <2>2. \A e \in Devices, l \in Ids \ {0} : Uses(e, l)' => Uses(e, l)
    <3> SUFFICES ASSUME NEW e \in Devices, NEW l \in Ids \ {0}, Uses(e, l)' PROVE Uses(e, l)
      OBVIOUS
    <3>1. Uses(e, l) \/ (e = d /\ l = folder[d][j])
      BY <1>2, <1>3 DEF Uses, server, files
    <3> QED
      BY <2>1, <3>1
  <2> QED
    BY <1>2, <2>2, ClaimsStay DEF ResearchInv
<1> QED
  BY <1>1, <1>2, <1>5, <1>6, <1>7, ServerStays DEF ResearchInv, BridgeInv

-----------------------------------------------------------------------------
(* Research jobs: the requests of the devices.                              *)

\* What handling a request may change: the sender's marker and folder, and one row.
LEMMA HandleKeeps ==
  ASSUME ResearchInv, NEW m \in reqs, Handle(m), NEW g, job' = g, Rows(g),
         \A j \in Jobs : g[j].lease # 0 =>
           (g[j].dev = job[j].dev /\ g[j].lease = job[j].lease) \/ (g[j].dev = m.dev /\ g[j].lease = m.lease),
         marker' = marker \/ marker' = [marker EXCEPT ![m.dev] = 0],
         folder' = folder \/ \E j \in Jobs : folder' = [folder EXCEPT ![m.dev][j] = m.lease],
         pc' = pc \/ pc' = [pc EXCEPT ![m.dev] = Idle]
  PROVE  ResearchInv'
<1>1. /\ FileTypes /\ CallsBacked /\ BridgesOK /\ RequestsOK /\ ServerInv
      /\ m \in Message /\ m.dev \in Devices /\ m.lease \in Ids
  BY DEF ResearchInv, BridgeInv, FileTypes, Message
<1>2. UNCHANGED <<now, dev, attempt, output, drawn, ran, faults>> /\ reqs' = reqs \ {m}
  BY DEF Handle
<1>3. ServerInv'
  BY <1>1, <1>2, RowsStay DEF ServerInv
<1>4. marker' \in [Devices -> Ids] /\ \A e \in Devices : marker'[e] = marker[e] \/ marker'[e] = 0
  BY <1>1, ResearchFacts DEF FileTypes
<1>5. /\ folder' \in [Devices -> [Jobs -> Ids]]
      /\ \A e \in Devices, j \in Jobs :
           folder'[e][j] = folder[e][j] \/ (e = m.dev /\ folder'[e][j] = m.lease)
  <2>1. folder \in [Devices -> [Jobs -> Ids]]
    BY <1>1 DEF FileTypes
  <2>2. CASE folder' = folder
    BY <2>1, <2>2
  <2>3. ASSUME NEW i \in Jobs, folder' = [folder EXCEPT ![m.dev][i] = m.lease]
        PROVE  /\ folder' \in [Devices -> [Jobs -> Ids]]
               /\ \A e \in Devices, j \in Jobs :
                    folder'[e][j] = folder[e][j] \/ (e = m.dev /\ folder'[e][j] = m.lease)
    BY <1>1, <2>1, <2>3
  <2> QED
    BY <2>2, <2>3
<1>6. pc' \in [Devices -> Bridge] /\ \A e \in Devices : pc'[e] = pc[e] \/ pc'[e] = Idle
  BY <1>1, ResearchFacts DEF FileTypes
<1>7. FileTypes'
  BY <1>1, <1>2, <1>4, <1>5, <1>6 DEF FileTypes
<1>8. CallsBacked' /\ BridgesOK' /\ RequestsOK'
  BY <1>1, <1>2, <1>6, ResearchFacts DEF CallsBacked, BridgesOK, RequestsOK
<1>9. ClaimsOwned'
  <2>1. Uses(m.dev, m.lease)
    BY DEF Uses
  <2>2. \A e \in Devices, l \in Ids \ {0} : Uses(e, l)' => Uses(e, l)
    <3> SUFFICES ASSUME NEW e \in Devices, NEW l \in Ids \ {0}, Uses(e, l)' PROVE Uses(e, l)
      OBVIOUS
    <3>1. Uses(e, l) \/ (e = m.dev /\ l = m.lease)
      BY <1>2, <1>4, <1>5 DEF Uses
    <3> QED
      BY <2>1, <3>1
  <2> QED
    BY <1>2, <2>2, ClaimsStay DEF ResearchInv
<1> QED
  BY <1>3, <1>7, <1>8, <1>9 DEF ResearchInv, BridgeInv

\* The rows after the sweep of a claim.
LEMMA SweptFacts ==
  ASSUME Rows(job)
  PROVE  /\ Rows(Swept)
         /\ \A j \in Jobs :
              /\ Swept[j].dev = job[j].dev /\ Swept[j].lease = job[j].lease
              /\ Swept[j].exp = job[j].exp /\ Swept[j].attempts = job[j].attempts
              /\ Swept[j].result = job[j].result
              /\ Swept[j].status = "running" => job[j].status = "running" /\ j \notin Stale
              /\ job[j].status # "running" => Swept[j] = job[j]
<1>1. \A j \in Stale : job[j].status = "running"
  BY DEF Stale
<1>2. \A j \in Jobs : job[j] \in ResearchJob
  BY DEF Rows
<1>3. Rows(Swept)
  BY <1>1, RowsFail DEF Swept, Stale
<1> QED
  BY <1>1, <1>2, <1>3 DEF Swept, ResearchJob

\* The oldest queued research job.
LEMMA OldestQueued == ASSUME Queued # {} PROVE Min(Queued) \in Queued
  BY OldestOf, ResearchFacts DEF Queued

\* Claims.
LEMMA ClaimHandled ==
  ASSUME ResearchInv, NEW m \in reqs, Handle(m), dev[m.dev] = "active", Claim(m)
  PROVE  ResearchInv'
<1> DEFINE mine == {j \in Jobs : job[j].dev = m.dev /\ job[j].lease = m.lease}
           busy == Running(m.dev) \ Stale # {}
<1>1. /\ Rows(job) /\ m \in Message /\ m.dev \in Devices /\ m.lease \in Ids /\ now \in 0..Horizon
  BY DEF ResearchInv, ServerInv, BridgeInv, FileTypes, Message
<1>2. pc' = pc \/ pc' = [pc EXCEPT ![m.dev] = Idle]
  BY DEF Claim, Refuse, Answered
<1>3. marker' = marker \/ marker' = [marker EXCEPT ![m.dev] = 0]
  BY DEF Claim, Refuse, Unlink, Lend
<1>4. CASE UNCHANGED job /\ (folder' = folder \/ \E j \in Jobs : folder' = [folder EXCEPT ![m.dev][j] = m.lease])
  BY <1>1, <1>2, <1>3, <1>4, HandleKeeps
<1>5. CASE job' = Swept /\ folder' = folder
  BY <1>1, <1>2, <1>3, <1>5, SweptFacts, HandleKeeps
<1>6. CASE mine = {} /\ ~busy /\ Queued # {} /\ Lend(m, Min(Queued), Swept)
  <2>1. PICK j \in Queued : j = Min(Queued)
    BY <1>6, OldestQueued
  <2>2. j \in Jobs /\ job[j].status = "queued" /\ job[j].exp > now /\ Swept[j] = job[j]
    BY <1>1, <2>1, SweptFacts DEF Queued
  <2> DEFINE x == [Swept[j] EXCEPT !.status = "running", !.dev = m.dev, !.lease = m.lease,
                                   !.until = now + LeaseLen, !.attempts = @ + 1]
  <2>3. /\ job' = [Swept EXCEPT ![j] = x]
        /\ folder' = folder \/ folder' = [folder EXCEPT ![m.dev][j] = m.lease]
    BY <1>6, <2>1 DEF Lend
  <2>4. job[j] \in ResearchJob /\ JobOK(j, job[j]) /\ job[j].attempts \in Nat
    BY <1>1, <2>2 DEF Rows, ResearchJob
  <2>5. now + LeaseLen \in 0..(Horizon + LeaseLen)
    BY <1>1, ResearchFacts
  <2>6. /\ x \in ResearchJob /\ x.status = "running" /\ x.dev = m.dev /\ x.lease = m.lease
        /\ x.attempts = job[j].attempts + 1 /\ x.result = job[j].result /\ x.exp = job[j].exp
    <3>1. x = [job[j] EXCEPT !.status = "running", !.dev = m.dev, !.lease = m.lease,
                             !.until = now + LeaseLen, !.attempts = job[j].attempts + 1]
      BY <2>2
    <3>2. job[j].attempts + 1 \in Nat
      BY <2>4
    <3>3. x \in ResearchJob
      BY <1>1, <2>4, <2>5, <3>1, <3>2 DEF ResearchJob
    <3>4. /\ x.status = "running" /\ x.dev = m.dev /\ x.lease = m.lease
          /\ x.attempts = job[j].attempts + 1 /\ x.result = job[j].result /\ x.exp = job[j].exp
      BY <2>4, <3>1 DEF ResearchJob
    <3> QED
      BY <3>3, <3>4
  <2> HIDE DEF x
  <2>7. JobOK(j, x)
    <3>1. job[j].attempts < MaxAttempts /\ job[j].result = NoDevice
      BY <2>2, <2>4 DEF JobOK
    <3>2. job[j].attempts + 1 <= MaxAttempts
      BY <2>4, <3>1, ResearchFacts
    <3> QED
      BY <1>1, <2>6, <3>1, <3>2, ResearchFacts DEF JobOK
  <2>8. OpenJob(Swept[j])
    BY <2>2 DEF OpenJob
  <2>9. \A i \in Jobs : Swept[i].status = "running" => Swept[i].dev # m.dev
    BY <1>1, <1>6, SweptFacts DEF Running
  <2>10. m.lease = 0 \/ \A i \in Jobs \ {j} : Swept[i].lease # m.lease
    <3> SUFFICES ASSUME m.lease # 0, NEW i \in Jobs, Swept[i].lease = m.lease PROVE FALSE
      OBVIOUS
    <3>1. job[i].lease = m.lease /\ job[i].dev \in Devices
      BY <1>1, SweptFacts DEF Rows, JobOK
    <3>2. Uses(m.dev, m.lease) /\ Uses(job[i].dev, m.lease)
      BY <3>1 DEF Uses
    <3>3. job[i].dev = m.dev
      BY <1>1, <3>1, <3>2 DEF ResearchInv, ClaimsOwned
    <3> QED
      BY <1>6, <3>1, <3>3
  <2>11. Rows([Swept EXCEPT ![j] = x])
    <3>1. Rows(Swept) /\ j \in Jobs /\ x \in ResearchJob
      BY <1>1, <2>2, <2>6, SweptFacts
    <3>2. /\ x.dev \in Devices => dev[x.dev] # "revoked"
          /\ \A i \in Jobs : Swept[i].status = "running" => Swept[i].dev # x.dev
      BY <2>6, <2>9
    <3>3. x.lease = 0 \/ \A i \in Jobs \ {j} : Swept[i].lease # x.lease
      BY <2>6, <2>10
    <3> QED
      BY <2>7, <2>8, <3>1, <3>2, <3>3, RowSet
  <2>12. \A i \in Jobs :
           /\ i # j => [Swept EXCEPT ![j] = x][i].dev = job[i].dev
                       /\ [Swept EXCEPT ![j] = x][i].lease = job[i].lease
           /\ [Swept EXCEPT ![j] = x][j] = x
    BY <1>1, <2>2, SweptFacts DEF Rows
  <2>13. folder' = folder \/ \E i \in Jobs : folder' = [folder EXCEPT ![m.dev][i] = m.lease]
    BY <2>2, <2>3
  <2>14. PICK g : g = [Swept EXCEPT ![j] = x]
    OBVIOUS
  <2>15. \A i \in Jobs : (g[i].dev = job[i].dev /\ g[i].lease = job[i].lease)
                           \/ (g[i].dev = m.dev /\ g[i].lease = m.lease)
    BY <2>6, <2>12, <2>14
  <2>16. Rows(g) /\ job' = g
    BY <2>3, <2>11, <2>14
  <2> QED
    BY <1>2, <1>3, <2>13, <2>15, <2>16, HandleKeeps
<1> QED
  BY <1>4, <1>5, <1>6 DEF Claim, Refuse

\* Results.
LEMMA ResultHandled ==
  ASSUME ResearchInv, NEW m \in reqs, Handle(m), Result(m), m.kind = "result"
  PROVE  ResearchInv'
<1>1. /\ Rows(job) /\ m \in Message /\ m.dev \in Devices /\ m.job \in Jobs
      /\ ran[<<m.dev, m.job>>] = 1
  BY DEF ResearchInv, ServerInv, BridgeInv, FileTypes, Message, RequestsOK
<1>2. pc' = pc \/ pc' = [pc EXCEPT ![m.dev] = Idle]
  BY DEF Result, Refuse, Answered
<1>3. (marker' = marker \/ marker' = [marker EXCEPT ![m.dev] = 0]) /\ folder' = folder
  BY DEF Result, Refuse, Unlink
<1>4. CASE UNCHANGED job
  BY <1>1, <1>2, <1>3, <1>4, HandleKeeps
<1>5. CASE /\ job[m.job].dev = m.dev /\ Live(m.job)
           /\ job' = [job EXCEPT ![m.job].status = "completed", ![m.job].result = m.dev]
  <2>1. PICK j \in Jobs : j = m.job
    BY <1>1
  <2> DEFINE x == [job[j] EXCEPT !.status = "completed", !.result = m.dev]
  <2>2. job[j] \in ResearchJob /\ JobOK(j, job[j])
    BY <1>1 DEF Rows
  <2>3. /\ x \in ResearchJob /\ x.status = "completed" /\ x.dev = m.dev /\ x.lease = job[j].lease
        /\ x.attempts = job[j].attempts /\ x.result = m.dev
    BY <1>1, <1>5, <2>1, <2>2 DEF ResearchJob
  <2>4. job' = [job EXCEPT ![j] = x] /\ job[j].dev = m.dev
    BY <1>5, <2>1
  <2> HIDE DEF x
  <2>5. JobOK(j, x) /\ ~OpenJob(x)
    BY <1>1, <2>1, <2>2, <2>3, ResearchFacts DEF JobOK, OpenJob
  <2>6. Rows([job EXCEPT ![j] = x])
    BY <1>1, <2>3, <2>5, RowSet
  <2>7. \A i \in Jobs :
          [job EXCEPT ![j] = x][i].dev = job[i].dev /\ [job EXCEPT ![j] = x][i].lease = job[i].lease
    BY <1>1, <2>3, <2>4 DEF Rows
  <2> QED
    BY <1>2, <1>3, <2>4, <2>6, <2>7, HandleKeeps
<1> QED
  BY <1>4, <1>5 DEF Result, Refuse

\* Failure reports.
LEMMA FailureHandled ==
  ASSUME ResearchInv, NEW m \in reqs, Handle(m), Failure(m), m.kind = "failure"
  PROVE  ResearchInv'
<1>1. /\ Rows(job) /\ m \in Message /\ m.dev \in Devices /\ m.job \in Jobs
  BY DEF ResearchInv, ServerInv, BridgeInv, FileTypes, Message, RequestsOK
<1>2. pc' = pc \/ pc' = [pc EXCEPT ![m.dev] = Idle]
  BY DEF Failure, Refuse, Answered
<1>3. (marker' = marker \/ marker' = [marker EXCEPT ![m.dev] = 0]) /\ folder' = folder
  BY DEF Failure, Refuse, Unlink
<1>4. CASE UNCHANGED job
  BY <1>1, <1>2, <1>3, <1>4, HandleKeeps
<1>5. CASE /\ job[m.job].status \in {"running", "failed"}
           /\ job' = [job EXCEPT ![m.job].status = "failed"]
  <2>1. PICK j \in Jobs : j = m.job
    BY <1>1
  <2> DEFINE x == [job[j] EXCEPT !.status = "failed"]
  <2>2. job[j] \in ResearchJob /\ JobOK(j, job[j])
    BY <1>1 DEF Rows
  <2>3. /\ x \in ResearchJob /\ x.status = "failed" /\ x.dev = job[j].dev /\ x.lease = job[j].lease
        /\ x.attempts = job[j].attempts /\ x.result = job[j].result
    BY <2>2 DEF ResearchJob
  <2>4. job' = [job EXCEPT ![j] = x] /\ job[j].status \in {"running", "failed"}
    BY <1>5, <2>1
  <2> HIDE DEF x
  <2>5. JobOK(j, x) /\ ~OpenJob(x)
    BY <2>2, <2>3, <2>4 DEF JobOK, OpenJob
  <2>6. Rows([job EXCEPT ![j] = x])
    BY <1>1, <2>3, <2>5, RowSet
  <2>7. \A i \in Jobs :
          [job EXCEPT ![j] = x][i].dev = job[i].dev /\ [job EXCEPT ![j] = x][i].lease = job[i].lease
    BY <1>1, <2>3 DEF Rows
  <2> QED
    BY <1>2, <1>3, <2>4, <2>6, <2>7, HandleKeeps
<1> QED
  BY <1>4, <1>5 DEF Failure, Refuse

-----------------------------------------------------------------------------
(* Every step of the research jobs.                                         *)

\* The initial state satisfies the invariant.
LEMMA ResearchInvInit == ResearchInit => ResearchInv
<1> SUFFICES ASSUME ResearchInit PROVE ResearchInv
  OBVIOUS
<1>1. /\ now = 0 /\ job = [j \in Jobs |-> Absent] /\ dev = [d \in Devices |-> "absent"]
      /\ reqs = {} /\ marker = [d \in Devices |-> 0]
      /\ folder = [d \in Devices |-> [j \in Jobs |-> 0]]
      /\ attempt = [d \in Devices |-> {}]
      /\ output = [d \in Devices |-> [j \in Jobs |-> "none"]]
      /\ pc = [d \in Devices |-> Idle] /\ drawn = 0 /\ faults = 0
      /\ ran = [x \in Devices \X Jobs |-> 0]
  BY DEF ResearchInit
<1>2. Rows(job)
  <2>1. \A j \in Jobs : job[j] = Absent
    BY <1>1
  <2>2. OpenRows(job) = {}
    BY <2>1, ResearchFacts DEF OpenRows, OpenJob
  <2>3. Cardinality(OpenRows(job)) <= MaxActive
    BY <2>2, FS_EmptySet, ResearchFacts
  <2>4. \A j \in Jobs : JobOK(j, Absent)
    BY ResearchFacts DEF JobOK
  <2> QED
    BY <1>1, <2>1, <2>3, <2>4, ResearchFacts DEF Rows, OneRun, LeaseOfOne, HeldByPaired
<1>3. ServerInv
  BY <1>1, <1>2, ResearchFacts DEF ServerInv
<1>4. FileTypes
  BY <1>1, ResearchFacts DEF FileTypes
<1>5. CallsBacked /\ BridgesOK /\ RequestsOK
  BY <1>1, ResearchFacts DEF CallsBacked, BridgesOK, RequestsOK
<1>6. ClaimsOwned
  BY <1>1, ResearchFacts DEF ClaimsOwned, Uses
<1> QED
  BY <1>3, <1>4, <1>5, <1>6 DEF ResearchInv, BridgeInv

\* A request of a device is handled.
LEMMA RequestHandled ==
  ASSUME ResearchInv, NEW m \in reqs, Handle(m)
  PROVE  ResearchInv'
<1>1. Rows(job) /\ m.dev \in Devices
  BY DEF ResearchInv, ServerInv, BridgeInv, FileTypes, Message
<1>2. CASE Refuse(m)
  <2>1. pc' = pc \/ pc' = [pc EXCEPT ![m.dev] = Idle]
    BY <1>2 DEF Refuse, Answered
  <2> QED
    BY <1>1, <1>2, <2>1, HandleKeeps DEF Refuse
<1> QED
  BY <1>2, ClaimHandled, ResultHandled, FailureHandled DEF Handle

\* Every step keeps the invariant.
LEMMA ResearchInvStep == ResearchInv /\ [ResearchNext]_researchVars => ResearchInv'
<1> SUFFICES ASSUME ResearchInv, [ResearchNext]_researchVars PROVE ResearchInv'
  OBVIOUS
<1>1. CASE UNCHANGED researchVars
  <2>1. UNCHANGED <<now, job, dev, reqs, marker, folder, attempt, output, pc, drawn, ran, faults>>
    BY <1>1 DEF researchVars
  <2>2. ServerInv'
    BY <2>1, RowsStay DEF ResearchInv, ServerInv
  <2>3. BridgeInv'
    BY <2>1 DEF ResearchInv, BridgeInv, FileTypes, CallsBacked, BridgesOK, RequestsOK
  <2>4. ClaimsOwned'
    BY <2>1 DEF ResearchInv, ClaimsOwned, Uses
  <2> QED
    BY <2>2, <2>3, <2>4 DEF ResearchInv
<1>2. ASSUME NEW d \in Devices,
             \/ NewPairing(d) \/ Pair(d) \/ Revoke(d) \/ SendClaim(d) \/ RunModel(d)
             \/ SendReport(d) \/ SendResult(d) \/ GiveUp(d)
             \/ \E j \in Jobs : Execute(d, j) \/ Release(d, j)
      PROVE  ResearchInv'
  BY <1>2, DevicesKeep, SendClaimKeeps, BridgeStepKeeps, SendJobKeeps
<1> QED
  BY <1>1, <1>2, ResearchOwnerKeeps, DevicesKeep, RequestHandled DEF ResearchNext

\* The research jobs keep their invariant in every reachable state.
THEOREM ResearchInvariant == ResearchSpec => []ResearchInv
<1>1. ResearchInv /\ [ResearchNext]_researchVars => ResearchInv'
  BY ResearchInvStep
<1> QED
  BY <1>1, ResearchInvInit, PTL DEF ResearchSpec

\* What the invariant says of the leases, the budgets and the model calls.
LEMMA ResearchInvSound == ResearchInv => LeasesHonoured
<1> SUFFICES ASSUME ResearchInv PROVE LeasesHonoured
  OBVIOUS
<1>1. Rows(job)
  BY DEF ResearchInv, ServerInv
<1>2. OneLeasePerDevice
  <2>1. ASSUME NEW d \in Devices PROVE Cardinality(Running(d)) <= 1
    <3>1. CASE Running(d) = {}
      BY <3>1, FS_EmptySet
    <3>2. CASE Running(d) # {}
      <4>1. PICK j \in Running(d) : Running(d) = {j}
        BY <1>1, <3>2 DEF Running, Rows, OneRun
      <4>2. Cardinality({j}) = 1
        BY FS_Singleton
      <4> QED
        BY <4>1, <4>2
    <3> QED
      BY <3>1, <3>2
  <2> QED
    BY <1>1, <2>1 DEF OneLeasePerDevice, Rows, LeaseOfOne
<1>3. ResultFromHolder /\ AttemptsBounded
  BY <1>1 DEF Rows, JobOK, ResultFromHolder, AttemptsBounded
<1>4. OneModelCall
  BY DEF ResearchInv, BridgeInv, CallsBacked, OneModelCall
<1>5. ActiveBudget
  <2>1. Active = OpenRows(job)
    BY DEF Active, OpenRows, OpenJob
  <2> QED
    BY <1>1, <2>1 DEF Rows, ActiveBudget
<1>6. RevokedHoldsNothing
  BY <1>1 DEF Rows, HeldByPaired, RevokedHoldsNothing, Running
<1> QED
  BY <1>2, <1>3, <1>4, <1>5, <1>6 DEF LeasesHonoured

\* Leases, budgets, single model calls and holders' results, for every number of jobs, devices,
\* claim ids, faults and ticks.
THEOREM LeasesAreHonoured == ResearchSpec => []LeasesHonoured
  BY ResearchInvariant, ResearchInvSound, PTL

\* An accepted result and a review decision never change.
THEOREM ResultsAreFinal == ResearchSpec => ResultsFinal
<1> DEFINE Kept(j) ==
             /\ job[j].status = "completed" => job'[j].status = "completed" /\ job'[j].result = job[j].result
             /\ job[j].review # "pending" => job'[j].review = job[j].review
           A == \A j \in Jobs : Kept(j)
<1>1. ResearchInv /\ [ResearchNext]_researchVars => [A]_researchVars
  <2> SUFFICES ASSUME ResearchInv, ResearchNext, NEW j \in Jobs PROVE Kept(j)
    BY DEF A
  <2>1. Rows(job) /\ job \in [Jobs -> ResearchJob] /\ \A i \in Jobs : JobOK(i, job[i])
    BY DEF ResearchInv, ServerInv, Rows
  <2>2. CASE UNCHANGED job
    BY <2>2
  <2>3. CASE Enqueue
    BY <2>1, <2>3, ResearchFacts DEF Enqueue
  <2>4. ASSUME NEW i \in Jobs, Cancel(i) \/ Retry(i) \/ Review(i) \/ ImportResult(i) PROVE Kept(j)
    <3>1. CASE Cancel(i)
      BY <2>1, <3>1 DEF Cancel
    <3>2. CASE Retry(i)
      <4>1. job[i].status # "completed" /\ job'[i].review = job[i].review
        BY <2>1, <3>2 DEF Retry, ResearchJob
      <4>2. j # i => job'[j] = job[j]
        BY <2>1, <3>2 DEF Retry
      <4> QED
        BY <4>1, <4>2
    <3>3. CASE Review(i)
      BY <2>1, <3>3 DEF Review, ResearchJob
    <3>4. CASE ImportResult(i)
      <4>1. job[i].status # "completed" /\ job'[i].review = job[i].review
        BY <2>1, <3>4 DEF ImportResult, ResearchJob
      <4>2. j # i => job'[j] = job[j]
        BY <2>1, <3>4 DEF ImportResult
      <4> QED
        BY <4>1, <4>2
    <3> QED
      BY <2>4, <3>1, <3>2, <3>3, <3>4
  <2>5. ASSUME NEW d \in Devices, Revoke(d) PROVE Kept(j)
    BY <2>1, <2>5 DEF Revoke, Running
  <2>6. ASSUME NEW m \in reqs, Handle(m) PROVE Kept(j)
    <3>1. CASE job' = Swept
      BY <2>1, <3>1 DEF Swept, Stale
    <3>2. CASE Queued # {} /\ Lend(m, Min(Queued), Swept)
      <4>1. PICK i \in Queued : i = Min(Queued)
        BY <3>2, OldestQueued
      <4>2. i \in Jobs /\ job[i].status = "queued" /\ Swept[i] = job[i]
        BY <2>1, <4>1, SweptFacts DEF Queued
      <4>3. job'[j].review = Swept[j].review /\ (j # i => job'[j] = Swept[j])
        BY <2>1, <3>2, <4>1, <4>2, SweptFacts DEF Lend, Rows
      <4>4. Swept[j].review = job[j].review /\ (job[j].status = "completed" => Swept[j] = job[j])
        BY <2>1 DEF Swept, Stale
      <4> QED
        BY <4>2, <4>3, <4>4
    <3>3. CASE m.kind = "result" /\ Result(m)
      <4>1. PICK i \in Jobs : i = m.job
        BY <3>3 DEF ResearchInv, BridgeInv, RequestsOK
      <4>2. CASE job' = [job EXCEPT ![i].status = "completed", ![i].result = m.dev] /\ Live(i)
        <5>1. job[i].status # "completed" /\ job'[i].review = job[i].review
          BY <2>1, <4>2 DEF Live, ResearchJob
        <5>2. j # i => job'[j] = job[j]
          BY <2>1, <4>2
        <5> QED
          BY <5>1, <5>2
      <4> QED
        BY <2>2, <3>3, <4>1, <4>2 DEF Result, Refuse
    <3>4. CASE m.kind = "failure" /\ Failure(m)
      <4>1. PICK i \in Jobs : i = m.job
        BY <3>4 DEF ResearchInv, BridgeInv, RequestsOK
      <4> QED
        BY <2>1, <2>2, <3>4, <4>1 DEF Failure, Refuse, ResearchJob
    <3> QED
      BY <2>2, <2>6, <3>1, <3>2, <3>3, <3>4 DEF Handle, Refuse, Claim
  <2>7. CASE ResearchTick
    BY <2>2, <2>7 DEF ResearchTick
  <2>8. ASSUME NEW d \in Devices, NewPairing(d) \/ Pair(d) \/ SendClaim(d) \/ RunModel(d)
                                  \/ SendReport(d) \/ SendResult(d) \/ GiveUp(d)
        PROVE  Kept(j)
    <3>1. UNCHANGED job
      BY <2>8 DEF NewPairing, Pair, SendClaim, RunModel, SendReport, SendResult, GiveUp, server
    <3> QED
      BY <2>2, <3>1
  <2>9. ASSUME NEW d \in Devices, NEW i \in Jobs, Execute(d, i) \/ Release(d, i) PROVE Kept(j)
    <3>1. UNCHANGED job
      BY <2>9 DEF Execute, Release, server
    <3> QED
      BY <2>2, <3>1
  <2> HIDE DEF Kept
  <2> QED
    BY <2>3, <2>4, <2>5, <2>6, <2>7, <2>8, <2>9 DEF ResearchNext
<1> QED
  BY <1>1, ResearchInvariant, PTL DEF ResearchSpec, ResultsFinal, A, Kept
=============================================================================
