--------------------------- MODULE ReceiverProofs ---------------------------
(***************************************************************************)
(* Proofs about the receiver: the generation store of LocalDisplayStore    *)
(* for every set of bundles, every budget and any number of faults, and    *)
(* the two gates in front of it, the replay window of ShadowAuth and the   *)
(* chunked uploads of ChunkStaging.                                        *)
(*                                                                         *)
(* The inductive invariant of the store has two halves.  SInv ties the     *)
(* pointers, the acceptance history, the publication under way and the     *)
(* reader to the files and to what was accepted.  RInv counts: files that  *)
(* no eviction may touch are paid for by faults.                           *)
(***************************************************************************)
EXTENDS LocalDisplayStore, ShadowAuth, ChunkStaging, FiniteSetTheorems, WellFoundedInduction, TLAPS

-----------------------------------------------------------------------------
(* The invariant. *)

\* latest.json is the newest accepted generation, no two accepted ones share a sequence, and
\* nothing accepted lies between the two pointers.
Accepted ==
  /\ latestP = None => accepted = {}
  /\ latestP # None => latestP.b \in accepted
  /\ \A x \in accepted : x.seq <= latestP.b.seq
  /\ \A x, y \in accepted : x.seq = y.seq => x = y

Below(p) == p # None => /\ latestP # None /\ p.b \in accepted /\ p.b \in files
                        /\ \A x \in accepted : x.seq <= p.b.seq \/ x = latestP.b

\* The publication under way is an activation whose latest.json is still to be written.
Activating == job # None /\ ~job.restore /\ job.step # "reply"

\* The local variables of a publication against the store.
EvictOK ==
  Working("target") =>
    /\ job.evict \subseteq files
    /\ \A f \in job.evict : f # job.b /\ \A p \in Pointed : f.seq < p.seq
RestoreOK ==
  job # None /\ job.restore =>
    /\ job.step \in {"target", "reply", "undoTarget"}
    /\ job.b \in accepted
    /\ job.step # "reply" => job.created /\ job.b \notin Pointed
ActivateOK ==
  Activating =>
    /\ latestP # None => latestP.b.seq < job.b.seq
    /\ Below(job.oldPrevious) /\ previousP \in {job.oldPrevious, latestP}
    /\ job.step \in {"target", "previous", "undoTarget"} => previousP = job.oldPrevious
    /\ job.step = "latest" => previousP = latestP
    /\ job.step \in {"previous", "latest"} => job.b \in files
StepOK ==
  /\ Working("target") => job.created = (job.b \notin files)
  /\ Working("reply") => job.b \in accepted
JobOK == EvictOK /\ RestoreOK /\ ActivateOK /\ StepOK

ReaderOK ==
  /\ rd # None => rd \in accepted
  /\ shown # None => shown \in accepted /\ (rd # None => shown.seq <= rd.seq)

SInv == /\ StoreTypeOK /\ PointersBacked /\ HistoryTruthful /\ AckedWasAccepted
        /\ Accepted /\ Below(previousP) /\ JobOK /\ ReaderOK

\* Files of F that no eviction may take besides those that B names.
ExtrasOf(F, B) == {f \in F : f \notin B /\ (B # {} => \E p \in B : p.seq <= f.seq)}

\* The rollback pair as it was when the publication under way began.
BasePrevious == IF Activating THEN job.oldPrevious ELSE previousP
Base == {p.b : p \in {latestP, BasePrevious} \ {None}}

\* A target that is written but not yet activated is no fault.
Slack == IF Activating /\ job.created /\ job.b \in files THEN 1 ELSE 0
Room == IF MaxGenerations > 3 THEN MaxGenerations ELSE 3

ExtrasPaid == Cardinality(ExtrasOf(files, Base)) + junk <= faults + Slack
FilesBounded == Cardinality(files) <= faults + Room
PlanBounded ==
  Working("target") => Cardinality(files \ job.evict) + Extra(job.b) <= faults + Room

RInv == IsFiniteSet(files) /\ ExtrasPaid /\ FilesBounded /\ PlanBounded

-----------------------------------------------------------------------------
(* Lemmas about the operators of _budget_plan. *)

\* Pointed is what the two pointer files name.
LEMMA PointedBundles ==
  ASSUME StoreTypeOK
  PROVE  /\ Pointed \subseteq Bundles
         /\ latestP # None => latestP.b \in Pointed
         /\ previousP # None => previousP.b \in Pointed
         /\ \A x \in Pointed : \/ latestP # None /\ x = latestP.b
                               \/ previousP # None /\ x = previousP.b
BY DEF StoreTypeOK, Pointed, Pointer

\* The cutoff of _budget_plan is the lowest sequence a pointer names.
LEMMA CutoffIsLowest ==
  ASSUME StoreTypeOK, Pointed # {}
  PROVE  /\ Cutoff \in Nat /\ \A x \in Pointed : Cutoff <= x.seq
         /\ \E x \in Pointed : x.seq = Cutoff
<1> DEFINE T == {b.seq : b \in Pointed}
<1>1. T \subseteq Nat
  BY PointedBundles, StoreAssumption
<1>2. \E n \in T : \A b \in Pointed : n <= b.seq
  <2>1. CASE latestP # None /\ previousP # None
    <3> DEFINE l == latestP.b
               p == previousP.b
    <3>1. l \in Pointed /\ p \in Pointed /\ \A x \in Pointed : x = l \/ x = p
      BY <2>1, PointedBundles
    <3>2. l.seq \in Nat /\ p.seq \in Nat /\ l.seq \in T /\ p.seq \in T
      BY <3>1, PointedBundles, StoreAssumption
    <3> HIDE DEF T, l, p
    <3>3. CASE l.seq <= p.seq
      BY <3>1, <3>2, <3>3
    <3>4. CASE p.seq <= l.seq
      BY <3>1, <3>2, <3>4
    <3> QED BY <3>2, <3>3, <3>4
  <2>2. CASE latestP = None \/ previousP = None
    <3>1. PICK x \in Pointed : TRUE
      OBVIOUS
    <3>2. \A y \in Pointed : y = x
      BY <2>2, PointedBundles
    <3>3. x.seq \in T /\ x.seq <= x.seq
      BY <1>1
    <3> QED BY <3>2, <3>3
  <2> QED BY <2>1, <2>2
<1>3. Cutoff = CHOOSE n \in T : \A b \in Pointed : n <= b.seq
  BY DEF Cutoff
<1> QED
  <2> HIDE DEF T
  <2>1. Cutoff \in T /\ \A b \in Pointed : Cutoff <= b.seq
    BY <1>2, <1>3
  <2> QED BY <1>1, <2>1 DEF T

\* The cutoff is the sequence of a pointed generation.
LEMMA CutoffIsPointed ==
  ASSUME StoreTypeOK, Pointed # {}
  PROVE  \E p \in Pointed : p.seq = Cutoff
BY CutoffIsLowest

\* Whatever may be evicted is older than both pointers, and is not the target.
LEMMA ReclaimableIsOld ==
  ASSUME StoreTypeOK, NEW t \in Bundles
  PROVE  /\ EvictionPlan(t) \subseteq Reclaimable(t)
         /\ Reclaimable(t) \subseteq files
         /\ \A f \in Reclaimable(t) : /\ f # t /\ f \notin Pointed /\ Pointed # {}
                                     /\ \A p \in Pointed : f.seq < p.seq
<1>1. ASSUME NEW f \in Reclaimable(t), Pointed = {}
      PROVE  FALSE
  BY <1>1, StoreAssumption DEF Reclaimable, Cutoff, StoreTypeOK
<1>2. ASSUME NEW f \in Reclaimable(t), NEW p \in Pointed
      PROVE  f.seq < p.seq
  <2>1. Cutoff \in Nat /\ Cutoff <= p.seq
    BY CutoffIsLowest
  <2>2. f.seq < Cutoff /\ f \in Bundles /\ p \in Bundles
    BY PointedBundles DEF Reclaimable, StoreTypeOK
  <2> QED BY <2>1, <2>2, StoreAssumption
<1> QED BY <1>1, <1>2 DEF Reclaimable, EvictionPlan

-----------------------------------------------------------------------------
(* SInv is inductive: one lemma per action. *)

\* An accepted generation that neither pointer names is older than both.
LEMMA AcceptedIsOld ==
  ASSUME StoreTypeOK, Accepted, Below(previousP), NEW x \in accepted, x \notin Pointed
  PROVE  \A p \in Pointed : x.seq < p.seq
<1> SUFFICES ASSUME NEW p \in Pointed PROVE x.seq < p.seq
  OBVIOUS
<1>1. x \in Bundles /\ p \in Bundles /\ x.seq \in Nat /\ p.seq \in Nat
  BY PointedBundles, StoreAssumption DEF StoreTypeOK
<1>2. p \in accepted /\ x.seq <= p.seq
  BY PointedBundles DEF Accepted, Below
<1> QED BY <1>1, <1>2 DEF Accepted

\* SInv is preserved by Reacknowledge.
LEMMA SInvReacknowledge ==
  ASSUME SInv, NEW b \in Bundles, Reacknowledge(b)
  PROVE  SInv'
<1>1. StoreTypeOK'
  BY StoreAssumption DEF SInv, Reacknowledge, pointers, reader, StoreTypeOK, Pointer, Job, Working
<1>2. PointersBacked'
  BY DEF SInv, Reacknowledge, pointers, reader, PointersBacked
<1>3. HistoryTruthful'
  BY DEF SInv, Reacknowledge, pointers, reader, HistoryTruthful
<1>4. AckedWasAccepted'
  BY PointedBundles DEF SInv, Reacknowledge, pointers, reader, JobOK, AckedWasAccepted, HistoryTruthful, Accepted
<1>5. Accepted'
  BY DEF SInv, Reacknowledge, pointers, reader, Accepted
<1>6. Below(previousP)'
  BY DEF SInv, Reacknowledge, pointers, reader, Below
<1>7. EvictOK'
  BY DEF SInv, Reacknowledge, pointers, reader, JobOK, EvictOK, Working, Pointed
<1>8. RestoreOK'
  BY DEF SInv, Reacknowledge, pointers, reader, JobOK, RestoreOK, Pointed
<1>9. ActivateOK'
  BY DEF SInv, Reacknowledge, pointers, reader, JobOK, ActivateOK, Activating, Below
<1>10. StepOK'
  BY DEF SInv, Reacknowledge, pointers, reader, JobOK, StepOK, Working
<1>11. ReaderOK'
  BY DEF SInv, Reacknowledge, pointers, reader, ReaderOK
<1> QED BY <1>1, <1>2, <1>3, <1>4, <1>5, <1>6, <1>7, <1>8, <1>9, <1>10, <1>11 DEF SInv, JobOK

\* SInv is preserved by BeginRestore.
LEMMA SInvBeginRestore ==
  ASSUME SInv, NEW b \in Bundles, BeginRestore(b)
  PROVE  SInv'
<1>1. StoreTypeOK'
  BY ReclaimableIsOld, StoreAssumption DEF SInv, BeginRestore, StartJob, pointers, reader, StoreTypeOK, Pointer, Job, Working
<1>2. PointersBacked'
  BY DEF SInv, BeginRestore, StartJob, pointers, reader, PointersBacked
<1>3. HistoryTruthful'
  BY DEF SInv, BeginRestore, StartJob, pointers, reader, HistoryTruthful
<1>4. AckedWasAccepted'
  BY DEF SInv, BeginRestore, StartJob, pointers, reader, AckedWasAccepted
<1>5. Accepted'
  BY DEF SInv, BeginRestore, StartJob, pointers, reader, Accepted
<1>6. Below(previousP)'
  BY DEF SInv, BeginRestore, StartJob, pointers, reader, Below
<1>7. EvictOK'
  BY ReclaimableIsOld DEF SInv, BeginRestore, StartJob, pointers, reader, JobOK, EvictOK, Working, Pointed
<1>8. RestoreOK'
  BY DEF SInv, BeginRestore, StartJob, pointers, reader, JobOK, RestoreOK, HistoryTruthful, PointersBacked, Pointed
<1>9. ActivateOK'
  BY DEF SInv, BeginRestore, StartJob, pointers, reader, JobOK, ActivateOK, Activating
<1>10. StepOK'
  BY DEF SInv, BeginRestore, StartJob, pointers, reader, JobOK, StepOK, Working
<1>11. ReaderOK'
  BY DEF SInv, BeginRestore, StartJob, pointers, reader, ReaderOK
<1> QED BY <1>1, <1>2, <1>3, <1>4, <1>5, <1>6, <1>7, <1>8, <1>9, <1>10, <1>11 DEF SInv, JobOK

\* SInv is preserved by BeginActivate.
LEMMA SInvBeginActivate ==
  ASSUME SInv, NEW b \in Bundles, BeginActivate(b)
  PROVE  SInv'
<1>1. StoreTypeOK'
  BY ReclaimableIsOld, StoreAssumption DEF SInv, BeginActivate, StartJob, pointers, reader, StoreTypeOK, Pointer, Job, Working
<1>2. PointersBacked'
  BY DEF SInv, BeginActivate, StartJob, pointers, reader, PointersBacked
<1>3. HistoryTruthful'
  BY DEF SInv, BeginActivate, StartJob, pointers, reader, HistoryTruthful
<1>4. AckedWasAccepted'
  BY DEF SInv, BeginActivate, StartJob, pointers, reader, AckedWasAccepted
<1>5. Accepted'
  BY DEF SInv, BeginActivate, StartJob, pointers, reader, Accepted
<1>6. Below(previousP)'
  BY DEF SInv, BeginActivate, StartJob, pointers, reader, Below
<1>7. EvictOK'
  BY ReclaimableIsOld DEF SInv, BeginActivate, StartJob, pointers, reader, JobOK, EvictOK, Working, Pointed
<1>8. RestoreOK'
  BY DEF SInv, BeginActivate, StartJob, pointers, reader, JobOK, RestoreOK
<1>9. ActivateOK'
  BY DEF SInv, BeginActivate, StartJob, pointers, reader, JobOK, ActivateOK, Activating, Below
<1>10. StepOK'
  BY DEF SInv, BeginActivate, StartJob, pointers, reader, JobOK, StepOK, Working
<1>11. ReaderOK'
  BY DEF SInv, BeginActivate, StartJob, pointers, reader, ReaderOK
<1> QED BY <1>1, <1>2, <1>3, <1>4, <1>5, <1>6, <1>7, <1>8, <1>9, <1>10, <1>11 DEF SInv, JobOK

\* SInv is preserved by Evict.
LEMMA SInvEvict ==
  ASSUME SInv, Evict
  PROVE  SInv'
<1>0. /\ job # None /\ job.step = "target" /\ job' # None
      /\ job'.b = job.b /\ job'.restore = job.restore /\ job'.step = job.step
      /\ job'.created = job.created /\ job'.oldPrevious = job.oldPrevious
  BY StoreAssumption DEF SInv, Evict, Working, StoreTypeOK, Job
<1>e. files' \subseteq files /\ \A x \in files \ files' : x \in job.evict
  BY DEF Evict
<1>f. \A p \in Pointed : p \in files => p \in files'
  BY <1>0, <1>e, PointedBundles, StoreAssumption DEF SInv, JobOK, EvictOK, Working, StoreTypeOK
<1>1. StoreTypeOK'
  BY StoreAssumption DEF SInv, Evict, pointers, reader, StoreTypeOK, Pointer, Job, Working
<1>2. PointersBacked'
  BY <1>f, PointedBundles DEF SInv, Evict, pointers, reader, JobOK, PointersBacked
<1>3. HistoryTruthful'
  BY DEF SInv, Evict, pointers, reader, HistoryTruthful
<1>4. AckedWasAccepted'
  BY DEF SInv, Evict, pointers, reader, AckedWasAccepted
<1>5. Accepted'
  BY DEF SInv, Evict, pointers, reader, Accepted
<1>6. Below(previousP)'
  BY <1>f, PointedBundles DEF SInv, Evict, pointers, reader, JobOK, Below
<1>7. EvictOK'
  BY DEF SInv, Evict, pointers, reader, JobOK, EvictOK, Working, Pointed, Older, StoreTypeOK, Pointer, Job
<1>8. RestoreOK'
  BY <1>0 DEF SInv, Evict, pointers, reader, JobOK, RestoreOK, Pointed
<1>9. ActivateOK'
  BY <1>0, <1>f, PointedBundles DEF SInv, Evict, pointers, reader, JobOK, ActivateOK, Activating, Below
<1>10. StepOK'
  BY DEF SInv, Evict, pointers, reader, JobOK, StepOK, Working, EvictOK, StoreTypeOK, Pointer, Job
<1>11. ReaderOK'
  BY DEF SInv, Evict, pointers, reader, ReaderOK
<1> QED BY <1>1, <1>2, <1>3, <1>4, <1>5, <1>6, <1>7, <1>8, <1>9, <1>10, <1>11 DEF SInv, JobOK

\* SInv is preserved by WriteTarget.
LEMMA SInvWriteTarget ==
  ASSUME SInv, WriteTarget
  PROVE  SInv'
<1>1. StoreTypeOK'
  BY StoreAssumption DEF SInv, WriteTarget, pointers, reader, StoreTypeOK, Pointer, Job, Working
<1>2. PointersBacked'
  BY DEF SInv, WriteTarget, pointers, reader, JobOK, PointersBacked
<1>3. HistoryTruthful'
  BY DEF SInv, WriteTarget, pointers, reader, HistoryTruthful
<1>4. AckedWasAccepted'
  BY DEF SInv, WriteTarget, pointers, reader, AckedWasAccepted
<1>5. Accepted'
  BY DEF SInv, WriteTarget, pointers, reader, Accepted
<1>6. Below(previousP)'
  BY DEF SInv, WriteTarget, pointers, reader, JobOK, Below
<1>7. EvictOK'
  BY DEF SInv, WriteTarget, pointers, reader, JobOK, EvictOK, Working, StoreTypeOK, Pointer, Job
<1>8. RestoreOK'
  BY DEF SInv, WriteTarget, pointers, reader, JobOK, RestoreOK, Pointed, Working, StoreTypeOK, Pointer, Job
<1>9. ActivateOK'
  BY DEF SInv, WriteTarget, pointers, reader, JobOK, ActivateOK, Activating, Below, Working, StoreTypeOK, Pointer, Job
<1>10. StepOK'
  BY DEF SInv, WriteTarget, pointers, reader, JobOK, StepOK, RestoreOK, Working, StoreTypeOK, Pointer, Job
<1>11. ReaderOK'
  BY DEF SInv, WriteTarget, pointers, reader, ReaderOK
<1> QED BY <1>1, <1>2, <1>3, <1>4, <1>5, <1>6, <1>7, <1>8, <1>9, <1>10, <1>11 DEF SInv, JobOK

\* SInv is preserved by WritePrevious.
LEMMA SInvWritePrevious ==
  ASSUME SInv, WritePrevious
  PROVE  SInv'
<1>1. StoreTypeOK'
  BY StoreAssumption DEF SInv, WritePrevious, pointers, reader, StoreTypeOK, Pointer, Job, Working
<1>2. PointersBacked'
  BY DEF SInv, WritePrevious, pointers, reader, JobOK, PointersBacked
<1>3. HistoryTruthful'
  BY DEF SInv, WritePrevious, pointers, reader, JobOK, HistoryTruthful, Accepted
<1>4. AckedWasAccepted'
  BY DEF SInv, WritePrevious, pointers, reader, AckedWasAccepted
<1>5. Accepted'
  BY DEF SInv, WritePrevious, pointers, reader, Accepted
<1>6. Below(previousP)'
  BY DEF SInv, WritePrevious, pointers, reader, JobOK, Below, Accepted, PointersBacked
<1>7. EvictOK'
  BY DEF SInv, WritePrevious, pointers, reader, JobOK, EvictOK, Working, StoreTypeOK, Pointer, Job
<1>8. RestoreOK'
  BY DEF SInv, WritePrevious, pointers, reader, JobOK, RestoreOK, Working, StoreTypeOK, Pointer, Job
<1>9. ActivateOK'
  BY DEF SInv, WritePrevious, pointers, reader, JobOK, ActivateOK, Activating, Below, Working, StoreTypeOK, Pointer, Job
<1>10. StepOK'
  BY DEF SInv, WritePrevious, pointers, reader, JobOK, StepOK, Working, StoreTypeOK, Pointer, Job
<1>11. ReaderOK'
  BY DEF SInv, WritePrevious, pointers, reader, ReaderOK
<1> QED BY <1>1, <1>2, <1>3, <1>4, <1>5, <1>6, <1>7, <1>8, <1>9, <1>10, <1>11 DEF SInv, JobOK

\* SInv is preserved by WriteLatest.
LEMMA SInvWriteLatest ==
  ASSUME SInv, WriteLatest
  PROVE  SInv'
<1>0. /\ ~job.restore /\ previousP = latestP /\ job.b \in files
      /\ latestP # None => latestP.b.seq < job.b.seq
  BY DEF SInv, JobOK, RestoreOK, ActivateOK, Activating, WriteLatest, Working
<1>a. /\ job.b.seq \in Nat
      /\ \A x \in accepted : /\ x.seq \in Nat /\ x.seq < job.b.seq
                            /\ latestP # None /\ x.seq <= latestP.b.seq
  BY <1>0, StoreAssumption DEF SInv, Accepted, WriteLatest, Working, StoreTypeOK, Pointer, Job
<1>h. /\ latestP'.history \subseteq accepted \cup {job.b}
      /\ job.b \in latestP'.history /\ latestP'.b = job.b
      /\ \A h \in latestP'.history : h.seq <= job.b.seq
  <2> DEFINE H == (IF latestP = None THEN {} ELSE latestP.history) \cup {job.b}
  <2>1. latestP' = [b |-> job.b, history |-> Newest(H, HistoryLimit)]
    BY DEF WriteLatest
  <2>2. H \subseteq accepted \cup {job.b} /\ H \subseteq Bundles /\ job.b \in Bundles
    BY DEF SInv, HistoryTruthful, WriteLatest, Working, StoreTypeOK, Pointer, Job
  <2>3. \A h \in H : h.seq <= job.b.seq
    BY <1>0, <2>2, StoreAssumption DEF SInv, HistoryTruthful, StoreTypeOK, Pointer
  <2>4. {y \in H : y.seq > job.b.seq} = {}
    BY <2>2, <2>3, StoreAssumption
  <2> HIDE DEF H
  <2>5. job.b \in H
    BY DEF H
  <2> DEFINE G == {y \in H : y.seq > job.b.seq}
  <2>7. Cardinality(G) < HistoryLimit
    <3>1. G = {}
      BY <2>4
    <3> HIDE DEF G
    <3> QED BY <3>1, FS_EmptySet, StoreAssumption
  <2>6. job.b \in Newest(H, HistoryLimit)
    BY <2>5, <2>7 DEF Newest
  <2> QED BY <2>1, <2>2, <2>3, <2>6 DEF Newest
<1>l. latestP' # None
  BY <1>h, StoreAssumption DEF SInv, WriteLatest, Working, StoreTypeOK, Pointer, Job, HistoryTruthful
<1>1. StoreTypeOK'
  BY <1>h, StoreAssumption DEF SInv, WriteLatest, pointers, reader, StoreTypeOK, Pointer, Job, Working, Newest, HistoryTruthful
<1>2. PointersBacked'
  BY <1>0, StoreAssumption DEF SInv, WriteLatest, pointers, reader, JobOK, PointersBacked, Pointer, StoreTypeOK, Pointer, Job
<1>3. HistoryTruthful'
  BY <1>0, <1>h, StoreAssumption DEF SInv, WriteLatest, pointers, reader, JobOK, HistoryTruthful, StoreTypeOK, Pointer, Job
<1>4. AckedWasAccepted'
  BY DEF SInv, WriteLatest, pointers, reader, JobOK, AckedWasAccepted
<1>5. Accepted'
  BY <1>a, <1>h, <1>l DEF SInv, WriteLatest, pointers, reader, JobOK, Accepted
<1>6. Below(previousP)'
  BY <1>0, <1>a, <1>h, <1>1, StoreAssumption DEF SInv, WriteLatest, pointers, reader, JobOK, Below, Accepted, PointersBacked, StoreTypeOK, Pointer, Job
<1>7. EvictOK'
  BY DEF SInv, WriteLatest, pointers, reader, JobOK, EvictOK, Working, StoreTypeOK, Pointer, Job
<1>8. RestoreOK'
  BY <1>0 DEF SInv, WriteLatest, pointers, reader, JobOK, RestoreOK, Working, StoreTypeOK, Pointer, Job
<1>9. ActivateOK'
  BY DEF SInv, WriteLatest, pointers, reader, JobOK, ActivateOK, Activating, Working, StoreTypeOK, Pointer, Job
<1>10. StepOK'
  BY DEF SInv, WriteLatest, pointers, reader, JobOK, StepOK, Working, StoreTypeOK, Pointer, Job
<1>11. ReaderOK'
  BY DEF SInv, WriteLatest, pointers, reader, JobOK, ReaderOK
<1> QED BY <1>1, <1>2, <1>3, <1>4, <1>5, <1>6, <1>7, <1>8, <1>9, <1>10, <1>11 DEF SInv, JobOK

\* SInv is preserved by Reply.
LEMMA SInvReply ==
  ASSUME SInv, Reply
  PROVE  SInv'
<1>1. StoreTypeOK'
  BY StoreAssumption DEF SInv, Reply, pointers, reader, StoreTypeOK, Pointer, Job, Working
<1>2. PointersBacked'
  BY DEF SInv, Reply, pointers, reader, PointersBacked
<1>3. HistoryTruthful'
  BY DEF SInv, Reply, pointers, reader, HistoryTruthful
<1>4. AckedWasAccepted'
  BY DEF SInv, Reply, pointers, reader, JobOK, AckedWasAccepted, StepOK
<1>5. Accepted'
  BY DEF SInv, Reply, pointers, reader, Accepted
<1>6. Below(previousP)'
  BY DEF SInv, Reply, pointers, reader, Below
<1>7. EvictOK'
  BY DEF Reply, EvictOK, Working, Pointed
<1>8. RestoreOK'
  BY DEF Reply, RestoreOK, Pointed
<1>9. ActivateOK'
  BY DEF Reply, ActivateOK, Activating, Below
<1>10. StepOK'
  BY DEF Reply, StepOK, Working
<1>11. ReaderOK'
  BY DEF SInv, Reply, pointers, reader, ReaderOK
<1> QED BY <1>1, <1>2, <1>3, <1>4, <1>5, <1>6, <1>7, <1>8, <1>9, <1>10, <1>11 DEF SInv, JobOK

\* SInv is preserved by WriteFails.
LEMMA SInvWriteFails ==
  ASSUME SInv, WriteFails
  PROVE  SInv'
<1>1. StoreTypeOK'
  BY StoreAssumption DEF SInv, WriteFails, Fault, pointers, reader, StoreTypeOK, Pointer, Job, Working
<1>2. PointersBacked'
  BY DEF SInv, WriteFails, Fault, pointers, reader, PointersBacked
<1>3. HistoryTruthful'
  BY DEF SInv, WriteFails, Fault, pointers, reader, HistoryTruthful
<1>4. AckedWasAccepted'
  BY DEF SInv, WriteFails, Fault, pointers, reader, AckedWasAccepted
<1>5. Accepted'
  BY DEF SInv, WriteFails, Fault, pointers, reader, Accepted
<1>6. Below(previousP)'
  BY DEF SInv, WriteFails, Fault, pointers, reader, Below
<1>7. EvictOK'
  BY DEF SInv, WriteFails, Fault, pointers, reader, JobOK, EvictOK, Working, StoreTypeOK, Pointer, Job
<1>8. RestoreOK'
  BY DEF SInv, WriteFails, Fault, pointers, reader, JobOK, RestoreOK, Pointed, Working, StoreTypeOK, Pointer, Job
<1>9. ActivateOK'
  BY DEF SInv, WriteFails, Fault, pointers, reader, JobOK, ActivateOK, Activating, Below, Working, StoreTypeOK, Pointer, Job
<1>10. StepOK'
  BY DEF SInv, WriteFails, Fault, pointers, reader, JobOK, StepOK, Working, StoreTypeOK, Pointer, Job
<1>11. ReaderOK'
  BY DEF SInv, WriteFails, Fault, pointers, reader, ReaderOK
<1> QED BY <1>1, <1>2, <1>3, <1>4, <1>5, <1>6, <1>7, <1>8, <1>9, <1>10, <1>11 DEF SInv, JobOK

\* SInv is preserved by UndoPrevious.
LEMMA SInvUndoPrevious ==
  ASSUME SInv, UndoPrevious
  PROVE  SInv'
<1>0. ~job.restore /\ Below(job.oldPrevious) /\ (latestP # None => latestP.b.seq < job.b.seq)
  BY DEF SInv, JobOK, RestoreOK, ActivateOK, Activating, UndoPrevious, Working
<1>1. StoreTypeOK'
  BY StoreAssumption DEF SInv, UndoPrevious, pointers, reader, StoreTypeOK, Pointer, Job, Working
<1>2. PointersBacked'
  BY <1>0 DEF SInv, UndoPrevious, pointers, reader, JobOK, PointersBacked, Below
<1>3. HistoryTruthful'
  BY <1>0 DEF SInv, UndoPrevious, pointers, reader, JobOK, HistoryTruthful, Below
<1>4. AckedWasAccepted'
  BY DEF SInv, UndoPrevious, pointers, reader, AckedWasAccepted
<1>5. Accepted'
  BY DEF SInv, UndoPrevious, pointers, reader, Accepted
<1>6. Below(previousP)'
  BY <1>0 DEF SInv, UndoPrevious, pointers, reader, JobOK, Below
<1>7. EvictOK'
  BY DEF SInv, UndoPrevious, pointers, reader, JobOK, EvictOK, Working, StoreTypeOK, Pointer, Job
<1>8. RestoreOK'
  BY <1>0 DEF SInv, UndoPrevious, pointers, reader, JobOK, RestoreOK, Working, StoreTypeOK, Pointer, Job
<1>9. ActivateOK'
  BY <1>0 DEF SInv, UndoPrevious, pointers, reader, JobOK, ActivateOK, Activating, Below, Working, StoreTypeOK, Pointer, Job
<1>10. StepOK'
  BY DEF SInv, UndoPrevious, pointers, reader, JobOK, StepOK, Working, StoreTypeOK, Pointer, Job
<1>11. ReaderOK'
  BY DEF SInv, UndoPrevious, pointers, reader, ReaderOK
<1> QED BY <1>1, <1>2, <1>3, <1>4, <1>5, <1>6, <1>7, <1>8, <1>9, <1>10, <1>11 DEF SInv, JobOK

\* SInv is preserved by UndoTarget.
LEMMA SInvUndoTarget ==
  ASSUME SInv, UndoTarget
  PROVE  SInv'
<1>0. /\ latestP # None => latestP.b # job.b
      /\ previousP # None => previousP.b # job.b
  <2>1. CASE job.restore
    BY <2>1 DEF SInv, JobOK, RestoreOK, UndoTarget, Working, Pointed
  <2>2. CASE ~job.restore
    <3>1. latestP # None => latestP.b.seq < job.b.seq
      BY <2>2 DEF SInv, JobOK, ActivateOK, Activating, UndoTarget, Working
    <3>2. previousP # None => latestP # None /\ previousP.b \in accepted
                             /\ previousP.b.seq <= latestP.b.seq
      BY DEF SInv, Below, Accepted
    <3> QED BY <3>1, <3>2, StoreAssumption DEF SInv, UndoTarget, Working, StoreTypeOK, Pointer, Job
  <2> QED BY <2>1, <2>2
<1>1. StoreTypeOK'
  BY StoreAssumption DEF SInv, UndoTarget, pointers, reader, StoreTypeOK, Pointer, Job, Working
<1>2. PointersBacked'
  BY <1>0 DEF SInv, UndoTarget, pointers, reader, JobOK, PointersBacked
<1>3. HistoryTruthful'
  BY DEF SInv, UndoTarget, pointers, reader, HistoryTruthful
<1>4. AckedWasAccepted'
  BY DEF SInv, UndoTarget, pointers, reader, AckedWasAccepted
<1>5. Accepted'
  BY DEF SInv, UndoTarget, pointers, reader, Accepted
<1>6. Below(previousP)'
  BY <1>0 DEF SInv, UndoTarget, pointers, reader, JobOK, Below
<1>7. EvictOK'
  BY DEF UndoTarget, EvictOK, Working, Pointed
<1>8. RestoreOK'
  BY DEF UndoTarget, RestoreOK, Pointed
<1>9. ActivateOK'
  BY DEF UndoTarget, ActivateOK, Activating, Below
<1>10. StepOK'
  BY DEF UndoTarget, StepOK, Working
<1>11. ReaderOK'
  BY DEF SInv, UndoTarget, pointers, reader, ReaderOK
<1> QED BY <1>1, <1>2, <1>3, <1>4, <1>5, <1>6, <1>7, <1>8, <1>9, <1>10, <1>11 DEF SInv, JobOK

\* SInv is preserved by UndoFails.
LEMMA SInvUndoFails ==
  ASSUME SInv, UndoFails
  PROVE  SInv'
<1>1. StoreTypeOK'
  BY StoreAssumption DEF SInv, UndoFails, Fault, pointers, reader, StoreTypeOK, Pointer, Job, Working
<1>2. PointersBacked'
  BY DEF SInv, UndoFails, Fault, pointers, reader, PointersBacked
<1>3. HistoryTruthful'
  BY DEF SInv, UndoFails, Fault, pointers, reader, HistoryTruthful
<1>4. AckedWasAccepted'
  BY DEF SInv, UndoFails, Fault, pointers, reader, AckedWasAccepted
<1>5. Accepted'
  BY DEF SInv, UndoFails, Fault, pointers, reader, Accepted
<1>6. Below(previousP)'
  BY DEF SInv, UndoFails, Fault, pointers, reader, Below
<1>7. EvictOK'
  BY DEF UndoFails, EvictOK, Working, Pointed
<1>8. RestoreOK'
  BY DEF UndoFails, RestoreOK, Pointed
<1>9. ActivateOK'
  BY DEF UndoFails, ActivateOK, Activating, Below
<1>10. StepOK'
  BY DEF UndoFails, StepOK, Working
<1>11. ReaderOK'
  BY DEF SInv, UndoFails, Fault, pointers, reader, ReaderOK
<1> QED BY <1>1, <1>2, <1>3, <1>4, <1>5, <1>6, <1>7, <1>8, <1>9, <1>10, <1>11 DEF SInv, JobOK

\* SInv is preserved by Crash.
LEMMA SInvCrash ==
  ASSUME SInv, Crash
  PROVE  SInv'
<1>1. StoreTypeOK'
  BY StoreAssumption DEF SInv, Crash, Fault, pointers, reader, StoreTypeOK, Pointer, Job, Working
<1>2. PointersBacked'
  BY DEF SInv, Crash, Fault, pointers, reader, PointersBacked
<1>3. HistoryTruthful'
  BY DEF SInv, Crash, Fault, pointers, reader, HistoryTruthful
<1>4. AckedWasAccepted'
  BY DEF SInv, Crash, Fault, pointers, reader, AckedWasAccepted
<1>5. Accepted'
  BY DEF SInv, Crash, Fault, pointers, reader, Accepted
<1>6. Below(previousP)'
  BY DEF SInv, Crash, Fault, pointers, reader, Below
<1>7. EvictOK'
  BY DEF Crash, EvictOK, Working, Pointed
<1>8. RestoreOK'
  BY DEF Crash, RestoreOK, Pointed
<1>9. ActivateOK'
  BY DEF Crash, ActivateOK, Activating, Below
<1>10. StepOK'
  BY DEF Crash, StepOK, Working
<1>11. ReaderOK'
  BY DEF SInv, Crash, Fault, pointers, reader, ReaderOK
<1> QED BY <1>1, <1>2, <1>3, <1>4, <1>5, <1>6, <1>7, <1>8, <1>9, <1>10, <1>11 DEF SInv, JobOK

\* SInv is preserved by ReadPointer.
LEMMA SInvReadPointer ==
  ASSUME SInv, ReadPointer
  PROVE  SInv'
<1>1. StoreTypeOK'
  BY StoreAssumption DEF SInv, ReadPointer, pointers, reader, StoreTypeOK, Pointer, Job, Working
<1>2. PointersBacked'
  BY DEF SInv, ReadPointer, pointers, reader, PointersBacked
<1>3. HistoryTruthful'
  BY DEF SInv, ReadPointer, pointers, reader, HistoryTruthful
<1>4. AckedWasAccepted'
  BY DEF SInv, ReadPointer, pointers, reader, AckedWasAccepted
<1>5. Accepted'
  BY DEF SInv, ReadPointer, pointers, reader, Accepted
<1>6. Below(previousP)'
  BY DEF SInv, ReadPointer, pointers, reader, Below
<1>7. EvictOK'
  BY DEF SInv, ReadPointer, pointers, reader, JobOK, EvictOK, Working, Pointed
<1>8. RestoreOK'
  BY DEF SInv, ReadPointer, pointers, reader, JobOK, RestoreOK, Pointed
<1>9. ActivateOK'
  BY DEF SInv, ReadPointer, pointers, reader, JobOK, ActivateOK, Activating, Below
<1>10. StepOK'
  BY DEF SInv, ReadPointer, pointers, reader, JobOK, StepOK, Working
<1>11. ReaderOK'
  BY DEF SInv, ReadPointer, pointers, reader, JobOK, ReaderOK, Accepted
<1> QED BY <1>1, <1>2, <1>3, <1>4, <1>5, <1>6, <1>7, <1>8, <1>9, <1>10, <1>11 DEF SInv, JobOK

\* SInv is preserved by ReadFile.
LEMMA SInvReadFile ==
  ASSUME SInv, ReadFile
  PROVE  SInv'
<1>1. StoreTypeOK'
  BY StoreAssumption DEF SInv, ReadFile, pointers, reader, StoreTypeOK, Pointer, Job, Working
<1>2. PointersBacked'
  BY DEF SInv, ReadFile, pointers, reader, PointersBacked
<1>3. HistoryTruthful'
  BY DEF SInv, ReadFile, pointers, reader, HistoryTruthful
<1>4. AckedWasAccepted'
  BY DEF SInv, ReadFile, pointers, reader, AckedWasAccepted
<1>5. Accepted'
  BY DEF SInv, ReadFile, pointers, reader, Accepted
<1>6. Below(previousP)'
  BY DEF SInv, ReadFile, pointers, reader, Below
<1>7. EvictOK'
  BY DEF SInv, ReadFile, pointers, reader, JobOK, EvictOK, Working, Pointed
<1>8. RestoreOK'
  BY DEF SInv, ReadFile, pointers, reader, JobOK, RestoreOK, Pointed
<1>9. ActivateOK'
  BY DEF SInv, ReadFile, pointers, reader, JobOK, ActivateOK, Activating, Below
<1>10. StepOK'
  BY DEF SInv, ReadFile, pointers, reader, JobOK, StepOK, Working
<1>11. ReaderOK'
  BY DEF SInv, ReadFile, pointers, reader, JobOK, ReaderOK
<1> QED BY <1>1, <1>2, <1>3, <1>4, <1>5, <1>6, <1>7, <1>8, <1>9, <1>10, <1>11 DEF SInv, JobOK

\* SInv is preserved by Cutover.
LEMMA SInvCutover ==
  ASSUME SInv, Cutover
  PROVE  SInv'
<1>1. StoreTypeOK'
  BY StoreAssumption DEF SInv, Cutover, pointers, reader, StoreTypeOK, Pointer, Job, Working
<1>2. PointersBacked'
  BY DEF SInv, Cutover, pointers, reader, PointersBacked
<1>3. HistoryTruthful'
  BY DEF SInv, Cutover, pointers, reader, HistoryTruthful
<1>4. AckedWasAccepted'
  BY DEF SInv, Cutover, pointers, reader, AckedWasAccepted
<1>5. Accepted'
  BY DEF SInv, Cutover, pointers, reader, Accepted
<1>6. Below(previousP)'
  BY DEF SInv, Cutover, pointers, reader, Below
<1>7. EvictOK'
  BY DEF SInv, Cutover, pointers, reader, JobOK, EvictOK, Working, Pointed
<1>8. RestoreOK'
  BY DEF SInv, Cutover, pointers, reader, JobOK, RestoreOK, Pointed
<1>9. ActivateOK'
  BY DEF SInv, Cutover, pointers, reader, JobOK, ActivateOK, Activating, Below
<1>10. StepOK'
  BY DEF SInv, Cutover, pointers, reader, JobOK, StepOK, Working
<1>11. ReaderOK'
  BY DEF SInv, Cutover, pointers, reader, ReaderOK
<1> QED BY <1>1, <1>2, <1>3, <1>4, <1>5, <1>6, <1>7, <1>8, <1>9, <1>10, <1>11 DEF SInv, JobOK

-----------------------------------------------------------------------------
(* The eviction plan. *)

\* The plan of _budget_plan either takes every reclaimable generation or meets both budgets:
\* it goes oldest first and stops only when enough is gone.
LEMMA PlanSuffices ==
  ASSUME StoreTypeOK, IsFiniteSet(files), NEW t \in Bundles
  PROVE  \/ EvictionPlan(t) = Reclaimable(t)
         \/ /\ Used + Extra(t) - Cardinality(EvictionPlan(t)) <= Capacity
            /\ Cardinality(files) + Extra(t) - Cardinality(EvictionPlan(t)) <= MaxGenerations
<1> DEFINE R == Reclaimable(t)
           P == EvictionPlan(t)
           G(f) == {g \in R : Older(g, f)}
           T == {Cardinality(G(f)) : f \in R \ P}
<1>1. P \subseteq R /\ R \subseteq files /\ R \subseteq Bundles
  BY ReclaimableIsOld DEF StoreTypeOK
<1>2. IsFiniteSet(R) /\ IsFiniteSet(P) /\ Cardinality(P) \in Nat
  BY <1>1, FS_Subset, FS_CardinalityType
<1>3. \A f \in R : IsFiniteSet(G(f)) /\ Cardinality(G(f)) \in Nat
  <2> TAKE f \in R
  <2>1. G(f) \in SUBSET R
    OBVIOUS
  <2> HIDE DEF G
  <2> QED BY <1>2, <2>1, FS_Subset, FS_CardinalityType
<1> SUFFICES ASSUME P # R
             PROVE  /\ Used + Extra(t) - Cardinality(P) <= Capacity
                    /\ Cardinality(files) + Extra(t) - Cardinality(P) <= MaxGenerations
  OBVIOUS
<1>4. PICK f \in R \ P : \A g \in R \ P : ~(Cardinality(G(g)) < Cardinality(G(f)))
  <2>1. T \subseteq Nat /\ T # {}
    BY <1>1, <1>3
  <2> HIDE DEF T
  <2>2. PICK x \in T : \A y \in T : ~(<<y, x>> \in OpToRel(<, Nat))
    BY <2>1, NatLessThanWellFounded, WFMin
  <2>3. \A y \in T : ~(y < x)
    BY <2>1, <2>2 DEF OpToRel
  <2> QED BY <2>3 DEF T
<1>5. G(f) \subseteq P
  <2> SUFFICES ASSUME NEW g \in G(f), g \notin P PROVE FALSE
    OBVIOUS
  <2>1. g \in R \ P /\ g \in Bundles /\ f \in Bundles
    BY <1>1
  <2>2. G(g) \subseteq G(f) /\ g \notin G(g)
    BY <1>1, <2>1, StoreAssumption DEF Older
  <2>3. Cardinality(G(g)) <= Cardinality(G(f)) /\ Cardinality(G(g)) # Cardinality(G(f))
    <3>1. G(g) \in SUBSET G(f) /\ IsFiniteSet(G(f)) /\ G(g) # G(f)
      BY <1>3, <2>2
    <3> HIDE DEF G
    <3> QED BY <3>1, FS_Subset
  <2>4. Cardinality(G(g)) \in Nat /\ Cardinality(G(f)) \in Nat
    BY <1>3, <2>1
  <2> HIDE DEF G, R, P
  <2> QED BY <1>4, <2>1, <2>3, <2>4
<1>6. Cardinality(G(f)) <= Cardinality(P)
  <2> HIDE DEF G, P
  <2> QED BY <1>2, <1>5, FS_Subset
<1>7. /\ ~(Used + Extra(t) - Cardinality(G(f)) > Capacity)
      /\ ~(Cardinality(files) + Extra(t) - Cardinality(G(f)) > MaxGenerations)
  BY <1>4 DEF EvictionPlan
<1>8. /\ Used \in Nat /\ Cardinality(files) \in Nat /\ Extra(t) \in Nat
      /\ Cardinality(G(f)) \in Nat /\ Cardinality(P) \in Nat
      /\ Capacity \in Nat /\ MaxGenerations \in Nat
  BY <1>2, <1>3, <1>4, FS_CardinalityType, StoreAssumption DEF StoreTypeOK, Used, Extra
<1> HIDE DEF G, R, P
<1> QED BY <1>6, <1>7, <1>8

\* One element more.
LEMMA OneMore ==
  ASSUME NEW S, NEW x, IsFiniteSet(S)
  PROVE  /\ IsFiniteSet(S \cup {x})
         /\ Cardinality(S) \in Nat /\ Cardinality(S \cup {x}) \in Nat
         /\ Cardinality(S \cup {x}) <= Cardinality(S) + 1
         /\ x \in S => Cardinality(S \cup {x}) = Cardinality(S)
         /\ x \notin S => Cardinality(S \cup {x}) = Cardinality(S) + 1
<1>1. IsFiniteSet(S \cup {x}) /\ Cardinality(S) \in Nat
  BY FS_AddElement, FS_CardinalityType
<1>2. CASE x \in S
  BY <1>1, <1>2, FS_AddElement
<1>3. CASE x \notin S
  BY <1>1, <1>3, FS_AddElement
<1> QED BY <1>1, <1>2, <1>3

\* What may not be evicted, with the target: the two pointed generations, the target and the
\* extra files.
LEMMA KeptIsSmall ==
  ASSUME StoreTypeOK, IsFiniteSet(files), NEW t \in Bundles
  PROVE  Cardinality(files \ Reclaimable(t)) + Extra(t)
           <= 3 + Cardinality(ExtrasOf(files, Pointed))
<1> DEFINE K == files \ Reclaimable(t)
           E == ExtrasOf(files, Pointed)
<1>1. E \subseteq files /\ K \subseteq files
  BY DEF ExtrasOf
<1>2. /\ IsFiniteSet(K) /\ IsFiniteSet(E)
      /\ Cardinality(E) \in Nat /\ Cardinality(K) \in Nat
  BY <1>1, FS_Subset, FS_CardinalityType
<1>3. K \subseteq E \cup Pointed \cup {t}
  <2> SUFFICES ASSUME NEW f \in K, f # t, f \notin Pointed PROVE f \in E
    OBVIOUS
  <2>1. ~(f.seq < Cutoff)
    BY DEF Reclaimable
  <2>2. CASE Pointed = {}
    BY <2>2 DEF ExtrasOf
  <2>3. CASE Pointed # {}
    <3>1. PICK p \in Pointed : p.seq = Cutoff
      BY <2>3, CutoffIsPointed
    <3>2. p.seq \in Nat /\ f.seq \in Nat
      BY <1>1, PointedBundles, StoreAssumption DEF StoreTypeOK
    <3> QED BY <2>1, <3>1, <3>2 DEF ExtrasOf
  <2> QED BY <2>2, <2>3
<1>4. PICK x, y : Pointed \subseteq {x, y}
  BY DEF Pointed
<1> HIDE DEF K, E
<1> DEFINE S1 == E \cup {x}
           S2 == S1 \cup {y}
           S3 == S2 \cup {t}
           Kt == K \cup {t}
<1>5. IsFiniteSet(S1) /\ Cardinality(S1) \in Nat /\ Cardinality(S1) <= Cardinality(E) + 1
  BY <1>2, OneMore
<1>6. IsFiniteSet(S2) /\ Cardinality(S2) \in Nat /\ Cardinality(S2) <= Cardinality(S1) + 1
  <2> HIDE DEF S1
  <2> QED BY <1>5, OneMore
<1>7. IsFiniteSet(S3) /\ Cardinality(S3) \in Nat /\ Cardinality(S3) <= Cardinality(S2) + 1
  <2> HIDE DEF S2
  <2> QED BY <1>6, OneMore
<1>8. Kt \subseteq S3
  BY <1>3, <1>4
<1>9. Cardinality(Kt) = Cardinality(K) + Extra(t) /\ IsFiniteSet(Kt)
  <2>1. t \in files <=> t \in K
    BY ReclaimableIsOld DEF K
  <2>2. CASE t \in K
    BY <1>2, <2>1, <2>2, OneMore DEF Extra
  <2>3. CASE t \notin K
    BY <1>2, <2>1, <2>3, OneMore DEF Extra
  <2> QED BY <2>2, <2>3
<1> HIDE DEF S1, S2, S3, Kt
<1>10. Cardinality(Kt) <= Cardinality(S3)
  BY <1>7, <1>8, FS_Subset
<1>11. Extra(t) \in Nat /\ Cardinality(Kt) \in Nat
  BY <1>9, FS_CardinalityType DEF Extra
<1>12. Cardinality(K) + Extra(t) <= 3 + Cardinality(E)
  BY <1>2, <1>5, <1>6, <1>7, <1>9, <1>10, <1>11
<1> QED BY <1>12 DEF K, E

\* Evicting a plan and writing the target leaves few enough files.
LEMMA PlanBounds ==
  ASSUME StoreTypeOK, IsFiniteSet(files), NEW t \in Bundles,
         Cardinality(ExtrasOf(files, Pointed)) + junk <= faults
  PROVE  /\ Cardinality(files \ EvictionPlan(t)) + Extra(t) <= faults + Room
         /\ Capacity >= 3 + faults =>
              Used + Extra(t) - Cardinality(EvictionPlan(t)) <= Capacity
<1> DEFINE P == EvictionPlan(t)
           c == Cardinality(files)
           p == Cardinality(P)
           e == Cardinality(ExtrasOf(files, Pointed))
<1>1. P \subseteq files /\ IsFiniteSet(P) /\ IsFiniteSet(ExtrasOf(files, Pointed))
  <2>1. ExtrasOf(files, Pointed) \subseteq files
    BY DEF ExtrasOf
  <2> QED BY <2>1, ReclaimableIsOld, FS_Subset
<1>2. Cardinality(files \ P) = c - p
  <2>1. files \cap P = P
    BY <1>1
  <2> QED BY <2>1, FS_Difference
<1>3. c \in Nat /\ p \in Nat /\ e \in Nat /\ Extra(t) \in Nat /\ junk \in Nat /\ faults \in Nat
  BY <1>1, FS_CardinalityType, StoreAssumption DEF StoreTypeOK, Extra
<1>4. Used = c + junk
  BY DEF Used
<1>5. Room \in Nat /\ Room >= 3 /\ Room >= MaxGenerations /\ MaxGenerations \in Nat /\ Capacity \in Nat
  BY StoreAssumption DEF Room
<1>6. CASE P = Reclaimable(t)
  <2>1. Cardinality(files \ P) + Extra(t) <= 3 + e
    BY <1>6, KeptIsSmall
  <2> HIDE DEF P, c, p, e
  <2> QED BY <1>2, <1>3, <1>4, <1>5, <2>1 DEF P, c, p, e
<1>7. CASE P # Reclaimable(t)
  <2>1. Used + Extra(t) - p <= Capacity /\ c + Extra(t) - p <= MaxGenerations
    BY <1>7, PlanSuffices
  <2> HIDE DEF P, c, p, e
  <2> QED BY <1>2, <1>3, <1>5, <2>1 DEF P, p
<1> QED BY <1>6, <1>7

-----------------------------------------------------------------------------
(* RInv is preserved. *)

\* Generations named by Base are accepted, hence bundles.
LEMMA BaseAccepted ==
  ASSUME SInv
  PROVE  /\ Base \subseteq accepted /\ Base \subseteq Bundles
         /\ ~Activating => Base = Pointed
         /\ latestP # None => latestP.b \in Base
         /\ Base = {} <=> latestP = None
         /\ Activating => \A x \in Base : /\ latestP # None
                                          /\ \/ x = latestP.b
                                             \/ job.oldPrevious # None /\ x = job.oldPrevious.b
<1>1. ~Activating => Base = Pointed
  BY DEF Base, BasePrevious, Pointed
<1>2. /\ Base \subseteq accepted
      /\ latestP # None => latestP.b \in Base
      /\ Base = {} <=> latestP = None
  BY DEF SInv, JobOK, ActivateOK, Base, BasePrevious, Below, Accepted
<1>3. ASSUME Activating, NEW x \in Base
      PROVE  /\ latestP # None
             /\ \/ x = latestP.b
                \/ job.oldPrevious # None /\ x = job.oldPrevious.b
  BY <1>3 DEF SInv, JobOK, ActivateOK, Base, BasePrevious, Below
<1> QED BY <1>1, <1>2, <1>3 DEF SInv, StoreTypeOK

\* The target of an activation is newer than everything accepted.
LEMMA TargetIsNew ==
  ASSUME SInv, Activating
  PROVE  /\ job.b \in Bundles /\ job.b \notin Base /\ job.b \notin accepted
         /\ \A p \in Base : p.seq <= job.b.seq
         /\ job.b \in files => job.b \in ExtrasOf(files, Base)
<1>1. job.b \in Bundles /\ job.b.seq \in Nat
  BY StoreAssumption DEF SInv, StoreTypeOK, Job, Activating
<1>2. ASSUME NEW x \in accepted
      PROVE  x.seq \in Nat /\ x.seq < job.b.seq
  BY <1>1, StoreAssumption DEF SInv, StoreTypeOK, Pointer, JobOK, ActivateOK, Accepted
<1>3. job.b \notin accepted /\ \A p \in Base : p.seq <= job.b.seq
  BY <1>1, <1>2, BaseAccepted
<1> QED BY <1>1, <1>3, BaseAccepted DEF ExtrasOf

\* Giving up the older pointer for the current generation leaves no more extra files.
LEMMA ExtrasShrink ==
  ASSUME SInv
  PROVE  ExtrasOf(files, Pointed) \subseteq ExtrasOf(files, Base)
<1>1. CASE ~Activating
  BY <1>1, BaseAccepted
<1>2. CASE Activating /\ previousP = job.oldPrevious
  BY <1>2 DEF Base, BasePrevious, Pointed
<1>3. CASE Activating /\ previousP = latestP
  <2>1. Pointed \subseteq Base /\ \A x \in Pointed : latestP # None /\ x = latestP.b
    BY <1>3, BaseAccepted DEF Pointed
  <2>2. CASE latestP = None
    BY <2>1, <2>2, BaseAccepted DEF Pointed
  <2>3. CASE latestP # None
    <3>1. Pointed = {latestP.b}
      BY <1>3, <2>3 DEF Pointed
    <3> SUFFICES ASSUME NEW f \in files, f # latestP.b, latestP.b.seq <= f.seq, f \in Base
                 PROVE  FALSE
      BY <2>1, <2>3, <3>1, BaseAccepted DEF ExtrasOf
    <3>2. f \in accepted /\ f.seq <= latestP.b.seq /\ f.seq \in Nat /\ latestP.b.seq \in Nat
      BY <2>3, BaseAccepted, StoreAssumption DEF SInv, Accepted, StoreTypeOK
    <3> QED BY <2>3, <3>2 DEF SInv, Accepted
  <2> QED BY <2>2, <2>3
<1> QED BY <1>1, <1>2, <1>3 DEF SInv, JobOK, ActivateOK

\* The counts RInv relates.
LEMMA CountTypes ==
  ASSUME SInv, RInv
  PROVE  /\ IsFiniteSet(files) /\ Cardinality(files) \in Nat
         /\ IsFiniteSet(ExtrasOf(files, Base)) /\ Cardinality(ExtrasOf(files, Base)) \in Nat
         /\ IsFiniteSet(ExtrasOf(files, Pointed)) /\ Cardinality(ExtrasOf(files, Pointed)) \in Nat
         /\ Cardinality(ExtrasOf(files, Pointed)) <= Cardinality(ExtrasOf(files, Base))
         /\ junk \in Nat /\ faults \in Nat /\ Slack \in {0, 1} /\ Room \in Nat
<1>1. ExtrasOf(files, Base) \subseteq files /\ ExtrasOf(files, Pointed) \subseteq files
  BY DEF ExtrasOf
<1>2. junk \in Nat /\ faults \in Nat /\ Slack \in {0, 1} /\ Room \in Nat
  BY StoreAssumption DEF SInv, StoreTypeOK, Slack, Room
<1> QED BY <1>1, <1>2, ExtrasShrink, FS_Subset, FS_CardinalityType DEF RInv

\* RInv is preserved when nothing it counts changes.
LEMMA RInvQuiet ==
  ASSUME SInv, RInv, UNCHANGED <<files, latestP, previousP, junk, job, faults>>
  PROVE  RInv'
BY DEF RInv, ExtrasPaid, FilesBounded, PlanBounded, ExtrasOf, Base, BasePrevious, Activating,
       Working, Slack, Extra

\* A publication begins with a plan that leaves few enough files.
LEMMA RInvBegin ==
  ASSUME SInv, RInv, NEW b \in Bundles, NEW r \in BOOLEAN, job = None, StartJob(b, r),
         UNCHANGED <<files, pointers, junk, faults>>
  PROVE  RInv'
<1>1. Base' = Base /\ Base = Pointed
  BY DEF StartJob, Base, BasePrevious, Activating, pointers, Pointed
<1>2. Slack = 0 /\ Slack' = 0
  BY DEF StartJob, Slack, Activating
<1>3. ExtrasPaid'
  BY <1>1, <1>2 DEF RInv, ExtrasPaid, ExtrasOf
<1>4. Cardinality(files \ EvictionPlan(b)) + Extra(b) <= faults + Room
  BY <1>1, <1>2, CountTypes, PlanBounds DEF SInv, RInv, ExtrasPaid
<1>5. PlanBounded'
  BY <1>4 DEF PlanBounded, StartJob, Extra
<1> QED BY <1>3, <1>5 DEF RInv, FilesBounded

\* Eviction only removes files, and none that the plan keeps.
LEMMA RInvEvict ==
  ASSUME SInv, RInv, Evict
  PROVE  RInv'
<1>1. PICK f \in job.evict : /\ files' = files \ {f}
                             /\ job' = [job EXCEPT !.evict = @ \ {f}]
  BY DEF Evict
<1>2. /\ job # None /\ job.step = "target" /\ job' # None
      /\ job'.b = job.b /\ job'.restore = job.restore /\ job'.step = job.step
      /\ job'.created = job.created /\ job'.oldPrevious = job.oldPrevious
      /\ job'.evict = job.evict \ {f}
  BY <1>1, StoreAssumption DEF SInv, Evict, Working, StoreTypeOK, Job
<1>3. f # job.b /\ f \in files
  BY <1>2 DEF SInv, JobOK, EvictOK, Working
<1>4. Base' = Base /\ UNCHANGED <<junk, faults>> /\ Slack' = Slack
  BY <1>1, <1>2, <1>3 DEF Base, BasePrevious, Activating, Evict, pointers, Slack
<1>5. ExtrasOf(files, Base)' \subseteq ExtrasOf(files, Base)
  BY <1>1, <1>4 DEF ExtrasOf
<1>6. /\ IsFiniteSet(files') /\ Cardinality(files') <= Cardinality(files)
      /\ Cardinality(files') \in Nat
  BY <1>1, CountTypes, FS_Subset, FS_CardinalityType
<1>7. Cardinality(ExtrasOf(files, Base)') <= Cardinality(ExtrasOf(files, Base))
      /\ Cardinality(ExtrasOf(files, Base)') \in Nat
  BY <1>5, CountTypes, FS_Subset, FS_CardinalityType
<1>8. ExtrasPaid'
  BY <1>4, <1>7, CountTypes DEF RInv, ExtrasPaid
<1>9. FilesBounded'
  BY <1>4, <1>6, CountTypes DEF RInv, FilesBounded, Room
<1>10. PlanBounded'
  <2>1. (files \ job.evict)' = files \ job.evict
    BY <1>1, <1>2
  <2>2. Extra(job.b)' = Extra(job.b)
    BY <1>1, <1>2, <1>3 DEF Extra
  <2> QED BY <1>2, <1>4, <2>1, <2>2 DEF RInv, PlanBounded, Working, Room
<1> QED BY <1>6, <1>8, <1>9, <1>10 DEF RInv

\* Writing the target uses the room the plan left.
LEMMA RInvWriteTarget ==
  ASSUME SInv, RInv, WriteTarget
  PROVE  RInv'
<1>1. /\ job # None /\ job.step = "target" /\ job' # None /\ job.b \in Bundles
      /\ job'.b = job.b /\ job'.restore = job.restore /\ job'.created = job.created
      /\ job'.oldPrevious = job.oldPrevious
      /\ job'.step = IF job.restore THEN "reply" ELSE "previous"
      /\ files' = files \cup {job.b} /\ job.evict = {}
      /\ UNCHANGED <<latestP, previousP, junk, faults>>
  BY StoreAssumption DEF SInv, WriteTarget, Working, StoreTypeOK, Job, pointers
<1>2. Base' = Base
  BY <1>1 DEF Base, BasePrevious, Activating
<1>3. ~Working("target")'
  BY <1>1 DEF Working
<1>4. Cardinality(files') <= faults + Room /\ IsFiniteSet(files')
  <2>1. Cardinality(files) + Extra(job.b) <= faults + Room
    <3>1. files \ job.evict = files
      BY <1>1
    <3> QED BY <1>1, <3>1 DEF RInv, PlanBounded, Working
  <2>2. CASE job.b \in files
    <3>1. files' = files /\ Extra(job.b) = 0
      BY <1>1, <2>2 DEF Extra
    <3> QED BY <2>1, <3>1, CountTypes
  <2>3. CASE job.b \notin files
    BY <1>1, <2>1, <2>3, CountTypes, OneMore DEF Extra
  <2> QED BY <2>2, <2>3
<1>5. ExtrasPaid'
  <2>1. CASE job.b \in files
    <3>1. files' = files
      BY <1>1, <2>1
    <3>2. Slack' = Slack
      BY <1>1, <2>1, <3>1 DEF Slack, Activating, SInv, JobOK, StepOK, Working
    <3> QED BY <1>1, <1>2, <3>1, <3>2 DEF RInv, ExtrasPaid
  <2>2. CASE job.b \notin files /\ job.restore
    <3>1. job.b \in accepted /\ job.b \notin Pointed /\ latestP # None /\ ~Activating /\ ~Activating'
      BY <1>1, <2>2 DEF SInv, JobOK, RestoreOK, Accepted, Activating
    <3>2. \A p \in Base : job.b.seq < p.seq
      BY <3>1, AcceptedIsOld, BaseAccepted DEF SInv
    <3>3. \A p \in Base : p.seq \in Nat
      BY BaseAccepted, StoreAssumption
    <3>4. ExtrasOf(files', Base) = ExtrasOf(files, Base)
      BY <1>1, <3>1, <3>2, <3>3, BaseAccepted, StoreAssumption DEF ExtrasOf
    <3>5. Slack = 0 /\ Slack' = 0
      BY <3>1 DEF Slack
    <3> QED BY <1>1, <1>2, <3>4, <3>5 DEF RInv, ExtrasPaid
  <2>3. CASE job.b \notin files /\ ~job.restore
    <3>1. Slack = 0 /\ Slack' = 1
      BY <1>1, <2>3 DEF Slack, Activating, SInv, JobOK, StepOK, Working
    <3>2. ExtrasOf(files', Base) \subseteq ExtrasOf(files, Base) \cup {job.b}
      BY <1>1 DEF ExtrasOf
    <3> DEFINE E == ExtrasOf(files, Base)
               F == ExtrasOf(files', Base)
    <3>3. IsFiniteSet(E) /\ Cardinality(E) \in Nat
      BY CountTypes
    <3> HIDE DEF E, F
    <3>4. Cardinality(F) \in Nat /\ Cardinality(F) <= Cardinality(E) + 1
      <4>1. IsFiniteSet(E \cup {job.b}) /\ Cardinality(E \cup {job.b}) <= Cardinality(E) + 1
            /\ Cardinality(E \cup {job.b}) \in Nat
        BY <3>3, OneMore
      <4>2. F \subseteq E \cup {job.b}
        BY <3>2 DEF E, F
      <4> QED BY <3>3, <4>1, <4>2, FS_Subset, FS_CardinalityType
    <3>5. Cardinality(E) + junk <= faults
      BY <3>1, CountTypes DEF RInv, ExtrasPaid, E
    <3>6. Cardinality(F) + junk <= faults + 1
      BY <3>3, <3>4, <3>5, CountTypes
    <3> QED BY <1>1, <1>2, <3>1, <3>6 DEF ExtrasPaid, F
  <2> QED BY <2>1, <2>2, <2>3
<1> QED BY <1>1, <1>3, <1>4, <1>5 DEF RInv, FilesBounded, PlanBounded, Room

\* The steps of an activation that write previous.json, or abandon the publication.
LEMMA RInvSameBase ==
  ASSUME SInv, RInv, SInv', Base' = Base, Slack' = Slack, files' = files, junk' = junk,
         faults' \in {faults, faults + 1}, ~Working("target")'
  PROVE  RInv'
<1>1. ExtrasPaid'
  BY CountTypes DEF RInv, ExtrasPaid
<1>2. FilesBounded'
  BY CountTypes DEF RInv, FilesBounded, Room
<1> QED BY <1>1, <1>2 DEF RInv, PlanBounded

\* RInv is preserved by WritePrevious.
LEMMA RInvWritePrevious ==
  ASSUME SInv, RInv, WritePrevious
  PROVE  RInv'
<1>1. /\ job # None /\ job.step = "previous" /\ job' # None /\ ~job.restore
      /\ job' = [job EXCEPT !.step = "latest"] /\ job \in Job
      /\ UNCHANGED <<files, latestP, junk, faults>>
  BY StoreAssumption DEF SInv, WritePrevious, Working, StoreTypeOK, Job, JobOK, RestoreOK
<1>2. /\ job'.b = job.b /\ job'.restore = job.restore /\ job'.created = job.created
      /\ job'.oldPrevious = job.oldPrevious /\ job'.step = "latest"
  BY <1>1 DEF Job
<1>3. Base' = Base /\ Slack' = Slack /\ ~Working("target")'
  BY <1>1, <1>2 DEF Base, BasePrevious, Activating, Slack, Working
<1> QED BY <1>1, <1>3, RInvSameBase, SInvWritePrevious

\* RInv is preserved by WriteFails.
LEMMA RInvWriteFails ==
  ASSUME SInv, RInv, WriteFails
  PROVE  RInv'
<1>1. /\ job # None /\ job.step \in {"target", "previous", "latest"} /\ job' # None /\ job \in Job
      /\ job' = [job EXCEPT !.step = IF job.restore THEN "undoTarget" ELSE "undoPrevious"]
      /\ UNCHANGED <<files, latestP, previousP, junk>> /\ faults' = faults + 1
  BY StoreAssumption DEF SInv, WriteFails, Working, StoreTypeOK, Job, Fault, pointers
<1>2. /\ job'.b = job.b /\ job'.restore = job.restore /\ job'.created = job.created
      /\ job'.oldPrevious = job.oldPrevious
      /\ job'.step = IF job.restore THEN "undoTarget" ELSE "undoPrevious"
  BY <1>1 DEF Job
<1>3. Base' = Base /\ Slack' = Slack /\ ~Working("target")'
  BY <1>1, <1>2 DEF Base, BasePrevious, Activating, Slack, Working
<1> QED BY <1>1, <1>3, RInvSameBase, SInvWriteFails

\* RInv is preserved by UndoPrevious.
LEMMA RInvUndoPrevious ==
  ASSUME SInv, RInv, UndoPrevious
  PROVE  RInv'
<1>1. /\ job # None /\ job.step = "undoPrevious" /\ job' # None /\ job \in Job /\ ~job.restore
      /\ job' = [job EXCEPT !.step = "undoTarget"]
      /\ UNCHANGED <<files, latestP, junk, faults>>
  BY StoreAssumption DEF SInv, UndoPrevious, Working, StoreTypeOK, Job, JobOK, RestoreOK
<1>2. /\ job'.b = job.b /\ job'.restore = job.restore /\ job'.created = job.created
      /\ job'.oldPrevious = job.oldPrevious /\ job'.step = "undoTarget"
  BY <1>1 DEF Job
<1>3. Base' = Base /\ Slack' = Slack /\ ~Working("target")'
  BY <1>1, <1>2 DEF Base, BasePrevious, Activating, Slack, Working
<1> QED BY <1>1, <1>3, RInvSameBase, SInvUndoPrevious

\* RInv is preserved by Reply.
LEMMA RInvReply ==
  ASSUME SInv, RInv, Reply
  PROVE  RInv'
<1>1. Base' = Base /\ Slack' = Slack /\ ~Working("target")'
  BY DEF Reply, Base, BasePrevious, Activating, Slack, Working, pointers
<1> QED BY <1>1, RInvSameBase, SInvReply DEF Reply

\* The files and extra files left when a publication ends early: the target of an activation
\* is either removed with its slack or stays at the price of a fault.
LEMMA RInvUndoTarget ==
  ASSUME SInv, RInv, UndoTarget
  PROVE  RInv'
<1>1. /\ job # None /\ job.step = "undoTarget" /\ job' = None
      /\ files' = IF job.created THEN files \ {job.b} ELSE files
      /\ UNCHANGED <<latestP, previousP, junk, faults>>
  BY DEF UndoTarget, Working, pointers
<1>2. Base' = Base
  BY <1>1 DEF Base, BasePrevious, Activating, SInv, JobOK, ActivateOK
<1>3. Slack' = 0 /\ ~Working("target")'
  BY <1>1 DEF Slack, Activating, Working
<1>4. /\ files' \subseteq files /\ IsFiniteSet(files')
      /\ Cardinality(files') <= Cardinality(files) /\ Cardinality(files') \in Nat
  BY <1>1, CountTypes, FS_Subset, FS_CardinalityType
<1>5. FilesBounded'
  BY <1>1, <1>4, CountTypes DEF RInv, FilesBounded, Room
<1> DEFINE E == ExtrasOf(files, Base)
           F == ExtrasOf(files', Base)
<1>6. /\ F \subseteq E /\ IsFiniteSet(E) /\ Cardinality(E) \in Nat
      /\ Slack = 1 => job.b \in E /\ job.b \notin F
  <2>1. Slack = 1 => job.b \in ExtrasOf(files, Base) /\ job.b \notin files'
    BY <1>1, TargetIsNew DEF Slack
  <2> QED BY <1>4, <2>1, CountTypes DEF ExtrasOf
<1> HIDE DEF E, F
<1>7. IsFiniteSet(F) /\ Cardinality(F) \in Nat /\ Cardinality(F) <= Cardinality(E)
      /\ (Slack = 1 => Cardinality(F) # Cardinality(E))
  BY <1>6, FS_Subset, FS_CardinalityType
<1>8. Cardinality(E) + junk <= faults + Slack
  BY DEF RInv, ExtrasPaid, E
<1>9. Cardinality(F) + junk <= faults
  BY <1>6, <1>7, <1>8, CountTypes
<1>10. ExtrasPaid'
  BY <1>1, <1>2, <1>3, <1>9, CountTypes DEF ExtrasPaid, F
<1> QED BY <1>3, <1>4, <1>5, <1>10 DEF RInv, PlanBounded

\* An abandoned publication costs its fault.
LEMMA RInvAbandon ==
  ASSUME SInv, RInv, job # None, job' = None,
         UNCHANGED <<files, latestP, previousP>>, faults' = faults + 1,
         junk' \in {junk, junk + 1}, junk' # junk => Slack = 0
  PROVE  RInv'
<1>1. Base' = Pointed /\ Slack' = 0 /\ ~Working("target")'
  BY DEF Base, BasePrevious, Pointed, Activating, Slack, Working
<1>2. Cardinality(ExtrasOf(files, Pointed)) + junk' <= faults'
  BY CountTypes DEF RInv, ExtrasPaid
<1>3. junk' \in Nat /\ faults' \in Nat /\ Cardinality(ExtrasOf(files, Pointed)) \in Nat
  BY CountTypes
<1>4. ExtrasPaid'
  BY <1>1, <1>2, <1>3 DEF ExtrasPaid
<1>5. FilesBounded'
  BY CountTypes DEF RInv, FilesBounded, Room
<1> QED BY <1>1, <1>4, <1>5 DEF RInv, PlanBounded

\* RInv is preserved by UndoFails.
LEMMA RInvUndoFails ==
  ASSUME SInv, RInv, UndoFails
  PROVE  RInv'
BY RInvAbandon DEF UndoFails, Fault, Working, pointers

\* RInv is preserved by Crash.
LEMMA RInvCrash ==
  ASSUME SInv, RInv, Crash
  PROVE  RInv'
<1>1. job.step = "target" => Slack = 0
  BY DEF Crash, Slack, Activating, SInv, JobOK, StepOK, Working
<1> QED BY <1>1, RInvAbandon DEF Crash, Fault, pointers

\* Activation: the target becomes the current generation, the old one the previous.
LEMMA RInvWriteLatest ==
  ASSUME SInv, RInv, WriteLatest
  PROVE  RInv'
<1>1. /\ job # None /\ job.step = "latest" /\ ~job.restore /\ job.b \in files /\ job \in Job
      /\ previousP = latestP /\ latestP'.b = job.b
      /\ job' = [job EXCEPT !.step = "reply"] /\ job' # None
      /\ UNCHANGED <<files, previousP, junk, faults>>
  BY StoreAssumption DEF SInv, JobOK, RestoreOK, ActivateOK, Activating, WriteLatest, Working,
                         StoreTypeOK, Job
<1>2. Activating /\ ~Activating' /\ Slack' = 0 /\ ~Working("target")'
  BY <1>1 DEF Activating, Slack, Working, Job
<1>3. latestP' # None
  <2>1. latestP' \in Pointer \cup {None} /\ accepted' = accepted \cup {job.b}
    BY SInvWriteLatest DEF SInv, StoreTypeOK, WriteLatest
  <2> QED BY <2>1, SInvWriteLatest DEF SInv, Accepted
<1>4. /\ job.b \in Base'
      /\ \A x \in Base' : x = job.b \/ (latestP # None /\ x = latestP.b)
      /\ latestP # None => latestP.b \in Base'
  BY <1>1, <1>2, <1>3 DEF Base, BasePrevious
<1> DEFINE E == ExtrasOf(files, Base)
           F == ExtrasOf(files, Base')
<1>5. F \subseteq E
  <2> SUFFICES ASSUME NEW f \in F PROVE f \in E
    OBVIOUS
  <2>1. f \in files /\ f \in Bundles /\ f \notin Base' /\ \E p \in Base' : p.seq <= f.seq
    BY <1>4 DEF ExtrasOf, SInv, StoreTypeOK
  <2>2. CASE latestP = None
    BY <2>1, <2>2, BaseAccepted DEF ExtrasOf
  <2>3. CASE latestP # None
    <3>1. latestP.b.seq <= f.seq
      <4>1. /\ latestP.b.seq \in Nat /\ job.b.seq \in Nat /\ f.seq \in Nat
            /\ latestP.b.seq < job.b.seq
        BY <1>2, <2>1, <2>3, BaseAccepted, TargetIsNew, StoreAssumption DEF SInv, JobOK, ActivateOK
      <4> QED BY <1>4, <2>1, <4>1
    <3>2. f \notin Base
      <4> SUFFICES ASSUME f \in Base PROVE FALSE
        OBVIOUS
      <4>1. f \in accepted /\ latestP.b \in accepted /\ f.seq <= latestP.b.seq
            /\ f.seq \in Nat /\ latestP.b.seq \in Nat
        BY <2>3, BaseAccepted, StoreAssumption DEF SInv, Accepted
      <4>2. f = latestP.b
        BY <3>1, <4>1 DEF SInv, Accepted
      <4> QED BY <1>4, <2>1, <2>3, <4>2
    <3> QED BY <2>1, <2>3, <3>1, <3>2, BaseAccepted DEF ExtrasOf
  <2> QED BY <2>2, <2>3
<1>6. /\ job.b \in E /\ job.b \notin F /\ IsFiniteSet(E) /\ Cardinality(E) \in Nat
  BY <1>1, <1>2, <1>4, TargetIsNew, CountTypes DEF ExtrasOf
<1>7. Cardinality(E) + junk <= faults + Slack
  BY DEF RInv, ExtrasPaid
<1> HIDE DEF E, F
<1>8. Cardinality(F) \in Nat /\ Cardinality(F) <= Cardinality(E) /\ Cardinality(F) # Cardinality(E)
  BY <1>5, <1>6, FS_Subset, FS_CardinalityType
<1>9. Cardinality(F) + junk <= faults
  BY <1>6, <1>7, <1>8, CountTypes
<1>10. ExtrasPaid'
  BY <1>1, <1>2, <1>9, CountTypes DEF ExtrasPaid, F
<1>11. FilesBounded'
  BY <1>1 DEF RInv, FilesBounded, Room
<1> QED BY <1>1, <1>2, <1>10, <1>11 DEF RInv, PlanBounded

-----------------------------------------------------------------------------
(* The theorems. *)

\* An empty store satisfies the invariant.
LEMMA StoreInit == Init => SInv /\ RInv
<1> SUFFICES ASSUME Init PROVE SInv /\ RInv
  OBVIOUS
<1>1. SInv
  BY StoreAssumption DEF Init, SInv, StoreTypeOK, PointersBacked, HistoryTruthful, AckedWasAccepted,
     Accepted, Below, JobOK, EvictOK, RestoreOK, ActivateOK, StepOK, Activating, Working, ReaderOK
<1>2. files = {} /\ ExtrasOf(files, Base) = {}
  BY DEF Init, ExtrasOf
<1>3. Slack = 0 /\ ~Working("target") /\ junk = 0 /\ faults = 0 /\ Room \in Nat
  BY StoreAssumption DEF Init, Slack, Activating, Working, Room
<1>4. RInv
  BY <1>2, <1>3, FS_EmptySet DEF RInv, ExtrasPaid, FilesBounded, PlanBounded
<1> QED BY <1>1, <1>4

\* Every step preserves it.
LEMMA StoreStep ==
  ASSUME SInv, RInv, [Next]_vars
  PROVE  SInv' /\ RInv'
<1>1. ASSUME NEW b \in Bundles, Reacknowledge(b) PROVE SInv' /\ RInv'
  BY <1>1, SInvReacknowledge, RInvQuiet DEF Reacknowledge, pointers
<1>2. ASSUME NEW b \in Bundles, BeginRestore(b) PROVE SInv' /\ RInv'
  BY <1>2, SInvBeginRestore, RInvBegin DEF BeginRestore
<1>3. ASSUME NEW b \in Bundles, BeginActivate(b) PROVE SInv' /\ RInv'
  BY <1>3, SInvBeginActivate, RInvBegin DEF BeginActivate
<1>4. CASE Evict
  BY <1>4, SInvEvict, RInvEvict
<1>5. CASE WriteTarget
  BY <1>5, SInvWriteTarget, RInvWriteTarget
<1>6. CASE WritePrevious
  BY <1>6, SInvWritePrevious, RInvWritePrevious
<1>7. CASE WriteLatest
  BY <1>7, SInvWriteLatest, RInvWriteLatest
<1>8. CASE Reply
  BY <1>8, SInvReply, RInvReply
<1>9. CASE WriteFails
  BY <1>9, SInvWriteFails, RInvWriteFails
<1>10. CASE UndoPrevious
  BY <1>10, SInvUndoPrevious, RInvUndoPrevious
<1>11. CASE UndoTarget
  BY <1>11, SInvUndoTarget, RInvUndoTarget
<1>12. CASE UndoFails
  BY <1>12, SInvUndoFails, RInvUndoFails
<1>13. CASE Crash
  BY <1>13, SInvCrash, RInvCrash
<1>14. CASE ReadPointer
  BY <1>14, SInvReadPointer, RInvQuiet DEF ReadPointer, pointers
<1>15. CASE ReadFile
  BY <1>15, SInvReadFile, RInvQuiet DEF ReadFile, pointers
<1>16. CASE Cutover
  BY <1>16, SInvCutover, RInvQuiet DEF Cutover, pointers
<1>17. CASE UNCHANGED vars
  <2>1. SInv'
    BY <1>17 DEF vars, pointers, reader, SInv, StoreTypeOK, PointersBacked, HistoryTruthful,
       AckedWasAccepted, Accepted, Below, JobOK, EvictOK, RestoreOK, ActivateOK, StepOK,
       Activating, Working, Pointed, ReaderOK
  <2> QED BY <1>17, <2>1, RInvQuiet DEF vars, pointers
<1> QED BY <1>1, <1>2, <1>3, <1>4, <1>5, <1>6, <1>7, <1>8, <1>9, <1>10, <1>11, <1>12, <1>13,
           <1>14, <1>15, <1>16, <1>17 DEF Next

\* The store's invariant: shapes, the pointers and the history against what was accepted, the
\* publication under way, and the files paid for by faults.
THEOREM StoreInvariant == Spec => [](SInv /\ RInv)
<1>1. SInv /\ RInv /\ [Next]_vars => (SInv /\ RInv)'
  BY StoreStep
<1> QED BY StoreInit, <1>1, PTL DEF Spec

\* What the invariant promises between two steps: an abandoned publication never blocks the next.
LEMMA StoreSafeFromInvariant ==
  ASSUME SInv, RInv
  PROVE  StoreSafe
<1>1. PointersBacked /\ NeverHeadless /\ HistoryTruthful /\ AckedWasAccepted
  BY DEF SInv, Below, NeverHeadless
<1>2. RetentionBounded
  BY DEF RInv, FilesBounded, Room, RetentionBounded
<1>3. ReaderMissesOnlyIfOvertaken
  <2> SUFFICES ASSUME rd # None, rd \notin files, NEW p \in Pointed
               PROVE  p.seq > rd.seq
    BY DEF ReaderMissesOnlyIfOvertaken
  <2>1. rd \in accepted /\ rd \notin Pointed
    BY PointedBundles DEF SInv, ReaderOK, PointersBacked
  <2>2. rd.seq < p.seq /\ rd.seq \in Nat /\ p.seq \in Nat
    BY <2>1, AcceptedIsOld, PointedBundles, StoreAssumption DEF SInv, StoreTypeOK
  <2> QED BY <2>2
<1>4. CanStillPublish
  <2> SUFFICES ASSUME job = None, Capacity >= 3 + faults, NEW b \in Bundles
               PROVE  PointersUsable /\ BudgetAllows(b)
    BY DEF CanStillPublish
  <2>1. PointersUsable /\ (previousP # None => Valid(previousP))
    BY <1>1 DEF PointersUsable, Valid, PointersBacked, NeverHeadless
  <2>2. Slack = 0 /\ Base = Pointed
    BY BaseAccepted DEF Slack, Activating
  <2>3. Cardinality(ExtrasOf(files, Pointed)) + junk <= faults
    BY <2>2, CountTypes DEF RInv, ExtrasPaid
  <2>4. Used + Extra(b) - Cardinality(EvictionPlan(b)) <= Capacity
    BY <2>3, PlanBounds DEF SInv, RInv
  <2> QED BY <2>1, <2>4 DEF BudgetAllows
<1> QED BY <1>1, <1>2, <1>3, <1>4 DEF StoreSafe

\* Whatever fails in between, the rollback pair is readable, the history and the receipts are
\* truthful, retention is bounded and the store can take the next generation.
THEOREM StoreIsSafe == Spec => []StoreSafe
BY StoreInvariant, StoreSafeFromInvariant, PTL

\* A reader that takes no lock is never shown an older generation than before.
THEOREM ReadsNeverGoBack == Spec => ReadsMonotone
<1>1. SInv /\ [Next]_vars => [shown # None => shown'.seq >= shown.seq]_shown
  <2> SUFFICES ASSUME SInv, [Next]_vars, shown # None, shown' # shown
               PROVE  shown'.seq >= shown.seq
    OBVIOUS
  <2>1. ReadFile
    BY DEF Next, vars, reader, Reacknowledge, BeginRestore, BeginActivate, Evict, WriteTarget,
       WritePrevious, WriteLatest, Reply, WriteFails, UndoPrevious, UndoTarget, UndoFails, Crash,
       ReadPointer, Cutover
  <2>2. rd # None /\ shown' = rd
    BY <2>1 DEF ReadFile
  <2>3. shown.seq <= rd.seq /\ shown.seq \in Nat /\ rd.seq \in Nat
    BY <2>2, StoreAssumption DEF SInv, ReaderOK, StoreTypeOK
  <2> QED BY <2>2, <2>3
<1> QED BY StoreInvariant, <1>1, PTL DEF Spec, ReadsMonotone

\* The store accepts generations as the receiver promises: only a newer one replaces the
\* current one, and everything else leaves it alone.
THEOREM StoreImplementsAcceptedGenerations == Spec => ImplementsAcceptedGenerations
<1> DEFINE current == IF latestP = None THEN None ELSE latestP.b
<1>1. Init => A!Init
  BY DEF Init, A!Init
<1>2. ASSUME SInv, SInv', [Next]_vars
      PROVE  [A!Next]_<<current, accepted>>
  <2>1. CASE WriteLatest
    <3>1. /\ job \in Job /\ job.b \in Bundles /\ latestP'.b = job.b
          /\ accepted' = accepted \cup {job.b}
      BY <1>2, <2>1 DEF WriteLatest, Working, SInv, StoreTypeOK, Job
    <3>2. latestP' # None
      BY <1>2, <3>1 DEF SInv, Accepted
    <3>3. latestP # None => latestP.b.seq < job.b.seq
      BY <1>2, <2>1 DEF WriteLatest, Working, SInv, JobOK, RestoreOK, ActivateOK, Activating
    <3>4. latestP # None => latestP.b # None
      BY <1>2, StoreAssumption DEF SInv, StoreTypeOK, Pointer
    <3>5. A!Accept(job.b)
      BY <3>1, <3>2, <3>3, <3>4 DEF A!Accept, A!Newer
    <3> QED BY <3>1, <3>5 DEF A!Next
  <2>2. CASE ~WriteLatest
    <3>1. UNCHANGED <<latestP, accepted>>
      BY <1>2, <2>2 DEF Next, vars, pointers, Reacknowledge, BeginRestore, BeginActivate, Evict,
         WriteTarget, WritePrevious, Reply, WriteFails, UndoPrevious, UndoTarget, UndoFails, Crash,
         ReadPointer, ReadFile, Cutover
    <3> QED BY <3>1
  <2> QED BY <2>1, <2>2
<1> QED BY StoreInvariant, <1>1, <1>2, PTL DEF Spec, ImplementsAcceptedGenerations, A!Spec

-----------------------------------------------------------------------------
(* The replay window.                                                       *)

\* A nonce belongs to one signed request, and only signed requests are reserved or served.
OneRequestEach == \A r, q \in sent : r.nonce = q.nonce => r = q
Signed(n) == \E r \in sent : r.nonce = n
OnlySigned == \A n \in Nonces : n \in Reserved \/ served[n] > 0 => Signed(n)

\* The reservation under way is the one without an expiry, and has not been served.
UnderWay ==
  reserving # NoRequest => reserving.nonce \in Reserved /\ nonces[reserving.nonce] = Empty
EmptyIsUnserved == \A n \in Reserved : nonces[n] = Empty => served[n] = 0

\* A written expiry is the request's stamp plus Retention.
ExpiryOfStamp ==
  \A r \in sent : r.nonce \in Reserved /\ nonces[r.nonce] # Empty =>
    nonces[r.nonce] = r.created + Retention

\* What was served and is no longer reserved was swept by a clock past its expiry; the latest
\* time the clock ever showed is at most now + setback.
SweptLate ==
  \A r \in sent : served[r.nonce] > 0 /\ r.nonce \notin Reserved =>
    r.created + Retention < now + setback

\* The table is finite and within its bound.
TableBounded == IsFiniteSet(Reserved) /\ Cardinality(Reserved) <= MaxNonces

AuthInv ==
  /\ AuthTypeOK /\ OneRequestEach /\ OnlySigned /\ UnderWay /\ EmptyIsUnserved
  /\ ExpiryOfStamp /\ SweptLate /\ ServedOnce /\ TableBounded

\* A part of the table, and a part with one more entry, stays within the bound.
LEMMA PartBounded ==
  ASSUME NEW S, NEW T, IsFiniteSet(T), S \subseteq T
  PROVE  IsFiniteSet(S) /\ Cardinality(S) \in Nat /\ Cardinality(S) <= Cardinality(T)
BY FS_Subset, FS_CardinalityType

\* The initial state satisfies the invariant: the table is empty.
LEMMA AuthInvInit == AuthInit => AuthInv
<1> SUFFICES ASSUME AuthInit PROVE AuthInv
  OBVIOUS
<1>1. Reserved = {}
  BY DEF AuthInit, Reserved
<1>2. TableBounded
  BY <1>1, FS_EmptySet, AuthAssumption DEF TableBounded
<1>3. AuthTypeOK
  BY <1>1, AuthAssumption DEF AuthInit, AuthTypeOK
<1>4. OneRequestEach /\ OnlySigned /\ UnderWay /\ EmptyIsUnserved
  BY <1>1 DEF AuthInit, OneRequestEach, OnlySigned, Signed, UnderWay, EmptyIsUnserved
<1>5. ExpiryOfStamp /\ SweptLate /\ ServedOnce
  BY <1>1 DEF AuthInit, ExpiryOfStamp, SweptLate, ServedOnce
<1> QED
  BY <1>2, <1>3, <1>4, <1>5 DEF AuthInv

\* signed_headers: a fresh nonce is neither reserved nor served yet.
LEMMA SignKeeps == ASSUME AuthInv, NEW n \in Nonces, Sign(n) PROVE AuthInv'
<1>1. PICK stamp \in (now - Window)..(now + Window) :
        sent' = sent \cup {[nonce |-> n, created |-> stamp]}
  BY DEF Sign
<1> DEFINE new == [nonce |-> n, created |-> stamp]
<1>2. stamp \in Int /\ new \in [nonce : Nonces, created : Int] /\ new.nonce = n
  BY AuthAssumption DEF AuthInv, AuthTypeOK
<1>3. UNCHANGED <<now, setback, nonces, reserving, served>> /\ Reserved' = Reserved
  BY DEF Sign, Reserved
<1>4. \A r \in sent : r.nonce # n
  BY DEF Sign
<1>5. n \notin Reserved /\ ~(served[n] > 0)
  BY <1>4 DEF AuthInv, OnlySigned, Signed
<1>6. sent' = sent \cup {new}
  BY <1>1
<1> HIDE DEF new
<1>7. AuthTypeOK'
  BY <1>2, <1>3, <1>6 DEF AuthInv, AuthTypeOK
<1>8. OneRequestEach'
  BY <1>2, <1>4, <1>6 DEF AuthInv, OneRequestEach
<1>9. OnlySigned'
  BY <1>3, <1>6 DEF AuthInv, OnlySigned, Signed
<1>10. UnderWay' /\ EmptyIsUnserved' /\ ServedOnce' /\ TableBounded'
  BY <1>3 DEF AuthInv, UnderWay, EmptyIsUnserved, ServedOnce, TableBounded
<1>11. ExpiryOfStamp' /\ SweptLate'
  BY <1>2, <1>3, <1>5, <1>6 DEF AuthInv, ExpiryOfStamp, SweptLate
<1> QED
  BY <1>7, <1>8, <1>9, <1>10, <1>11 DEF AuthInv

\* A sweep removes only reservations whose expiry the clock has passed: what was served stays
\* remembered, or was stamped too long ago to be admitted again.
LEMMA SweepKeeps ==
  ASSUME AuthInv, NEW S, S \subseteq Reserved, Reserved \ S \subseteq Expired,
         nonces' = Keep(S), UNCHANGED <<now, setback, sent, served>>,
         reserving = NoRequest, reserving' = NoRequest
  PROVE  AuthInv'
<1>1. Reserved' = S /\ \A n \in S : nonces'[n] = nonces[n]
  BY DEF Keep, Reserved
<1>2. AuthTypeOK'
  BY <1>1 DEF AuthInv, AuthTypeOK
<1>3. OneRequestEach' /\ OnlySigned' /\ ServedOnce'
  BY <1>1 DEF AuthInv, OneRequestEach, OnlySigned, Signed, ServedOnce
<1>4. UnderWay' /\ EmptyIsUnserved'
  BY <1>1 DEF AuthInv, UnderWay, EmptyIsUnserved
<1>5. ExpiryOfStamp'
  BY <1>1 DEF AuthInv, ExpiryOfStamp
<1>6. ASSUME NEW r \in sent, served[r.nonce] > 0, r.nonce \notin S
      PROVE  r.created + Retention < now + setback
  <2>1. CASE r.nonce \notin Reserved
    BY <1>6, <2>1 DEF AuthInv, SweptLate
  <2>2. CASE r.nonce \in Reserved
    <3>1. nonces[r.nonce] # Empty /\ nonces[r.nonce] < now
      BY <1>6, <2>2 DEF Expired
    <3>2. nonces[r.nonce] = r.created + Retention
      BY <2>2, <3>1 DEF AuthInv, ExpiryOfStamp
    <3>3. r.created \in Int /\ now \in Int /\ setback \in Nat /\ Retention \in Nat
      BY AuthAssumption DEF AuthInv, AuthTypeOK
    <3> QED
      BY <3>1, <3>2, <3>3
  <2> QED
    BY <2>1, <2>2
<1>7. SweptLate'
  BY <1>1, <1>6 DEF SweptLate
<1>8. TableBounded'
  <2>1. IsFiniteSet(S) /\ Cardinality(S) \in Nat /\ Cardinality(S) <= Cardinality(Reserved)
    BY PartBounded DEF AuthInv, TableBounded
  <2>2. Cardinality(Reserved) \in Nat /\ Cardinality(Reserved) <= MaxNonces
    BY FS_CardinalityType DEF AuthInv, TableBounded
  <2> QED
    BY <1>1, <2>1, <2>2, AuthAssumption DEF TableBounded
<1> QED
  BY <1>2, <1>3, <1>4, <1>5, <1>7, <1>8 DEF AuthInv

\* The heart of the replay window: what verify_request admits was never served, because a served
\* request is still reserved or older than the clock, set back as it may be, can make acceptable.
LEMMA AdmittedIsUnserved ==
  ASSUME AuthInv, NEW r \in sent, InWindow(r), r.nonce \notin Survivors
  PROVE  r.nonce \notin Reserved /\ served[r.nonce] = 0
<1>1. /\ r.created \in Int /\ r.nonce \in Nonces /\ now \in Int /\ setback \in Nat
      /\ setback <= MaxSetback /\ served[r.nonce] \in Nat
  BY AuthAssumption DEF AuthInv, AuthTypeOK
<1>2. /\ Retention \in Nat /\ Window \in Nat /\ MaxSetback \in Nat
      /\ MaxSetback <= Retention - Window
  BY AuthAssumption
<1>3. now <= r.created + Window
  BY DEF InWindow
<1>4. r.nonce \notin Reserved
  <2> SUFFICES ASSUME r.nonce \in Reserved PROVE FALSE
    OBVIOUS
  <2>1. nonces[r.nonce] # Empty /\ nonces[r.nonce] < now
    BY DEF Survivors, Expired
  <2>2. nonces[r.nonce] = r.created + Retention
    BY <2>1 DEF AuthInv, ExpiryOfStamp
  <2> QED
    BY <1>1, <1>2, <1>3, <2>1, <2>2
<1>5. served[r.nonce] > 0 => r.created + Retention < now + setback
  BY <1>4 DEF AuthInv, SweptLate
<1> QED
  BY <1>1, <1>2, <1>3, <1>4, <1>5

\* The O_EXCL creation of the nonce's file.
LEMMA AdmitKeeps == ASSUME AuthInv, NEW r \in sent, Admit(r) PROVE AuthInv'
<1>1. r.nonce \notin Reserved /\ served[r.nonce] = 0
  BY AdmittedIsUnserved DEF Admit
<1>2. r.nonce \in Nonces /\ Survivors \subseteq Reserved
  BY DEF AuthInv, AuthTypeOK, Survivors
<1>3. Reserved' = Survivors \cup {r.nonce} /\ nonces'[r.nonce] = Empty
  BY <1>1, <1>2 DEF Admit, Reserved, Survivors
<1>4. \A n \in Survivors : nonces'[n] = nonces[n]
  BY DEF Admit
<1>5. UNCHANGED <<now, setback, sent, served>> /\ reserving' = r
  BY DEF Admit
<1>6. AuthTypeOK'
  BY <1>2, <1>3, <1>4, <1>5 DEF AuthInv, AuthTypeOK
<1>7. OneRequestEach' /\ ServedOnce'
  BY <1>5 DEF AuthInv, OneRequestEach, ServedOnce
<1>8. OnlySigned'
  BY <1>2, <1>3, <1>5 DEF AuthInv, OnlySigned, Signed
<1>9. UnderWay' /\ EmptyIsUnserved'
  BY <1>1, <1>2, <1>3, <1>4, <1>5 DEF AuthInv, UnderWay, EmptyIsUnserved
<1>10. ExpiryOfStamp'
  BY <1>2, <1>3, <1>4, <1>5 DEF AuthInv, ExpiryOfStamp
<1>11. ASSUME NEW q \in sent, served[q.nonce] > 0, q.nonce \notin Reserved'
       PROVE  q.created + Retention < now + setback
  <2>1. CASE q.nonce \notin Reserved
    BY <1>11, <2>1 DEF AuthInv, SweptLate
  <2>2. CASE q.nonce \in Reserved
    <3>1. nonces[q.nonce] # Empty /\ nonces[q.nonce] < now
      BY <1>3, <1>11, <2>2 DEF Survivors, Expired
    <3>2. nonces[q.nonce] = q.created + Retention
      BY <2>2, <3>1 DEF AuthInv, ExpiryOfStamp
    <3>3. q.created \in Int /\ now \in Int /\ setback \in Nat /\ Retention \in Nat
      BY AuthAssumption DEF AuthInv, AuthTypeOK
    <3> QED
      BY <3>1, <3>2, <3>3
  <2> QED
    BY <2>1, <2>2
<1>12. SweptLate'
  BY <1>5, <1>11 DEF SweptLate
<1>13. TableBounded'
  <2>1. IsFiniteSet(Survivors) /\ Cardinality(Survivors) \in Nat
    BY <1>2, PartBounded DEF AuthInv, TableBounded
  <2>2. r.nonce \notin Survivors /\ Cardinality(Survivors) < MaxNonces
    BY DEF Admit, HasBudget
  <2>3. /\ IsFiniteSet(Survivors \cup {r.nonce})
        /\ Cardinality(Survivors \cup {r.nonce}) = Cardinality(Survivors) + 1
    BY <2>1, <2>2, FS_AddElement
  <2> QED
    BY <1>3, <2>1, <2>2, <2>3, AuthAssumption DEF TableBounded
<1> QED
  BY <1>6, <1>7, <1>8, <1>9, <1>10, <1>12, <1>13 DEF AuthInv

\* The expiry is written and the request is served: for the first time.
LEMMA WriteExpiryKeeps == ASSUME AuthInv, WriteExpiry PROVE AuthInv'
<1> DEFINE n == reserving.nonce
<1>1. reserving \in sent /\ n \in Nonces /\ reserving.created \in Int
  BY DEF WriteExpiry, AuthInv, AuthTypeOK
<1>2. n \in Reserved /\ served[n] = 0
  BY DEF WriteExpiry, AuthInv, UnderWay, EmptyIsUnserved
<1>3. Reserved' = Reserved
  BY DEF WriteExpiry, Reserved
<1>4. nonces'[n] = reserving.created + Retention /\ \A m \in Reserved \ {n} : nonces'[m] = nonces[m]
  BY <1>2 DEF WriteExpiry, Reserved
<1>5. served'[n] = 1 /\ \A m \in Nonces \ {n} : served'[m] = served[m]
  BY <1>1, <1>2 DEF WriteExpiry, AuthInv, AuthTypeOK
<1>6. served' \in [Nonces -> Nat]
  BY <1>1, <1>2 DEF WriteExpiry, AuthInv, AuthTypeOK
<1>7. UNCHANGED <<now, setback, sent>> /\ reserving' = NoRequest
  BY DEF WriteExpiry
<1>8. reserving.created + Retention \in Int /\ reserving.created + Retention # Empty
  BY <1>1, AuthAssumption
<1>9. \A r \in sent : r.nonce = n => r = reserving
  BY <1>1 DEF AuthInv, OneRequestEach
<1>10. Signed(n)
  BY <1>1 DEF Signed
<1> HIDE DEF n
<1>11. AuthTypeOK'
  BY <1>3, <1>4, <1>6, <1>7, <1>8 DEF AuthInv, AuthTypeOK
<1>12. OneRequestEach' /\ UnderWay' /\ TableBounded'
  BY <1>3, <1>7 DEF AuthInv, OneRequestEach, UnderWay, TableBounded
<1>13. OnlySigned'
  <2>1. \A m \in Nonces : Signed(m)' <=> Signed(m)
    BY <1>7 DEF Signed
  <2> QED
    BY <1>3, <1>5, <1>10, <2>1 DEF AuthInv, OnlySigned
<1>14. EmptyIsUnserved'
  BY <1>3, <1>4, <1>5, <1>8 DEF AuthInv, AuthTypeOK, EmptyIsUnserved
<1>15. ServedOnce'
  BY <1>5 DEF AuthInv, ServedOnce
<1>16. ExpiryOfStamp'
  BY <1>3, <1>4, <1>7, <1>9 DEF AuthInv, ExpiryOfStamp
<1>17. SweptLate'
  BY <1>2, <1>3, <1>5, <1>7 DEF AuthInv, AuthTypeOK, SweptLate
<1> QED
  BY <1>11, <1>12, <1>13, <1>14, <1>15, <1>16, <1>17 DEF AuthInv

\* Steps of the handler's death and of the clock: the clock and its setback never go down together.
LEMMA ClockKeeps ==
  ASSUME AuthInv, UNCHANGED <<sent, nonces, served>>, reserving' \in {reserving, NoRequest},
         now' \in Int, setback' \in 0..MaxSetback, now + setback <= now' + setback'
  PROVE  AuthInv'
<1>1. Reserved' = Reserved
  BY DEF Reserved
<1>2. AuthTypeOK'
  BY <1>1 DEF AuthInv, AuthTypeOK
<1>3. OneRequestEach' /\ OnlySigned' /\ UnderWay' /\ EmptyIsUnserved' /\ ExpiryOfStamp' /\ ServedOnce'
  BY <1>1 DEF AuthInv, OneRequestEach, OnlySigned, Signed, UnderWay, EmptyIsUnserved, ExpiryOfStamp, ServedOnce
<1>4. TableBounded'
  BY <1>1 DEF AuthInv, TableBounded
<1>5. SweptLate'
  <2>1. now \in Int /\ setback \in Nat /\ setback' \in Nat /\ Retention \in Nat
    BY AuthAssumption DEF AuthInv, AuthTypeOK
  <2>2. ASSUME NEW r \in sent, served[r.nonce] > 0, r.nonce \notin Reserved
        PROVE  r.created + Retention < now' + setback'
    <3>1. r.created + Retention < now + setback
      BY <2>2 DEF AuthInv, SweptLate
    <3>2. r.created \in Int
      BY DEF AuthInv, AuthTypeOK
    <3>3. /\ r.created + Retention \in Int /\ now + setback \in Int
          /\ now' + setback' \in Int
      BY <2>1, <3>2
    <3> DEFINE a == r.created + Retention
               b == now + setback
               c == now' + setback'
    <3>4. a \in Int /\ b \in Int /\ c \in Int /\ a < b /\ b <= c
      BY <3>1, <3>3
    <3> HIDE DEF a, b, c
    <3>5. a < c
      BY <3>4
    <3> QED
      BY <3>5 DEF a, c
  <2> QED
    BY <1>1, <2>2 DEF SweptLate
<1> QED
  BY <1>2, <1>3, <1>4, <1>5 DEF AuthInv

\* Every step keeps the invariant.
LEMMA AuthInvStep == AuthInv /\ [AuthNext]_authVars => AuthInv'
<1> SUFFICES ASSUME AuthInv, [AuthNext]_authVars PROVE AuthInv'
  OBVIOUS
<1>1. now \in Int /\ setback \in 0..MaxSetback /\ setback \in Nat /\ MaxSetback \in Nat
  BY AuthAssumption DEF AuthInv, AuthTypeOK
<1>2. CASE \E n \in Nonces : Sign(n)
  BY <1>2, SignKeeps
<1>3. CASE \E r \in sent : Admit(r)
  BY <1>3, AdmitKeeps
<1>4. CASE \E r \in sent : Refuse(r)
  <2>1. Survivors \subseteq Reserved /\ Reserved \ Survivors \subseteq Expired
    BY DEF Survivors
  <2> QED
    BY <1>4, <2>1, SweepKeeps DEF Refuse
<1>5. CASE \E r \in sent : RefuseUnreadable(r)
  <2>1. PICK swept \in SUBSET Expired : nonces' = Keep(Reserved \ swept)
    BY <1>5 DEF RefuseUnreadable
  <2>2. Reserved \ swept \subseteq Reserved /\ Reserved \ (Reserved \ swept) \subseteq Expired
    OBVIOUS
  <2> QED
    BY <1>5, <2>1, <2>2, SweepKeeps DEF RefuseUnreadable
<1>6. CASE WriteExpiry
  BY <1>6, WriteExpiryKeeps
<1>7. CASE HandlerDies
  BY <1>1, <1>7, ClockKeeps DEF HandlerDies
<1>8. CASE AuthTick
  BY <1>1, <1>8, ClockKeeps DEF AuthTick
<1>9. CASE SetClockBack
  BY <1>1, <1>9, ClockKeeps DEF SetClockBack
<1>10. CASE UNCHANGED authVars
  BY <1>1, <1>10, ClockKeeps DEF authVars
<1> QED
  BY <1>2, <1>3, <1>4, <1>5, <1>6, <1>7, <1>8, <1>9, <1>10 DEF AuthNext

\* verify_request keeps its invariant in every reachable state.
THEOREM AuthInvariant == AuthSpec => []AuthInv
<1>1. AuthInv /\ [AuthNext]_authVars => AuthInv'
  BY AuthInvStep
<1> QED
  BY <1>1, AuthInvInit, PTL DEF AuthSpec

\* No signed request is served twice and the replay table keeps its bound, for every window,
\* retention, bound and number of requests, as long as the clock is set back by no more than
\* Retention - Window in total.
THEOREM NothingIsReplayed == AuthSpec => []NoReplay
<1>1. AuthInv => NoReplay
  BY DEF AuthInv, NoReplay, TableBounded, ReservationsBounded
<1> QED
  BY <1>1, AuthInvariant, PTL

-----------------------------------------------------------------------------
(* Chunked uploads.                                                         *)

\* A request keeps its directory until it is done, and what it wants to acknowledge is accepted.
RequestOK ==
  request # NoUpload =>
    /\ dir[request.u] # NoUpload
    /\ request.step \in {"total", "part"} => request.req # Commit
    /\ request.step \in {"receipt", "unlink"} => request.u \in taken

ReceiptOK == \A u \in Uploads : dir[u] # NoUpload /\ dir[u].receipt => u \in taken
DoneOK == \A u \in Uploads : pr[u].state = "done" => u \in taken

ChunkInv == ChunkTypeOK /\ RequestOK /\ ReceiptOK /\ DoneOK

\* Whatever a step does to the producers, it tells none of them that its upload is done, unless
\* it is the one of upload u and settled is true.
Tells(u, settled) ==
  /\ pr' \in [Uploads -> Producer]
  /\ \A v \in Uploads : pr'[v].state = "done" => pr[v].state = "done" \/ (v = u /\ settled)

\* Facts about the numbers and about the fixed records.
LEMMA ChunkFacts ==
  /\ Total \in Nat /\ Total > 0 /\ TTL \in Nat /\ TTL > 0 /\ Commit \in Nat /\ Commit = Total + 1
  /\ NoUpload \notin Uploads /\ NoUpload \notin Directory
  /\ Idle \in Producer /\ Idle.state = "idle" /\ Fresh \in Directory /\ ~Fresh.receipt
BY ChunkAssumed DEF ChunkAssumption, Commit, Idle, Fresh, Producer, Directory, Parts

\* Each file step of a request keeps a directory a directory; only the receipt's own step
\* changes the receipt.
LEMMA TouchTyped ==
  ASSUME NEW d \in Directory
  PROVE  Touch(d) \in Directory /\ Touch(d).receipt = d.receipt
<1>1. 0 \in 0..(TTL + 1)
  BY ChunkFacts
<1> QED
  BY <1>1 DEF Touch, Directory

\* An edit of the tree leaves a tree.
LEMMA EditTyped ==
  ASSUME NEW d \in Directory
  PROVE  /\ [d EXCEPT !.total = TRUE] \in Directory
         /\ [d EXCEPT !.total = TRUE].receipt = d.receipt
         /\ [d EXCEPT !.receipt = TRUE] \in Directory
         /\ \A i \in Parts : /\ [d EXCEPT !.parts = d.parts \cup {i}] \in Directory
                             /\ [d EXCEPT !.parts = d.parts \cup {i}].receipt = d.receipt
         /\ \A i : /\ [d EXCEPT !.parts = d.parts \ {i}] \in Directory
                   /\ [d EXCEPT !.parts = d.parts \ {i}].receipt = d.receipt
<1>1. d.parts \subseteq Parts
  BY DEF Directory
<1>2. /\ [d EXCEPT !.total = TRUE] \in Directory
      /\ [d EXCEPT !.total = TRUE].receipt = d.receipt
      /\ [d EXCEPT !.receipt = TRUE] \in Directory
  BY DEF Directory
<1>3. ASSUME NEW i \in Parts
      PROVE  /\ [d EXCEPT !.parts = d.parts \cup {i}] \in Directory
             /\ [d EXCEPT !.parts = d.parts \cup {i}].receipt = d.receipt
  BY <1>1 DEF Directory
<1>4. ASSUME NEW i
      PROVE  /\ [d EXCEPT !.parts = d.parts \ {i}] \in Directory
             /\ [d EXCEPT !.parts = d.parts \ {i}].receipt = d.receipt
  BY <1>1 DEF Directory
<1> QED
  BY <1>2, <1>3, <1>4

\* A fault is counted within its bound.
LEMMA MishapTyped == ASSUME losses \in 0..MaxLosses, Mishap PROVE losses' \in 0..MaxLosses
BY ChunkAssumed DEF ChunkAssumption, Mishap

\* An answer moves its producer on; only the answer to the commit completes the upload.
LEMMA AnswerTells ==
  ASSUME pr \in [Uploads -> Producer], NEW u \in Uploads, NEW req, Answer(u, req)
  PROVE  Tells(u, req = Commit)
<1>1. CASE ~Waiting(u, req)
  BY <1>1 DEF Answer, Tells
<1>2. CASE Waiting(u, req)
  <2>1. pr[u] \in Producer /\ pr[u].req = req /\ pr' = [pr EXCEPT ![u] = Advance(pr[u])]
    BY <1>2 DEF Answer, Waiting
  <2>2. CASE req = Commit
    <3>1. Advance(pr[u]) = [pr[u] EXCEPT !.state = "done"]
      BY <2>1, <2>2 DEF Advance
    <3>2. Advance(pr[u]) \in Producer
      BY <2>1, <3>1 DEF Producer
    <3> QED
      BY <2>1, <2>2, <3>2 DEF Tells
  <2>3. CASE req # Commit
    <3>1. Advance(pr[u]) = [pr[u] EXCEPT !.state = "next", !.req = pr[u].req + 1]
      BY <2>1, <2>3 DEF Advance
    <3>2. pr[u].req + 1 \in 1..Commit
      BY <2>1, <2>3, ChunkFacts DEF Producer
    <3>3. Advance(pr[u]) \in Producer /\ Advance(pr[u]).state = "next"
      BY <2>1, <3>1, <3>2 DEF Producer
    <3> QED
      BY <2>1, <2>3, <3>3 DEF Tells
  <2> QED
    BY <2>2, <2>3
<1> QED
  BY <1>1, <1>2

\* A refusal completes no upload.
LEMMA RaiseTells ==
  ASSUME pr \in [Uploads -> Producer], NEW u \in Uploads, NEW req, NEW final \in BOOLEAN,
         Raise(u, req, final)
  PROVE  Tells(u, FALSE)
<1>1. [Idle EXCEPT !.state = "refused"] \in Producer
  BY ChunkFacts DEF Producer
<1>2. [Idle EXCEPT !.state = "refused"].state = "refused"
  BY DEF Idle
<1> QED
  BY <1>1, <1>2, ChunkFacts DEF Raise, Tells

\* What a step has to respect so that receipts stay backed: acceptances are not forgotten, a new
\* receipt and a new "done" stand for an accepted upload.
LEMMA BackedKept ==
  ASSUME ChunkInv, NEW u, NEW settled \in BOOLEAN, Tells(u, settled), taken \subseteq taken',
         settled => u \in taken',
         \A v \in Uploads : dir'[v] # NoUpload /\ dir'[v].receipt =>
           v \in taken' \/ (dir[v] # NoUpload /\ dir[v].receipt)
  PROVE  ReceiptOK' /\ DoneOK'
BY DEF ChunkInv, ReceiptOK, DoneOK, Tells

\* The sweep of put forgets whole directories.
LEMMA SweptFacts ==
  ASSUME ChunkInv
  PROVE  /\ Swept \in [Uploads -> Directory \cup {NoUpload}]
         /\ \A v \in Uploads : Swept[v] # NoUpload => Swept[v] = dir[v]
BY DEF ChunkInv, ChunkTypeOK, Swept

\* Steps that take a request off the network and answer or refuse it at once.
LEMMA TakenOff ==
  ASSUME ChunkInv, NEW u \in Uploads, NEW settled \in BOOLEAN, Tells(u, settled),
         settled => u \in taken, net' \subseteq net, UNCHANGED store,
         request' \in {request, NoUpload}, losses' \in 0..MaxLosses,
         dir' \in [Uploads -> Directory \cup {NoUpload}],
         request' # NoUpload => dir'[request.u] # NoUpload,
         \A v \in Uploads : dir'[v] # NoUpload /\ dir'[v].receipt =>
           v \in taken \/ (dir[v] # NoUpload /\ dir[v].receipt)
  PROVE  ChunkInv'
<1>1. taken' = taken /\ latest' = latest
  BY DEF store
<1>2. ReceiptOK' /\ DoneOK'
  BY <1>1, BackedKept
<1>3. ChunkTypeOK'
  BY <1>1 DEF ChunkInv, ChunkTypeOK, Tells
<1>4. RequestOK'
  BY <1>1 DEF ChunkInv, RequestOK
<1> QED
  BY <1>2, <1>3, <1>4 DEF ChunkInv

-----------------------------------------------------------------------------
(* put *)

\* A part is refused, or acknowledged because it is there.
LEMMA PutAnsweredKeeps ==
  ASSUME ChunkInv, NEW u \in Uploads, NEW i \in Parts, PutRefused(u, i) \/ PutKnown(u, i)
  PROVE  ChunkInv'
<1>1. pr \in [Uploads -> Producer] /\ losses \in 0..MaxLosses /\ net' \subseteq net
  BY DEF ChunkInv, ChunkTypeOK, PutRefused, PutKnown
<1>2. UNCHANGED <<store, request, losses>> /\ request = NoUpload /\ i # Commit
  BY DEF PutRefused, PutKnown
<1>3. CASE PutRefused(u, i)
  <2>1. Tells(u, FALSE)
    BY <1>1, <1>3, RaiseTells DEF PutRefused
  <2>2. dir' = Swept
    BY <1>3 DEF PutRefused
  <2> QED
    BY <1>1, <1>2, <2>1, <2>2, SweptFacts, TakenOff
<1>4. CASE PutKnown(u, i)
  <2>1. Tells(u, FALSE)
    <3>1. Answer(u, i)
      BY <1>4 DEF PutKnown
    <3>2. Tells(u, i = Commit)
      BY <1>1, <3>1, AnswerTells
    <3> QED
      BY <1>2, <3>2 DEF Tells
  <2>2. Swept[u] \in Directory
    BY <1>4, SweptFacts DEF PutKnown
  <2>3. Touch(Swept[u]) \in Directory /\ Touch(Swept[u]).receipt = Swept[u].receipt
    BY <2>2, TouchTyped
  <2>4. dir' = Swept \/ dir' = [Swept EXCEPT ![u] = Touch(Swept[u])]
    BY <1>4 DEF PutKnown
  <2>6. dir' \in [Uploads -> Directory \cup {NoUpload}]
    BY <2>3, <2>4, SweptFacts
  <2>7. \A v \in Uploads : dir'[v] # NoUpload /\ dir'[v].receipt =>
          dir[v] # NoUpload /\ dir[v].receipt
    BY <2>2, <2>3, <2>4, SweptFacts, ChunkFacts
  <2> QED
    BY <1>1, <1>2, <2>1, <2>6, <2>7, TakenOff
<1> QED
  BY <1>3, <1>4

\* The directory is there before the request goes on to its files.
LEMMA PutBeginKeeps ==
  ASSUME ChunkInv, NEW u \in Uploads, NEW i \in Parts, PutBegin(u, i) PROVE ChunkInv'
<1> DEFINE d == IF Swept[u] = NoUpload THEN Fresh ELSE Swept[u]
<1>1. dir' = [Swept EXCEPT ![u] = d] /\ d \in Directory
  BY SweptFacts, ChunkFacts DEF PutBegin
<1>2. ~Fresh.receipt
  BY ChunkFacts
<1>3. d.receipt => Swept[u] # NoUpload /\ Swept[u].receipt
  BY <1>2
<1> HIDE DEF d
<1>4. dir' \in [Uploads -> Directory \cup {NoUpload}] /\ dir'[u] = d /\ dir'[u] # NoUpload
  BY <1>1, SweptFacts, ChunkFacts
<1>5. UNCHANGED <<store, pr, losses>> /\ net' \subseteq net /\ i # Commit
  BY DEF PutBegin
<1>6. request' = [u |-> u, req |-> i, step |-> IF dir'[u].total THEN "part" ELSE "total"]
  BY DEF PutBegin
<1>7. i \in 1..Commit
  BY ChunkFacts DEF Parts
<1>8. request' \in ChunkRequest /\ request'.u = u /\ request'.req = i /\ request'.step \in {"total", "part"}
  BY <1>6, <1>7 DEF ChunkRequest
<1>9. taken' = taken /\ latest' = latest
  BY <1>5 DEF store
<1>10. ChunkTypeOK'
  BY <1>4, <1>5, <1>8, <1>9 DEF ChunkInv, ChunkTypeOK
<1>11. RequestOK'
  BY <1>4, <1>5, <1>8 DEF RequestOK
<1>12. ReceiptOK'
  BY <1>1, <1>3, <1>4, <1>9, SweptFacts DEF ChunkInv, ReceiptOK
<1>13. DoneOK'
  BY <1>5, <1>9 DEF ChunkInv, DoneOK
<1> QED
  BY <1>10, <1>11, <1>12, <1>13 DEF ChunkInv

-----------------------------------------------------------------------------
(* Steps of the request under way on its own directory.                     *)

\* The request's directory is rewritten, with a receipt only if the upload is accepted; the
\* request goes on or ends, with an answer that is backed.
LEMMA OwnDirectoryKept ==
  ASSUME ChunkInv, request # NoUpload, NEW d \in Directory,
         dir' = [dir EXCEPT ![request.u] = d],
         d.receipt => dir[request.u].receipt \/ request.u \in taken,
         NEW settled \in BOOLEAN, Tells(request.u, settled), settled => request.u \in taken,
         UNCHANGED <<store, net, losses>>, request' \in ChunkRequest \cup {NoUpload},
         request' # NoUpload =>
           /\ request'.u = request.u /\ request'.req = request.req
           /\ request'.step \in {"total", "part"} => request.step \in {"total", "part"}
           /\ request'.step \in {"receipt", "unlink"} => request.u \in taken
  PROVE  ChunkInv'
<1>1. request \in ChunkRequest /\ request.u \in Uploads /\ dir[request.u] # NoUpload
  BY DEF ChunkInv, ChunkTypeOK, RequestOK, ChunkRequest
<1>2. taken' = taken /\ latest' = latest
  BY DEF store
<1>3. dir' \in [Uploads -> Directory \cup {NoUpload}] /\ dir'[request.u] = d
  BY <1>1 DEF ChunkInv, ChunkTypeOK
<1>4. \A v \in Uploads : dir'[v] # NoUpload /\ dir'[v].receipt =>
        v \in taken' \/ (dir[v] # NoUpload /\ dir[v].receipt)
  BY <1>1, <1>2, <1>3 DEF ChunkInv, ChunkTypeOK
<1>5. ReceiptOK' /\ DoneOK'
  BY <1>1, <1>2, <1>4, BackedKept
<1>6. ChunkTypeOK'
  BY <1>2, <1>3 DEF ChunkInv, ChunkTypeOK, Tells
<1>7. RequestOK'
  BY <1>1, <1>2, <1>3, ChunkFacts DEF ChunkInv, RequestOK
<1> QED
  BY <1>5, <1>6, <1>7 DEF ChunkInv

\* Nobody is told anything by a step that leaves the producers alone.
LEMMA Silent == ASSUME ChunkInv, NEW u, UNCHANGED pr PROVE Tells(u, FALSE)
BY DEF ChunkInv, ChunkTypeOK, Tells

\* total, part, receipt and deletions: one file of the request's directory each.
LEMMA OwnFileKeeps ==
  ASSUME ChunkInv, PutTotal \/ PutPart \/ WriteReceipt \/ UnlinkPart \/ CommitReply
  PROVE  ChunkInv'
<1> DEFINE u == request.u
           d == dir[u]
<1>1. request # NoUpload /\ request \in ChunkRequest /\ u \in Uploads
  BY DEF ChunkInv, ChunkTypeOK, ChunkRequest, PutTotal, PutPart, WriteReceipt, UnlinkPart, CommitReply
<1>2. d \in Directory /\ d # NoUpload /\ dir \in [Uploads -> Directory \cup {NoUpload}]
  BY <1>1 DEF ChunkInv, ChunkTypeOK, RequestOK
<1>3. pr \in [Uploads -> Producer]
  BY DEF ChunkInv, ChunkTypeOK
<1>4. CASE PutTotal
  <2> DEFINE e == Touch([d EXCEPT !.total = TRUE])
  <2>1. e \in Directory /\ e.receipt = d.receipt
    BY <1>2, EditTyped, TouchTyped
  <2>2. dir' = [dir EXCEPT ![u] = e]
    BY <1>4 DEF PutTotal
  <2>3. request' \in ChunkRequest /\ request'.u = u /\ request'.req = request.req /\ request'.step = "part"
    BY <1>1, <1>4 DEF PutTotal, ChunkRequest
  <2>4. UNCHANGED <<store, net, pr, losses>> /\ request.step = "total"
    BY <1>4 DEF PutTotal
  <2> HIDE DEF e
  <2> QED
    BY <1>1, <2>1, <2>2, <2>3, <2>4, Silent, OwnDirectoryKept
<1>5. CASE PutPart
  <2> DEFINE e == Touch([d EXCEPT !.parts = d.parts \cup {request.req}])
  <2>1. request.req \in Parts /\ request.req # Commit
    BY <1>1, <1>5, ChunkFacts DEF PutPart, ChunkInv, RequestOK, ChunkRequest, Parts
  <2>2. e \in Directory /\ e.receipt = d.receipt
    BY <1>2, <2>1, EditTyped, TouchTyped
  <2>3. dir' = [dir EXCEPT ![u] = e]
    BY <1>5 DEF PutPart, WithPart
  <2>4. Tells(u, FALSE)
    <3>1. Tells(u, request.req = Commit)
      BY <1>1, <1>3, <1>5, AnswerTells DEF PutPart
    <3> QED
      BY <2>1, <3>1 DEF Tells
  <2>5. UNCHANGED <<store, net, losses>> /\ request' = NoUpload
    BY <1>5 DEF PutPart
  <2> HIDE DEF e
  <2> QED
    BY <1>1, <2>2, <2>3, <2>4, <2>5, OwnDirectoryKept
<1>6. CASE WriteReceipt
  <2> DEFINE e == Touch([d EXCEPT !.receipt = TRUE])
  <2>1. e \in Directory
    BY <1>2, EditTyped, TouchTyped
  <2>2. dir' = [dir EXCEPT ![u] = e]
    BY <1>6 DEF WriteReceipt
  <2>3. request' \in ChunkRequest /\ request'.u = u /\ request'.req = request.req /\ request'.step = "unlink"
    BY <1>1, <1>6 DEF WriteReceipt, ChunkRequest
  <2>4. UNCHANGED <<store, net, pr, losses>> /\ u \in taken
    BY <1>6 DEF WriteReceipt, ChunkInv, RequestOK
  <2> HIDE DEF e
  <2> QED
    BY <1>1, <2>1, <2>2, <2>3, <2>4, Silent, OwnDirectoryKept
<1>7. CASE UnlinkPart
  <2>1. PICK i \in d.parts : dir' = [dir EXCEPT ![u] = WithoutPart(d, i)]
    BY <1>7 DEF UnlinkPart
  <2> DEFINE e == Touch([d EXCEPT !.parts = d.parts \ {i}])
  <2>2. e \in Directory /\ e.receipt = d.receipt
    <3>1. PICK b : b = [d EXCEPT !.parts = d.parts \ {i}]
      OBVIOUS
    <3>2. b \in Directory /\ b.receipt = d.receipt
      BY <1>2, <3>1, EditTyped
    <3>3. Touch(b) \in Directory /\ Touch(b).receipt = d.receipt
      BY <3>2, TouchTyped
    <3> QED
      BY <3>1, <3>3
  <2>3. dir' = [dir EXCEPT ![u] = e]
    BY <2>1 DEF WithoutPart
  <2>4. UNCHANGED <<store, net, pr, losses>> /\ request' = request /\ u \in taken
    BY <1>7 DEF UnlinkPart, ChunkInv, RequestOK
  <2> HIDE DEF e
  <2> QED
    BY <1>1, <2>2, <2>3, <2>4, Silent, OwnDirectoryKept
<1>8. CASE CommitReply
  <2>1. Touch(d) \in Directory /\ Touch(d).receipt = d.receipt
    BY <1>2, TouchTyped
  <2>2. dir' = [dir EXCEPT ![u] = Touch(d)]
    BY <1>8 DEF CommitReply
  <2>3. Tells(u, TRUE)
    <3>1. Tells(u, Commit = Commit)
      BY <1>1, <1>3, <1>8, AnswerTells DEF CommitReply
    <3> QED
      BY <3>1 DEF Tells
  <2>4. UNCHANGED <<store, net, losses>> /\ request' = NoUpload /\ u \in taken
    BY <1>8 DEF CommitReply, ChunkInv, RequestOK
  <2> QED
    BY <1>1, <2>1, <2>2, <2>3, <2>4, OwnDirectoryKept
<1> QED
  BY <1>4, <1>5, <1>6, <1>7, <1>8

-----------------------------------------------------------------------------
(* commit *)

\* A commit that is answered from its receipt, or refused because parts are missing.
LEMMA CommitAnsweredKeeps ==
  ASSUME ChunkInv, NEW u \in Uploads, CommitKnown(u) \/ CommitRefused(u) PROVE ChunkInv'
<1>1. /\ pr \in [Uploads -> Producer] /\ losses \in 0..MaxLosses
      /\ dir \in [Uploads -> Directory \cup {NoUpload}]
  BY DEF ChunkInv, ChunkTypeOK
<1>2. UNCHANGED <<dir, store, request, losses>> /\ request = NoUpload /\ net' \subseteq net
  BY DEF CommitKnown, CommitRefused
<1>3. CASE CommitKnown(u)
  <2>1. Tells(u, TRUE)
    <3>1. Tells(u, Commit = Commit)
      BY <1>1, <1>3, AnswerTells DEF CommitKnown
    <3> QED
      BY <3>1 DEF Tells
  <2>2. u \in taken
    BY <1>3 DEF CommitKnown, ChunkInv, ReceiptOK
  <2> QED
    BY <1>1, <1>2, <2>1, <2>2, TakenOff
<1>4. CASE CommitRefused(u)
  <2>1. Tells(u, FALSE)
    BY <1>1, <1>4, RaiseTells DEF CommitRefused
  <2> QED
    BY <1>1, <1>2, <2>1, TakenOff
<1> QED
  BY <1>3, <1>4

\* The parts are assembled and the bundle goes to the store.
LEMMA CommitBeginKeeps == ASSUME ChunkInv, NEW u \in Uploads, CommitBegin(u) PROVE ChunkInv'
<1>1. request' = [u |-> u, req |-> Commit, step |-> "publish"]
  BY DEF CommitBegin
<1>2. request' \in ChunkRequest /\ request'.u = u /\ request'.step = "publish"
  BY <1>1, ChunkFacts DEF ChunkRequest
<1>3. UNCHANGED <<dir, store, pr, losses>> /\ net' \subseteq net /\ dir[u] # NoUpload
  BY DEF CommitBegin, Assembled
<1>4. taken' = taken /\ latest' = latest
  BY <1>3 DEF store
<1>5. ChunkTypeOK'
  BY <1>2, <1>3, <1>4 DEF ChunkInv, ChunkTypeOK
<1>6. RequestOK'
  BY <1>2, <1>3 DEF RequestOK
<1>7. ReceiptOK' /\ DoneOK'
  BY <1>3, <1>4 DEF ChunkInv, ReceiptOK, DoneOK
<1> QED
  BY <1>5, <1>6, <1>7 DEF ChunkInv

\* publish: afterwards the bundle is one the store accepted.
LEMMA PublishKeeps == ASSUME ChunkInv, Publish PROVE ChunkInv'
<1>1. request # NoUpload /\ request \in ChunkRequest /\ request.u \in Uploads
  BY DEF Publish, ChunkInv, ChunkTypeOK, ChunkRequest
<1>2. taken \subseteq taken' /\ request.u \in taken' /\ taken' \subseteq Uploads
  BY <1>1 DEF Publish, Store!Accept, Store!Acknowledged, store, ChunkInv, ChunkTypeOK
<1>3. latest' \in Uploads \cup {NoUpload}
  BY <1>1 DEF Publish, Store!Accept, store, ChunkInv, ChunkTypeOK
<1>4. UNCHANGED <<dir, net, pr, losses>>
  BY DEF Publish
<1>5. request' \in ChunkRequest /\ request'.u = request.u /\ request'.step = "receipt"
  BY <1>1 DEF Publish, ChunkRequest
<1>6. ChunkTypeOK'
  BY <1>2, <1>3, <1>4, <1>5 DEF ChunkInv, ChunkTypeOK
<1>7. RequestOK'
  BY <1>1, <1>2, <1>4, <1>5 DEF ChunkInv, RequestOK
<1>8. ReceiptOK' /\ DoneOK'
  BY <1>2, <1>4 DEF ChunkInv, ReceiptOK, DoneOK
<1> QED
  BY <1>6, <1>7, <1>8 DEF ChunkInv

-----------------------------------------------------------------------------
(* Refusals, crashes, lost requests, producers and time.                    *)

\* A request that ends without having answered: refused by the store, failed, or dead.
LEMMA RequestEndsKeeps == ASSUME ChunkInv, PublishRefused \/ JobFails \/ ReceiverDies PROVE ChunkInv'
<1>1. request \in ChunkRequest /\ request.u \in Uploads
  BY DEF PublishRefused, JobFails, ReceiverDies, ChunkInv, ChunkTypeOK, ChunkRequest
<1>2. pr \in [Uploads -> Producer] /\ dir \in [Uploads -> Directory \cup {NoUpload}]
  BY DEF ChunkInv, ChunkTypeOK
<1>3. Tells(request.u, FALSE)
  BY <1>1, <1>2, RaiseTells DEF PublishRefused, JobFails, ReceiverDies
<1>4. UNCHANGED <<dir, store, net>> /\ request' = NoUpload
  BY DEF PublishRefused, JobFails, ReceiverDies
<1>5. losses' \in 0..MaxLosses
  <2>1. losses \in 0..MaxLosses
    BY DEF ChunkInv, ChunkTypeOK
  <2>2. Mishap \/ UNCHANGED losses
    BY DEF PublishRefused, JobFails, ReceiverDies
  <2> QED
    BY <2>1, <2>2, MishapTyped
<1> QED
  BY <1>1, <1>2, <1>3, <1>4, <1>5, TakenOff

\* The environment around the receiver: requests are sent, lost or given up, producers die.
LEMMA ProducerKeeps ==
  ASSUME ChunkInv, NEW u \in Uploads,
         Send(u) \/ ProducerTimeout(u) \/ Die(u) \/ \E m \in net : m.u = u /\ Lose(m)
  PROVE  ChunkInv'
<1>1. UNCHANGED <<dir, store, request>>
  BY DEF Send, ProducerTimeout, Die, Lose
<1>2. taken' = taken /\ latest' = latest
  BY <1>1 DEF store
<1>3. losses' \in 0..MaxLosses
  BY ChunkAssumed DEF ChunkAssumption, Send, ProducerTimeout, Die, Lose, Mishap, ChunkInv, ChunkTypeOK
<1>4. pr[u] \in Producer /\ pr \in [Uploads -> Producer]
  BY DEF ChunkInv, ChunkTypeOK
<1>5. net' \subseteq [u : Uploads, req : 1..Commit]
  BY <1>4 DEF Send, ProducerTimeout, Die, Lose, ChunkInv, ChunkTypeOK, Producer
<1>6. /\ [pr[u] EXCEPT !.state = "waiting"] \in Producer /\ [pr[u] EXCEPT !.state = "dead"] \in Producer
      /\ [pr[u] EXCEPT !.state = "waiting"].state = "waiting"
      /\ [pr[u] EXCEPT !.state = "dead"].state = "dead"
  BY <1>4 DEF Producer
<1>7. \/ pr' = pr \/ pr' = [pr EXCEPT ![u] = Idle]
      \/ pr' = [pr EXCEPT ![u] = [pr[u] EXCEPT !.state = "waiting"]]
      \/ pr' = [pr EXCEPT ![u] = [pr[u] EXCEPT !.state = "dead"]]
  BY DEF Send, ProducerTimeout, Die, Lose
<1>8. Tells(u, FALSE)
  BY <1>4, <1>6, <1>7, ChunkFacts DEF Tells
<1>9. ChunkTypeOK'
  BY <1>1, <1>2, <1>3, <1>5, <1>8 DEF ChunkInv, ChunkTypeOK, Tells
<1>10. RequestOK'
  BY <1>1, <1>2 DEF ChunkInv, RequestOK
<1>11. ReceiptOK' /\ DoneOK'
  BY <1>1, <1>2, <1>8 DEF ChunkInv, ReceiptOK, DoneOK, Tells
<1> QED
  BY <1>9, <1>10, <1>11 DEF ChunkInv

\* A process that dies while sweeping leaves a directory without some of its files.
LEMMA SweepDiesKeeps == ASSUME ChunkInv, SweepDies PROVE ChunkInv'
<1>1. PICK m \in net : net' = net \ {m} /\ Raise(m.u, m.req, FALSE)
  BY DEF SweepDies
<1>2. PICK u \in StaleDirs, gone \in SUBSET StaleDirs :
        \E left \in [total : BOOLEAN, parts : SUBSET dir[u].parts, receipt : BOOLEAN, age : {0}] :
          /\ left.receipt => dir[u].receipt
          /\ dir' = [v \in Uploads |->
                       IF v \in gone THEN NoUpload ELSE IF v = u THEN left ELSE dir[v]]
  BY DEF SweepDies
<1> PICK left \in [total : BOOLEAN, parts : SUBSET dir[u].parts, receipt : BOOLEAN, age : {0}] :
        /\ left.receipt => dir[u].receipt
        /\ dir' = [v \in Uploads |->
                     IF v \in gone THEN NoUpload ELSE IF v = u THEN left ELSE dir[v]]
  BY <1>2
<1>3. UNCHANGED <<store, request>> /\ request = NoUpload
  BY DEF SweepDies
<1>4. losses' \in 0..MaxLosses
  BY ChunkAssumed DEF ChunkAssumption, SweepDies, Mishap, ChunkInv, ChunkTypeOK
<1>5. pr \in [Uploads -> Producer] /\ m.u \in Uploads /\ u \in Uploads /\ dir[u] \in Directory
      /\ dir[u] # NoUpload
  BY DEF ChunkInv, ChunkTypeOK, StaleDirs
<1>6. Tells(m.u, FALSE)
  BY <1>1, <1>5, RaiseTells
<1>7. left \in Directory
  BY <1>5, ChunkFacts DEF Directory
<1>8. dir' \in [Uploads -> Directory \cup {NoUpload}]
  BY <1>2, <1>7 DEF ChunkInv, ChunkTypeOK
<1>9. \A v \in Uploads : dir'[v] # NoUpload /\ dir'[v].receipt => dir[v] # NoUpload /\ dir[v].receipt
  BY <1>2, <1>5
<1> QED
  BY <1>1, <1>3, <1>4, <1>5, <1>6, <1>8, <1>9, TakenOff

\* Time passes: directories and attempts grow older.
LEMMA ChunkTickKeeps == ASSUME ChunkInv, ChunkTick PROVE ChunkInv'
<1> DEFINE older(u) == IF dir[u] = NoUpload \/ dir[u].age > TTL THEN dir[u]
                       ELSE [dir[u] EXCEPT !.age = dir[u].age + 1]
           tired(u) == IF Trying(u) THEN [pr[u] EXCEPT !.aged = TRUE] ELSE pr[u]
<1>1. dir' = [u \in Uploads |-> older(u)] /\ pr' = [u \in Uploads |-> tired(u)]
  BY DEF ChunkTick
<1>2. \A u \in Uploads : tired(u) \in Producer /\ tired(u).state = pr[u].state
  BY DEF ChunkInv, ChunkTypeOK, Producer
<1>3. ASSUME NEW u \in Uploads, dir[u] # NoUpload
      PROVE  older(u) \in Directory /\ older(u).receipt = dir[u].receipt
  <2>1. dir[u] \in Directory
    BY <1>3 DEF ChunkInv, ChunkTypeOK
  <2>2. CASE dir[u].age > TTL
    BY <2>1, <2>2
  <2>3. CASE ~(dir[u].age > TTL)
    <3>1. dir[u].age + 1 \in 0..(TTL + 1)
      BY <2>1, <2>3, ChunkFacts DEF Directory
    <3>2. older(u) = [dir[u] EXCEPT !.age = dir[u].age + 1]
      BY <1>3, <2>3
    <3> QED
      BY <2>1, <3>1, <3>2 DEF Directory
  <2> QED
    BY <2>2, <2>3
<1>4. \A u \in Uploads : dir[u] = NoUpload => older(u) = NoUpload
  OBVIOUS
<1> HIDE DEF older, tired
<1>5. Tells(NoUpload, FALSE)
  BY <1>1, <1>2 DEF Tells
<1>6. dir' \in [Uploads -> Directory \cup {NoUpload}]
  BY <1>1, <1>3, <1>4
<1>7. \A v \in Uploads : /\ dir[v] # NoUpload => dir'[v] # NoUpload
                         /\ dir'[v] # NoUpload /\ dir'[v].receipt => dir[v] # NoUpload /\ dir[v].receipt
  BY <1>1, <1>3, <1>4, ChunkFacts
<1>8. UNCHANGED <<store, request, net, losses>> /\ taken' = taken /\ latest' = latest
  BY DEF ChunkTick, store
<1>9. ReceiptOK' /\ DoneOK'
  BY <1>5, <1>7, <1>8 DEF ChunkInv, ReceiptOK, DoneOK, Tells
<1>10. ChunkTypeOK'
  BY <1>5, <1>6, <1>8 DEF ChunkInv, ChunkTypeOK, Tells
<1>11. RequestOK'
  BY <1>7, <1>8 DEF ChunkInv, ChunkTypeOK, RequestOK, ChunkRequest
<1> QED
  BY <1>9, <1>10, <1>11 DEF ChunkInv

-----------------------------------------------------------------------------

\* The initial state satisfies the invariant.
LEMMA ChunkInvInit == ChunkInit => ChunkInv
BY ChunkFacts, ChunkAssumed
   DEF ChunkInit, Store!Init, ChunkInv, ChunkTypeOK, RequestOK, ReceiptOK, DoneOK, ChunkAssumption

\* Every step keeps the invariant.
LEMMA ChunkInvStep == ChunkInv /\ [ChunkNext]_chunkVars => ChunkInv'
<1> SUFFICES ASSUME ChunkInv, [ChunkNext]_chunkVars PROVE ChunkInv'
  OBVIOUS
<1>1. CASE Work
  BY <1>1, OwnFileKeeps, PublishKeeps, RequestEndsKeeps DEF Work
<1>2. ASSUME NEW u \in Uploads, Take(u) PROVE ChunkInv'
  BY <1>2, PutAnsweredKeeps, PutBeginKeeps, CommitAnsweredKeeps, CommitBeginKeeps DEF Take
<1>3. ASSUME NEW u \in Uploads, Send(u) \/ ProducerTimeout(u) \/ Die(u) PROVE ChunkInv'
  BY <1>3, ProducerKeeps
<1>4. ASSUME NEW m \in net, Lose(m) PROVE ChunkInv'
  <2>1. m.u \in Uploads
    BY DEF ChunkInv, ChunkTypeOK
  <2> QED
    BY <1>4, <2>1, ProducerKeeps
<1>5. CASE JobFails \/ ReceiverDies
  BY <1>5, RequestEndsKeeps
<1>6. CASE SweepDies
  BY <1>6, SweepDiesKeeps
<1>7. CASE ChunkTick
  BY <1>7, ChunkTickKeeps
<1>8. CASE UNCHANGED chunkVars
  BY <1>8 DEF chunkVars, ChunkInv, ChunkTypeOK, RequestOK, ReceiptOK, DoneOK
<1> QED
  BY <1>1, <1>2, <1>3, <1>4, <1>5, <1>6, <1>7, <1>8 DEF ChunkNext

\* The staging keeps its invariant in every reachable state.
THEOREM ChunkInvariant == ChunkSpec => []ChunkInv
<1>1. ChunkInv /\ [ChunkNext]_chunkVars => ChunkInv'
  BY ChunkInvStep
<1> QED
  BY <1>1, ChunkInvInit, PTL DEF ChunkSpec

-----------------------------------------------------------------------------
(* Bundles given up.                                                        *)

\* A bundle is given up when the store is past it, and the store never goes back.
RefusedOK ==
  \A u \in Uploads : pr[u].state = "refused" =>
    u \notin taken /\ latest # NoUpload /\ u.seq <= latest.seq

\* What a step may do to the producers and the store: nobody new gives up, except the producer of
\* the request under way whose bundle the store is past.
GivesUp(v) ==
  /\ request # NoUpload /\ v = request.u /\ ~Store!Newer(v) /\ ~Store!Acknowledged(v)
  /\ UNCHANGED store

\* An answer makes nobody give up, and a refusal that is not final neither.
LEMMA AnsweredGoesOn ==
  ASSUME pr \in [Uploads -> Producer], NEW u \in Uploads, NEW req,
         Answer(u, req) \/ Raise(u, req, FALSE),
         NEW v \in Uploads, pr'[v].state = "refused"
  PROVE  pr[v].state = "refused"
<1>1. CASE pr' = pr
  BY <1>1
<1>2. CASE pr' = [pr EXCEPT ![u] = Idle]
  BY <1>2, ChunkFacts
<1>3. CASE pr' = [pr EXCEPT ![u] = Advance(pr[u])]
  <2>1. pr[u] \in Producer
    OBVIOUS
  <2>2. Advance(pr[u]).state \in {"done", "next"}
    BY <2>1 DEF Advance, Producer
  <2> QED
    BY <1>3, <2>2
<1> QED
  BY <1>1, <1>2, <1>3 DEF Answer, Raise

\* Who gives up in a step.
LEMMA WhoGivesUp ==
  ASSUME ChunkInv, [ChunkNext]_chunkVars, NEW v \in Uploads, pr'[v].state = "refused"
  PROVE  pr[v].state = "refused" \/ GivesUp(v)
<1>1. pr \in [Uploads -> Producer] /\ (request # NoUpload => request.u \in Uploads)
      /\ \A m \in net : m.u \in Uploads
  BY DEF ChunkInv, ChunkTypeOK, ChunkRequest
<1>2. CASE PublishRefused
  <2>1. pr' = pr \/ pr' = [pr EXCEPT ![request.u] = [Idle EXCEPT !.state = "refused"]]
    BY <1>2 DEF PublishRefused, Raise
  <2>2. GivesUp(request.u)
    BY <1>2 DEF PublishRefused, GivesUp
  <2> QED
    BY <1>1, <2>1, <2>2
<1>3. CASE PutPart \/ CommitReply
  BY <1>1, <1>3, AnsweredGoesOn DEF PutPart, CommitReply
<1>4. CASE PutTotal \/ Publish \/ WriteReceipt \/ UnlinkPart \/ UNCHANGED chunkVars
  BY <1>4 DEF PutTotal, Publish, WriteReceipt, UnlinkPart, chunkVars
<1>5. ASSUME NEW u \in Uploads, Take(u) PROVE pr[v].state = "refused"
  BY <1>1, <1>5, AnsweredGoesOn
     DEF Take, PutRefused, PutKnown, PutBegin, CommitKnown, CommitRefused, CommitBegin
<1>6. ASSUME NEW u \in Uploads, Send(u) \/ ProducerTimeout(u) \/ Die(u) \/ \E m \in net : m.u = u /\ Lose(m)
      PROVE  pr[v].state = "refused"
  <2>1. \/ pr' = pr \/ pr' = [pr EXCEPT ![u] = Idle] \/ pr' = [pr EXCEPT ![u].state = "waiting"]
        \/ pr' = [pr EXCEPT ![u].state = "dead"]
    BY <1>6 DEF Send, ProducerTimeout, Die, Lose
  <2>2. pr[u] \in Producer
    BY <1>1
  <2> QED
    BY <1>1, <2>1, <2>2, ChunkFacts DEF Producer
<1>7. CASE JobFails \/ ReceiverDies
  BY <1>1, <1>7, AnsweredGoesOn DEF JobFails, ReceiverDies
<1>8. CASE SweepDies
  <2>1. PICK m \in net : Raise(m.u, m.req, FALSE)
    BY <1>8 DEF SweepDies
  <2> QED
    BY <1>1, <2>1, AnsweredGoesOn
<1>9. CASE ChunkTick
  <2>1. pr[v] \in Producer
    BY <1>1
  <2>2. pr'[v] = IF Trying(v) THEN [pr[v] EXCEPT !.aged = TRUE] ELSE pr[v]
    BY <1>9 DEF ChunkTick
  <2> QED
    BY <2>1, <2>2 DEF Producer
<1>10. ASSUME NEW m \in net, Lose(m) PROVE pr[v].state = "refused"
  BY <1>1, <1>6, <1>10
<1> QED
  BY <1>2, <1>3, <1>4, <1>5, <1>6, <1>7, <1>8, <1>9, <1>10 DEF ChunkNext, Work

\* The store moves forward only, in the step that publishes.
LEMMA StoreForward ==
  ASSUME ChunkInv, [ChunkNext]_chunkVars
  PROVE  \/ latest' = latest /\ taken' = taken
         \/ \E b \in Uploads : /\ latest # NoUpload => latest.seq < b.seq
                               /\ latest' = b /\ taken' = taken \cup {b}
<1>1. CASE ~Publish
  <2> SUFFICES UNCHANGED store
    BY DEF store
  <2>1. CASE PutTotal \/ PutPart \/ PublishRefused \/ WriteReceipt \/ UnlinkPart \/ CommitReply
    BY <2>1 DEF PutTotal, PutPart, PublishRefused, WriteReceipt, UnlinkPart, CommitReply
  <2>2. ASSUME NEW u \in Uploads, Take(u) PROVE UNCHANGED store
    BY <2>2 DEF Take, PutRefused, PutKnown, PutBegin, CommitKnown, CommitRefused, CommitBegin
  <2>3. ASSUME NEW u \in Uploads, Send(u) \/ ProducerTimeout(u) \/ Die(u) PROVE UNCHANGED store
    BY <2>3 DEF Send, ProducerTimeout, Die
  <2>4. CASE JobFails \/ ReceiverDies \/ SweepDies \/ ChunkTick \/ \E m \in net : Lose(m)
    BY <2>4 DEF JobFails, ReceiverDies, SweepDies, ChunkTick, Lose
  <2>5. CASE UNCHANGED chunkVars
    BY <2>5 DEF chunkVars, store
  <2> QED
    BY <1>1, <2>1, <2>2, <2>3, <2>4, <2>5 DEF ChunkNext, Work
<1>2. CASE Publish
  <2>1. request.u \in Uploads
    BY <1>2 DEF Publish, ChunkInv, ChunkTypeOK, ChunkRequest
  <2>2. CASE Store!Accept(request.u)
    BY <2>1, <2>2 DEF Store!Accept, Store!Newer
  <2> QED
    BY <1>2, <2>2 DEF Publish, store
<1> QED
  BY <1>1, <1>2

\* Giving up stays right: what is given up is older than the store, which only moves forward.
LEMMA RefusedStep ==
  ASSUME ChunkInv, RefusedOK, [ChunkNext]_chunkVars PROVE RefusedOK'
<1> SUFFICES ASSUME NEW u \in Uploads, pr'[u].state = "refused"
             PROVE  u \notin taken' /\ latest' # NoUpload /\ u.seq <= latest'.seq
  BY DEF RefusedOK
<1>1. u \notin taken /\ latest # NoUpload /\ u.seq <= latest.seq
  <2>1. CASE pr[u].state = "refused"
    BY <2>1 DEF RefusedOK
  <2>2. CASE GivesUp(u)
    <3>1. u \notin taken /\ latest # NoUpload /\ ~(latest.seq < u.seq)
      BY <2>2 DEF GivesUp, Store!Newer, Store!Acknowledged
    <3>2. latest.seq \in Nat /\ u.seq \in Nat
      BY <3>1, ChunkAssumed DEF ChunkAssumption, ChunkInv, ChunkTypeOK
    <3> QED
      BY <3>1, <3>2
  <2> QED
    BY <2>1, <2>2, WhoGivesUp
<1>2. CASE latest' = latest /\ taken' = taken
  BY <1>1, <1>2
<1>3. ASSUME NEW b \in Uploads, latest # NoUpload => latest.seq < b.seq, latest' = b, taken' = taken \cup {b}
      PROVE  u \notin taken' /\ latest' # NoUpload /\ u.seq <= latest'.seq
  <2>1. latest.seq \in Nat /\ u.seq \in Nat /\ b.seq \in Nat /\ b # NoUpload
    BY <1>1, ChunkAssumed, ChunkFacts DEF ChunkAssumption, ChunkInv, ChunkTypeOK
  <2>2. u.seq < b.seq
    BY <1>1, <1>3, <2>1
  <2>3. u # b
    BY <2>1, <2>2
  <2> QED
    BY <1>1, <1>3, <2>1, <2>2, <2>3
<1> QED
  BY <1>2, <1>3, StoreForward

\* Only what the store never accepted is given up, in every reachable state.
THEOREM RefusedInvariant == ChunkSpec => []RefusedOK
<1>1. ChunkInit => RefusedOK
  BY DEF ChunkInit, Idle, RefusedOK
<1>2. ChunkInv /\ RefusedOK /\ [ChunkNext]_chunkVars => RefusedOK'
  BY RefusedStep
<1> QED
  BY <1>1, <1>2, ChunkInvariant, PTL DEF ChunkSpec

\* Whatever crashes, is lost, repeated or handled late, a stored receipt and a producer that was
\* answered stand for a bundle the store accepted, and a producer that gave up for one it did not.
THEOREM ReceiptsAreBacked == ChunkSpec => []ReceiptBacked
<1>1. ChunkInv /\ RefusedOK => ReceiptBacked
  BY DEF ChunkInv, ReceiptOK, DoneOK, RefusedOK, ReceiptBacked
<1> QED
  BY <1>1, ChunkInvariant, RefusedInvariant, PTL

-----------------------------------------------------------------------------
(* Parts that were acknowledged.                                            *)

\* What an attempt p has been told is in its directory d, which is no older than the attempt.
AttemptStaged(d, p) ==
  p.req > 1 =>
    /\ d # NoUpload /\ 1..(p.req - 1) \subseteq d.parts
    /\ d.age <= (IF p.aged THEN 1 ELSE 0)

\* A new attempt starts at the first part.
StagedOK ==
  \A u \in Uploads :
    /\ pr[u].state = "idle" => pr[u].req = 1
    /\ Trying(u) /\ u \notin taken => AttemptStaged(dir[u], pr[u])

\* A step that loses none of the parts of a directory and lets it grow no older.
Unharmed(v) ==
  v \notin taken /\ dir[v] # NoUpload /\ dir[v].age <= TTL =>
    /\ dir'[v] # NoUpload /\ dir[v].parts \subseteq dir'[v].parts
    /\ dir'[v].age \in {0, dir[v].age}

\* A step that tells producer v nothing, or that it has to start over.
Calm(v) ==
  \/ pr'[v].req = 1
  \/ ~Trying(v)' /\ pr'[v].state # "idle"
  \/ pr'[v].state # "idle" /\ Trying(v) /\ pr'[v].req = pr[v].req /\ pr'[v].aged = pr[v].aged

\* A step that acknowledges to producer u the part it waits for, which is in the directory now.
PartAcknowledged(u) ==
  /\ Trying(u) /\ pr'[u].state = "next" /\ pr'[u].req = pr[u].req + 1
  /\ u \notin taken => dir'[u] # NoUpload /\ pr[u].req \in dir'[u].parts /\ dir'[u].age = 0

\* The directory of an attempt that is under way is not stale.
LEMMA AttemptIsFresh ==
  ASSUME ChunkInv, StagedOK, NEW u \in Uploads, Trying(u), u \notin taken, pr[u].req > 1
  PROVE  /\ dir[u] \in Directory /\ dir[u] # NoUpload /\ 1..(pr[u].req - 1) \subseteq dir[u].parts
         /\ dir[u].age <= (IF pr[u].aged THEN 1 ELSE 0) /\ dir[u].age <= TTL
<1>1. dir[u] # NoUpload /\ dir[u].age <= (IF pr[u].aged THEN 1 ELSE 0) /\ 1..(pr[u].req - 1) \subseteq dir[u].parts
  BY DEF StagedOK, AttemptStaged
<1>2. dir[u] \in Directory
  BY <1>1 DEF ChunkInv, ChunkTypeOK
<1>3. dir[u].age \in Nat
  BY <1>2, ChunkFacts DEF Directory
<1> QED
  BY <1>1, <1>2, <1>3, ChunkFacts

\* An attempt that is told nothing keeps its parts.
LEMMA CalmKeeps ==
  ASSUME ChunkInv, ChunkTypeOK', StagedOK, NEW v \in Uploads, taken \subseteq taken', Unharmed(v), Calm(v),
         Trying(v)', v \notin taken'
  PROVE  AttemptStaged(dir'[v], pr'[v])
<1>1. CASE pr'[v].req = 1
  BY <1>1 DEF AttemptStaged
<1>2. CASE pr'[v].req # 1 /\ pr[v].req <= 1
  BY <1>2, ChunkFacts DEF Calm, ChunkTypeOK, Producer, AttemptStaged
<1>3. CASE pr'[v].req # 1 /\ pr[v].req > 1
  <2>1. Trying(v) /\ pr'[v].req = pr[v].req /\ pr'[v].aged = pr[v].aged /\ v \notin taken
    BY <1>3 DEF Calm
  <2>2. /\ dir[v] \in Directory /\ dir[v] # NoUpload /\ 1..(pr[v].req - 1) \subseteq dir[v].parts
        /\ dir[v].age <= (IF pr[v].aged THEN 1 ELSE 0) /\ dir[v].age <= TTL
    BY <1>3, <2>1, AttemptIsFresh
  <2>3. /\ dir'[v] # NoUpload /\ dir[v].parts \subseteq dir'[v].parts /\ dir'[v].age \in {0, dir[v].age}
    BY <2>1, <2>2 DEF Unharmed
  <2>4. dir'[v].age <= (IF pr'[v].aged THEN 1 ELSE 0)
    BY <2>1, <2>2, <2>3
  <2>5. 1..(pr'[v].req - 1) \subseteq dir'[v].parts
    BY <2>1, <2>2, <2>3
  <2> QED
    BY <2>3, <2>4, <2>5 DEF AttemptStaged
<1>4. pr[v].req \in 1..Commit
  BY DEF ChunkInv, ChunkTypeOK, Producer
<1> QED
  BY <1>1, <1>2, <1>3, <1>4, ChunkFacts

\* An attempt that is acknowledged its next part has it, and the ones before.
LEMMA AcknowledgedKeeps ==
  ASSUME ChunkInv, StagedOK, NEW u \in Uploads, taken \subseteq taken', Unharmed(u), PartAcknowledged(u),
         u \notin taken'
  PROVE  AttemptStaged(dir'[u], pr'[u])
<1>1. /\ Trying(u) /\ pr'[u].req = pr[u].req + 1 /\ u \notin taken
      /\ dir'[u] # NoUpload /\ pr[u].req \in dir'[u].parts /\ dir'[u].age = 0
  BY DEF PartAcknowledged
<1>2. pr[u].req \in 1..Commit
  BY DEF ChunkInv, ChunkTypeOK, Producer
<1>3. pr[u].req \in Nat /\ pr[u].req >= 1
  BY <1>2, ChunkFacts
<1>4. pr[u].req > 1 => 1..(pr[u].req - 1) \subseteq dir'[u].parts
  <2> SUFFICES ASSUME pr[u].req > 1 PROVE 1..(pr[u].req - 1) \subseteq dir'[u].parts
    OBVIOUS
  <2>1. dir[u] # NoUpload /\ 1..(pr[u].req - 1) \subseteq dir[u].parts /\ dir[u].age <= TTL
    BY <1>1, AttemptIsFresh
  <2> QED
    BY <1>1, <2>1 DEF Unharmed
<1>5. 1..(pr'[u].req - 1) \subseteq dir'[u].parts
  <2> SUFFICES ASSUME NEW i \in 1..(pr'[u].req - 1) PROVE i \in dir'[u].parts
    OBVIOUS
  <2>1. i = pr[u].req \/ (pr[u].req > 1 /\ i \in 1..(pr[u].req - 1))
    BY <1>1, <1>3
  <2> QED
    BY <1>1, <1>4, <2>1
<1> QED
  BY <1>1, <1>5 DEF AttemptStaged

\* What a step has to respect so that acknowledged parts stay.
LEMMA StagedKept ==
  ASSUME ChunkInv, ChunkTypeOK', StagedOK, taken \subseteq taken',
         \A v \in Uploads : Unharmed(v),
         \A v \in Uploads : Calm(v) \/ PartAcknowledged(v)
  PROVE  StagedOK'
<1>1. ASSUME NEW v \in Uploads PROVE pr'[v].state = "idle" => pr'[v].req = 1
  BY DEF Calm, PartAcknowledged
<1>2. ASSUME NEW v \in Uploads, Trying(v)', v \notin taken' PROVE AttemptStaged(dir'[v], pr'[v])
  BY <1>2, CalmKeeps, AcknowledgedKeeps
<1> QED
  BY <1>1, <1>2 DEF StagedOK

\* A producer that is left alone, or starts over, is told nothing.
LEMMA UnmovedIsCalm ==
  ASSUME StagedOK, NEW v \in Uploads, pr'[v] = pr[v] \/ pr'[v] = Idle PROVE Calm(v)
BY DEF StagedOK, Calm, Trying, Idle

\* What an answer tells.
LEMMA AnswerSays ==
  ASSUME pr \in [Uploads -> Producer], StagedOK, NEW u \in Uploads, NEW req, Answer(u, req),
         NEW v \in Uploads
  PROVE  \/ Calm(v)
         \/ /\ v = u /\ req # Commit /\ pr[u].req = req /\ Trying(u)
            /\ pr'[u].state = "next" /\ pr'[u].req = pr[u].req + 1
<1>1. CASE pr'[v] = pr[v]
  BY <1>1, UnmovedIsCalm
<1>2. CASE v = u /\ Waiting(u, req)
  <2>1. pr[u] \in Producer /\ pr[u].req = req /\ pr'[u] = Advance(pr[u]) /\ Trying(u)
    BY <1>2 DEF Answer, Waiting, Trying
  <2>2. CASE req = Commit
    <3>1. Advance(pr[u]) = [pr[u] EXCEPT !.state = "done"]
      BY <2>1, <2>2 DEF Advance
    <3>2. pr'[u].state = "done"
      BY <2>1, <3>1 DEF Producer
    <3> QED
      BY <1>2, <3>2 DEF Calm, Trying
  <2>3. CASE req # Commit
    <3>1. Advance(pr[u]) = [pr[u] EXCEPT !.state = "next", !.req = pr[u].req + 1]
      BY <2>1, <2>3 DEF Advance
    <3>2. pr'[u].state = "next" /\ pr'[u].req = pr[u].req + 1
      BY <2>1, <3>1 DEF Producer
    <3> QED
      BY <1>2, <2>1, <2>3, <3>2
  <2> QED
    BY <2>2, <2>3
<1> QED
  BY <1>1, <1>2 DEF Answer

\* A refusal tells nobody that a part is there.
LEMMA RefusalIsCalm ==
  ASSUME pr \in [Uploads -> Producer], StagedOK, NEW u \in Uploads, NEW req, NEW final \in BOOLEAN,
         Raise(u, req, final), NEW v \in Uploads
  PROVE  Calm(v)
<1>1. CASE pr'[v] = pr[v] \/ pr'[v] = Idle
  BY <1>1, UnmovedIsCalm
<1>2. CASE pr'[v] = [Idle EXCEPT !.state = "refused"]
  BY <1>2 DEF Calm, Idle
<1> QED
  BY <1>1, <1>2 DEF Raise

\* The sweep of put harms no directory of an attempt, and neither does the rest of put.
LEMMA SweptUnharmed ==
  ASSUME ChunkInv, NEW v \in Uploads, v \notin taken, dir[v] # NoUpload, dir[v].age <= TTL
  PROVE  Swept[v] = dir[v] /\ dir[v] \in Directory
<1>1. dir[v] \in Directory
  BY DEF ChunkInv, ChunkTypeOK
<1>2. dir[v].age \in Nat
  BY <1>1, ChunkFacts DEF Directory
<1>3. v \notin StaleDirs
  BY <1>2, ChunkFacts DEF StaleDirs
<1> QED
  BY <1>1, <1>3 DEF Swept

\* The file steps keep the parts of a directory and renew its age.
LEMMA TouchRenews ==
  ASSUME NEW d \in Directory
  PROVE  Touch(d).parts = d.parts /\ Touch(d).age = 0
BY DEF Touch, Directory

\* A part is added.
LEMMA PartIsAdded ==
  ASSUME NEW d \in Directory, NEW i \in Parts
  PROVE  /\ WithPart(d, i).parts = d.parts \cup {i} /\ WithPart(d, i).age = 0
         /\ WithPart(d, i) \in Directory
<1>1. PICK b : b = [d EXCEPT !.parts = d.parts \cup {i}]
  OBVIOUS
<1>2. b \in Directory /\ b.parts = d.parts \cup {i}
  BY <1>1, EditTyped DEF Directory
<1>3. WithPart(d, i) = Touch(b)
  BY <1>1 DEF WithPart
<1> QED
  BY <1>2, <1>3, TouchRenews, TouchTyped

-----------------------------------------------------------------------------

\* put: refused, known or begun.
LEMMA PutStaged ==
  ASSUME ChunkInv, ChunkInv', StagedOK, NEW u \in Uploads, NEW i \in Parts,
         PutRefused(u, i) \/ PutKnown(u, i) \/ PutBegin(u, i)
  PROVE  StagedOK'
<1>1. pr \in [Uploads -> Producer] /\ dir \in [Uploads -> Directory \cup {NoUpload}]
  BY DEF ChunkInv, ChunkTypeOK
<1>2. taken' = taken /\ ChunkTypeOK'
  BY DEF PutRefused, PutKnown, PutBegin, store, ChunkInv
<1>3. CASE PutRefused(u, i)
  <2>1. dir' = Swept
    BY <1>3 DEF PutRefused
  <2>2. \A v \in Uploads : Calm(v)
    BY <1>1, <1>3, RefusalIsCalm DEF PutRefused
  <2>3. \A v \in Uploads : Unharmed(v)
    BY <2>1, SweptUnharmed DEF Unharmed
  <2> QED
    BY <1>2, <2>2, <2>3, StagedKept
<1>4. CASE PutKnown(u, i)
  <2>1. Answer(u, i) /\ Swept[u] # NoUpload
    BY <1>4 DEF PutKnown
  <2>2. Swept[u] = dir[u] /\ dir[u] \in Directory
    BY <1>1, <2>1, SweptFacts
  <2>3. Touch(dir[u]).parts = dir[u].parts /\ Touch(dir[u]).age = 0 /\ Touch(dir[u]) \in Directory
    BY <2>2, TouchRenews, TouchTyped
  <2>4. \/ i \in dir[u].parts /\ dir' = [Swept EXCEPT ![u] = Touch(dir[u])]
        \/ dir[u].receipt /\ dir' = Swept
    BY <1>4, <2>2 DEF PutKnown
  <2>5. Swept \in [Uploads -> Directory \cup {NoUpload}] /\ Touch(dir[u]) # NoUpload
    BY <2>3, SweptFacts, ChunkFacts
  <2>6. \A v \in Uploads : Unharmed(v)
    BY <2>2, <2>3, <2>4, <2>5, SweptUnharmed DEF Unharmed
  <2>7. u \notin taken => dir'[u] # NoUpload /\ i \in dir'[u].parts /\ dir'[u].age = 0
    BY <2>2, <2>3, <2>4, <2>5, ChunkFacts DEF ChunkInv, ReceiptOK
  <2>8. ASSUME NEW v \in Uploads PROVE Calm(v) \/ PartAcknowledged(v)
    BY <1>1, <2>1, <2>7, AnswerSays DEF PartAcknowledged
  <2> QED
    BY <1>2, <2>6, <2>8, StagedKept
<1>5. CASE PutBegin(u, i)
  <2>1. pr' = pr /\ dir' = [Swept EXCEPT ![u] = IF Swept[u] = NoUpload THEN Fresh ELSE Swept[u]]
    BY <1>5 DEF PutBegin
  <2>2. \A v \in Uploads : Swept[v] # NoUpload => dir'[v] = Swept[v]
    BY <2>1, SweptFacts
  <2>3. \A v \in Uploads : Unharmed(v)
    BY <2>2, SweptUnharmed DEF Unharmed
  <2>4. \A v \in Uploads : Calm(v)
    BY <2>1, UnmovedIsCalm
  <2> QED
    BY <1>2, <2>3, <2>4, StagedKept
<1> QED
  BY <1>3, <1>4, <1>5

\* The files of the request under way.
LEMMA FileStaged ==
  ASSUME ChunkInv, ChunkInv', StagedOK, PutTotal \/ PutPart \/ WriteReceipt \/ UnlinkPart \/ CommitReply
  PROVE  StagedOK'
<1> DEFINE u == request.u
           d == dir[u]
<1>1. request # NoUpload /\ request \in ChunkRequest /\ u \in Uploads
  BY DEF ChunkInv, ChunkTypeOK, ChunkRequest, PutTotal, PutPart, WriteReceipt, UnlinkPart, CommitReply
<1>2. d \in Directory /\ d # NoUpload /\ dir \in [Uploads -> Directory \cup {NoUpload}]
  BY <1>1 DEF ChunkInv, ChunkTypeOK, RequestOK
<1>3. taken' = taken /\ ChunkTypeOK' /\ pr \in [Uploads -> Producer]
  BY DEF ChunkInv, ChunkTypeOK, PutTotal, PutPart, WriteReceipt, UnlinkPart, CommitReply, store
<1>4. dir' \in [Uploads -> Directory \cup {NoUpload}] /\ \A v \in Uploads : v # u => dir'[v] = dir[v]
  BY <1>2, <1>3 DEF ChunkTypeOK, PutTotal, PutPart, WriteReceipt, UnlinkPart, CommitReply
<1>5. \A v \in Uploads : dir[v] # NoUpload => dir[v] \in Directory
  BY <1>2
<1>6. ASSUME u \in taken \/ (dir'[u] # NoUpload /\ d.parts \subseteq dir'[u].parts /\ dir'[u].age = 0)
      PROVE  \A v \in Uploads : Unharmed(v)
  BY <1>4, <1>6 DEF Unharmed
<1> HIDE DEF d, u
<1>7. CASE PutTotal
  <2> DEFINE b == [d EXCEPT !.total = TRUE]
  <2>1. b \in Directory /\ b.parts = d.parts
    BY <1>2, EditTyped DEF Directory
  <2>2. dir' = [dir EXCEPT ![u] = Touch(b)]
    BY <1>7 DEF PutTotal, u, d
  <2> HIDE DEF b
  <2>3. dir'[u] # NoUpload /\ d.parts \subseteq dir'[u].parts /\ dir'[u].age = 0
    BY <1>1, <1>2, <2>1, <2>2, TouchRenews, TouchTyped, ChunkFacts
  <2>4. \A v \in Uploads : Calm(v)
    BY <1>7, UnmovedIsCalm DEF PutTotal
  <2> QED
    BY <1>3, <1>6, <2>3, <2>4, StagedKept
<1>8. CASE PutPart
  <2>1. request.req \in Parts
    BY <1>1, <1>8, ChunkFacts DEF PutPart, ChunkInv, RequestOK, ChunkRequest, Parts
  <2>2. dir' = [dir EXCEPT ![u] = WithPart(d, request.req)] /\ Answer(u, request.req)
    BY <1>8 DEF PutPart, u, d
  <2>3. /\ dir'[u] # NoUpload /\ d.parts \subseteq dir'[u].parts /\ dir'[u].age = 0
        /\ request.req \in dir'[u].parts
    BY <1>1, <1>2, <2>1, <2>2, PartIsAdded, ChunkFacts
  <2>4. ASSUME NEW v \in Uploads PROVE Calm(v) \/ PartAcknowledged(v)
    BY <1>1, <1>3, <2>2, <2>3, AnswerSays DEF PartAcknowledged
  <2> QED
    BY <1>3, <1>6, <2>3, <2>4, StagedKept
<1>9. CASE WriteReceipt \/ UnlinkPart
  <2>1. u \in taken /\ pr' = pr
    BY <1>9 DEF WriteReceipt, UnlinkPart, ChunkInv, RequestOK, u
  <2>2. \A v \in Uploads : Calm(v)
    BY <2>1, UnmovedIsCalm
  <2> QED
    BY <1>3, <1>6, <2>1, <2>2, StagedKept
<1>10. CASE CommitReply
  <2>1. u \in taken /\ Answer(u, Commit)
    BY <1>10 DEF CommitReply, ChunkInv, RequestOK, u
  <2>2. \A v \in Uploads : Calm(v)
    BY <1>1, <1>3, <2>1, AnswerSays
  <2> QED
    BY <1>3, <1>6, <2>1, <2>2, StagedKept
<1> QED
  BY <1>7, <1>8, <1>9, <1>10

\* The store, the faults, the network and the producers leave the directories alone.
LEMMA ElsewhereStaged ==
  ASSUME ChunkInv, ChunkInv', StagedOK, taken \subseteq taken', UNCHANGED dir, \A v \in Uploads : Calm(v)
  PROVE  StagedOK'
<1>1. dir \in [Uploads -> Directory \cup {NoUpload}] /\ ChunkTypeOK'
  BY DEF ChunkInv, ChunkTypeOK
<1>2. \A v \in Uploads : Unharmed(v)
  BY <1>1 DEF Unharmed
<1> QED
  BY <1>1, <1>2, StagedKept

\* commit until its receipt, and requests that end without an answer.
LEMMA CommitStaged ==
  ASSUME ChunkInv, ChunkInv', StagedOK, NEW u \in Uploads,
         \/ CommitKnown(u) \/ CommitRefused(u) \/ CommitBegin(u)
         \/ Publish \/ PublishRefused \/ JobFails \/ ReceiverDies
  PROVE  StagedOK'
<1>1. pr \in [Uploads -> Producer] /\ (request # NoUpload => request.u \in Uploads)
  BY DEF ChunkInv, ChunkTypeOK, ChunkRequest
<1>2. taken \subseteq taken' /\ UNCHANGED dir
  BY DEF CommitKnown, CommitRefused, CommitBegin, Publish, PublishRefused, JobFails, ReceiverDies, store,
         Store!Accept
<1>3. CASE CommitKnown(u)
  BY <1>1, <1>2, <1>3, AnswerSays, ElsewhereStaged DEF CommitKnown
<1>4. CASE CommitRefused(u)
  BY <1>1, <1>2, <1>4, RefusalIsCalm, ElsewhereStaged DEF CommitRefused
<1>5. CASE CommitBegin(u) \/ Publish
  BY <1>2, <1>5, UnmovedIsCalm, ElsewhereStaged DEF CommitBegin, Publish
<1>6. CASE PublishRefused \/ JobFails \/ ReceiverDies
  <2>1. \A v \in Uploads : Calm(v)
    BY <1>1, <1>6, RefusalIsCalm DEF PublishRefused, JobFails, ReceiverDies
  <2> QED
    BY <1>2, <2>1, ElsewhereStaged
<1> QED
  BY <1>3, <1>4, <1>5, <1>6

\* Requests are sent, lost or given up, producers die.
LEMMA ProducerStaged ==
  ASSUME ChunkInv, ChunkInv', StagedOK, NEW u \in Uploads,
         Send(u) \/ ProducerTimeout(u) \/ Die(u) \/ \E m \in net : m.u = u /\ Lose(m)
  PROVE  StagedOK'
<1>1. taken' = taken /\ UNCHANGED dir
  BY DEF Send, ProducerTimeout, Die, Lose, store
<1>2. pr \in [Uploads -> Producer] /\ pr[u] \in Producer
  BY DEF ChunkInv, ChunkTypeOK
<1>3. ASSUME NEW v \in Uploads PROVE Calm(v)
  <2>1. CASE Send(u)
    <3>1. pr' = [pr EXCEPT ![u] = [pr[u] EXCEPT !.state = "waiting"]] /\ pr[u].state \in {"idle", "next"}
      BY <2>1 DEF Send
    <3>2. CASE v # u
      BY <1>2, <3>1, <3>2, UnmovedIsCalm
    <3>3. CASE v = u
      <4>1. pr'[v].req = pr[v].req /\ pr'[v].aged = pr[v].aged /\ pr'[v].state = "waiting"
        BY <1>2, <3>1, <3>3 DEF Producer
      <4> QED
        BY <3>1, <3>3, <4>1 DEF Calm, Trying, StagedOK
    <3> QED
      BY <3>2, <3>3
  <2>2. CASE Die(u)
    <3>1. pr' = [pr EXCEPT ![u] = [pr[u] EXCEPT !.state = "dead"]]
      BY <2>2 DEF Die
    <3>2. v = u => pr'[v].state = "dead"
      BY <1>2, <3>1 DEF Producer
    <3>3. v # u => pr'[v] = pr[v]
      BY <1>2, <3>1
    <3> QED
      BY <3>2, <3>3, UnmovedIsCalm DEF Calm, Trying
  <2>3. CASE ProducerTimeout(u) \/ \E m \in net : m.u = u /\ Lose(m)
    <3>1. pr' = pr \/ pr' = [pr EXCEPT ![u] = Idle]
      BY <2>3 DEF ProducerTimeout, Lose
    <3>2. pr'[v] = pr[v] \/ pr'[v] = Idle
      BY <1>2, <3>1
    <3> QED
      BY <3>2, UnmovedIsCalm
  <2> QED
    BY <2>1, <2>2, <2>3
<1> QED
  BY <1>1, <1>3, ElsewhereStaged

\* A process that dies while it sweeps has touched stale directories only.
LEMMA SweepStaged == ASSUME ChunkInv, ChunkInv', StagedOK, SweepDies PROVE StagedOK'
<1>1. pr \in [Uploads -> Producer] /\ dir \in [Uploads -> Directory \cup {NoUpload}]
      /\ \A m \in net : m.u \in Uploads
  BY DEF ChunkInv, ChunkTypeOK
<1>2. PICK m \in net : Raise(m.u, m.req, FALSE)
  BY DEF SweepDies
<1>3. \A v \in Uploads : Calm(v)
  BY <1>1, <1>2, RefusalIsCalm
<1>4. \A v \in Uploads : v \notin StaleDirs => dir'[v] = dir[v]
  BY DEF SweepDies
<1>5. ASSUME NEW v \in Uploads PROVE Unharmed(v)
  <2> SUFFICES ASSUME dir[v] # NoUpload, dir[v].age <= TTL PROVE dir'[v] = dir[v]
    BY DEF Unharmed
  <2>1. dir[v].age \in Nat
    BY <1>1, ChunkFacts DEF Directory
  <2>2. v \notin StaleDirs
    BY <2>1, ChunkFacts DEF StaleDirs
  <2> QED
    BY <1>4, <2>2
<1>6. taken' = taken /\ ChunkTypeOK'
  BY DEF SweepDies, store, ChunkInv
<1> QED
  BY <1>3, <1>5, <1>6, StagedKept

\* A tick ages the directory of an attempt once, and the attempt with it.
LEMMA TickStaged == ASSUME ChunkInv, StagedOK, ChunkTick PROVE StagedOK'
<1>1. taken' = taken
  BY DEF ChunkTick, store
<1>2. ASSUME NEW v \in Uploads
      PROVE  /\ pr'[v].state = pr[v].state /\ pr'[v].req = pr[v].req
             /\ Trying(v) => pr'[v].aged /\ ~pr[v].aged
  <2>1. pr[v] \in Producer /\ pr'[v] = IF Trying(v) THEN [pr[v] EXCEPT !.aged = TRUE] ELSE pr[v]
    BY DEF ChunkTick, ChunkInv, ChunkTypeOK
  <2> QED
    BY <2>1 DEF Producer, ChunkTick
<1>3. ASSUME NEW v \in Uploads, Trying(v), v \notin taken PROVE AttemptStaged(dir'[v], pr'[v])
  <2>1. CASE pr[v].req > 1
    <3>1. /\ dir[v] \in Directory /\ dir[v] # NoUpload /\ 1..(pr[v].req - 1) \subseteq dir[v].parts
          /\ dir[v].age <= (IF pr[v].aged THEN 1 ELSE 0) /\ dir[v].age <= TTL
      BY <1>3, <2>1, AttemptIsFresh
    <3>2. ~pr[v].aged /\ pr'[v].aged /\ pr'[v].req = pr[v].req
      BY <1>2, <1>3
    <3>3. dir[v].age = 0
      BY <3>1, <3>2, ChunkFacts DEF Directory
    <3>4. dir'[v] = [dir[v] EXCEPT !.age = dir[v].age + 1]
      BY <3>1, <3>3, ChunkFacts DEF ChunkTick
    <3>5. dir'[v].age = 1 /\ dir'[v].parts = dir[v].parts
      BY <3>1, <3>3, <3>4 DEF Directory
    <3>6. 1 \in 0..(TTL + 1)
      BY ChunkFacts
    <3>7. dir'[v] \in Directory
      BY <3>1, <3>3, <3>4, <3>6 DEF Directory
    <3>8. dir'[v] # NoUpload
      BY <3>7, ChunkFacts
    <3> QED
      BY <3>1, <3>2, <3>5, <3>8 DEF AttemptStaged
  <2>2. CASE ~(pr[v].req > 1)
    BY <1>2, <2>2 DEF AttemptStaged
  <2> QED
    BY <2>1, <2>2
<1> QED
  BY <1>1, <1>2, <1>3 DEF StagedOK, Trying

\* Every step keeps acknowledged parts.
LEMMA StagedStep == ChunkInv /\ ChunkInv' /\ StagedOK /\ [ChunkNext]_chunkVars => StagedOK'
<1> SUFFICES ASSUME ChunkInv, ChunkInv', StagedOK, [ChunkNext]_chunkVars PROVE StagedOK'
  OBVIOUS
<1>1. request # NoUpload => request.u \in Uploads
  BY DEF ChunkInv, ChunkTypeOK, ChunkRequest
<1>2. CASE PutTotal \/ PutPart \/ WriteReceipt \/ UnlinkPart \/ CommitReply
  BY <1>2, FileStaged
<1>3. CASE Publish \/ PublishRefused \/ JobFails \/ ReceiverDies
  <2>1. request.u \in Uploads
    BY <1>1, <1>3 DEF Publish, PublishRefused, JobFails, ReceiverDies
  <2> QED
    BY <1>3, <2>1, CommitStaged
<1>4. ASSUME NEW u \in Uploads, Take(u) PROVE StagedOK'
  BY <1>4, PutStaged, CommitStaged DEF Take
<1>5. ASSUME NEW u \in Uploads, Send(u) \/ ProducerTimeout(u) \/ Die(u) PROVE StagedOK'
  BY <1>5, ProducerStaged
<1>6. ASSUME NEW m \in net, Lose(m) PROVE StagedOK'
  <2>1. m.u \in Uploads
    BY DEF ChunkInv, ChunkTypeOK
  <2> QED
    BY <1>6, <2>1, ProducerStaged
<1>7. CASE SweepDies
  BY <1>7, SweepStaged
<1>8. CASE ChunkTick
  BY <1>8, TickStaged
<1>9. CASE UNCHANGED chunkVars
  BY <1>9, UnmovedIsCalm, ElsewhereStaged DEF chunkVars
<1> QED
  BY <1>2, <1>3, <1>4, <1>5, <1>6, <1>7, <1>8, <1>9 DEF ChunkNext, Work

\* What put has acknowledged to a producer that is still trying is there for its commit until the
\* store has the bundle, for every number of uploads and parts and every TTL.
THEOREM StagedPartsAreKept == ChunkSpec => []StagedUntilTaken
<1>1. ChunkInit => StagedOK
  BY DEF ChunkInit, Idle, StagedOK, Trying
<1>2. ChunkInv /\ ChunkInv' /\ StagedOK /\ [ChunkNext]_chunkVars => StagedOK'
  BY StagedStep
<1>3. ChunkInv /\ StagedOK => StagedUntilTaken
  <2> SUFFICES ASSUME ChunkInv, StagedOK, NEW u \in Uploads, Trying(u), u \notin taken,
                      NEW i \in 1..(pr[u].req - 1)
               PROVE  dir[u] # NoUpload /\ i \in dir[u].parts
    BY DEF StagedUntilTaken
  <2>1. pr[u].req > 1
    BY ChunkFacts DEF ChunkInv, ChunkTypeOK, Producer
  <2> QED
    BY <2>1, AttemptIsFresh
<1> QED
  BY <1>1, <1>2, <1>3, ChunkInvariant, PTL DEF ChunkSpec
=============================================================================
