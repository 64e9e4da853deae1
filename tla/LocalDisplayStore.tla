------------------------- MODULE LocalDisplayStore -------------------------
(***************************************************************************)
(* The receiver's generation store: LocalDisplayStore of                   *)
(* backend/app/workspace/local_display_read.py, reached through            *)
(* _publish_decoded of shadow_api.py.  A publication runs under the sync   *)
(* domain's writer lock, so at most one is under way (the variable job),   *)
(* but each of its file operations is a step of its own: it may fail with  *)
(* OSError, the process may die after it, and readers, which take no lock, *)
(* run in between.                                                         *)
(*                                                                         *)
(* A bundle is [seq, id, ident]: its sequence, its digest and its          *)
(* (code_sha, config_hash).  Bytes are counted in bundles: pointers and    *)
(* receipts weigh nothing.  A request that no action below admits is       *)
(* refused and changes nothing.                                            *)
(***************************************************************************)
EXTENDS Naturals, FiniteSets

CONSTANTS
  Bundles,         \* bundles producers may upload
  Idents,          \* runtime identities
  None,
  MaxGenerations,  \* max_generations (code: 2..100)
  Capacity,        \* max_bytes of the sync domain, in bundles
  HistoryLimit,    \* ACCEPTANCE_HISTORY_LIMIT
  MaxFaults        \* bound: crashes and OSErrors

Pointer == [b : Bundles, history : SUBSET Bundles]
Job == [b : Bundles, restore : BOOLEAN, evict : SUBSET Bundles, created : BOOLEAN,
        step : {"target", "previous", "latest", "reply", "undoPrevious", "undoTarget"},
        oldPrevious : Pointer \cup {None}]

ASSUME StoreAssumption ==
  /\ \A b \in Bundles : b.seq \in Nat \ {0} /\ b.id \in Nat /\ b.ident \in Idents
  /\ \A b, c \in Bundles : b.seq = c.seq /\ b.id = c.id => b = c
  /\ MaxGenerations \in Nat /\ MaxGenerations >= 2
  /\ Capacity \in Nat /\ HistoryLimit \in Nat \ {0} /\ MaxFaults \in Nat
  /\ None \notin Bundles /\ None \notin Pointer /\ None \notin Job

VARIABLES
  files,      \* bundle_<seq>_<id>.json present in the store
  latestP,    \* latest.json:   [b |-> bundle, history |-> accepted identities]
  previousP,  \* previous.json, same shape; None when the file does not exist
  junk,       \* .pending-* files a dead process left behind
  approved,   \* identity the running receiver admits for new activations
  job,        \* the publication under way, or None
  accepted,   \* every bundle ever activated (auxiliary, never read by the code)
  acked,      \* bundles a receipt was issued for
  rd, shown,  \* a reader: the pointer it holds, and what it displayed last
  faults

pointers == <<latestP, previousP>>
reader == <<rd, shown>>
vars == <<files, latestP, previousP, junk, approved, job, accepted, acked, rd, shown, faults>>

Init ==
  /\ files = {} /\ latestP = None /\ previousP = None /\ junk = 0
  /\ approved \in Idents /\ job = None /\ accepted = {} /\ acked = {}
  /\ rd = None /\ shown = None /\ faults = 0

-----------------------------------------------------------------------------
(* _load_pointer and _acceptance_history *)

Valid(p) == p.b \in files
PointersUsable ==
  /\ latestP # None => Valid(latestP)
  /\ latestP = None => previousP = None

Newest(S, n) == {x \in S : Cardinality({y \in S : y.seq > x.seq}) < n}

-----------------------------------------------------------------------------
(* _budget_plan *)

Pointed == {p.b : p \in {latestP, previousP} \ {None}}
Cutoff == IF Pointed = {} THEN 0
          ELSE CHOOSE n \in {b.seq : b \in Pointed} : \A b \in Pointed : n <= b.seq

\* Mutant: everything older than the current generation may go.
ReclaimableBelowLatest(t) ==
  {f \in files : latestP # None /\ f # t /\ f.seq < latestP.b.seq}

\* Only generations older than both rollback pointers may go.
Reclaimable(t) == {f \in files : f # t /\ f \notin Pointed /\ f.seq < Cutoff}

Older(g, f) == g.seq < f.seq \/ (g.seq = f.seq /\ g.id < f.id)

Used == Cardinality(files) + junk
Extra(t) == IF t \in files THEN 0 ELSE 1

\* Oldest first, until both the byte budget and the generation count are met.
EvictionPlan(t) ==
  {f \in Reclaimable(t) :
     LET gone == Cardinality({g \in Reclaimable(t) : Older(g, f)})
     IN  \/ Used + Extra(t) - gone > Capacity
         \/ Cardinality(files) + Extra(t) - gone > MaxGenerations}

BudgetAllows(t) ==
  /\ previousP # None => Valid(previousP)
  /\ Used + Extra(t) - Cardinality(EvictionPlan(t)) <= Capacity

-----------------------------------------------------------------------------
(* _publish *)

StartJob(b, restore) ==
  job' = [b |-> b, restore |-> restore, step |-> "target", evict |-> EvictionPlan(b),
          created |-> b \notin files, oldPrevious |-> previousP]

\* Same identity again: a receipt lookup.  The current generation passes the identity gate
\* of _publish_decoded; an older one skips it but must be in the acceptance history.
Reacknowledge(b) ==
  /\ job = None /\ PointersUsable /\ latestP # None
  /\ \/ b = latestP.b /\ b.ident = approved
     \/ b.seq < latestP.b.seq /\ b \in latestP.history /\ b \in files
  /\ acked' = acked \cup {b}
  /\ UNCHANGED <<files, pointers, junk, approved, job, accepted, reader, faults>>

\* An accepted generation whose file was evicted is written back; no pointer moves.
BeginRestore(b) ==
  /\ job = None /\ PointersUsable /\ latestP # None
  /\ b.seq < latestP.b.seq /\ b \in latestP.history /\ b \notin files
  /\ BudgetAllows(b)
  /\ StartJob(b, TRUE)
  /\ UNCHANGED <<files, pointers, junk, approved, accepted, acked, reader, faults>>

BeginActivate(b) ==
  /\ job = None /\ PointersUsable
  /\ b.ident = approved
  /\ latestP # None => latestP.b.seq < b.seq
  /\ BudgetAllows(b)
  /\ StartJob(b, FALSE)
  /\ UNCHANGED <<files, pointers, junk, approved, accepted, acked, reader, faults>>

Working(s) == job # None /\ job.step = s

\* Eviction precedes every write.
Evict ==
  /\ Working("target") /\ job.evict # {}
  /\ \E f \in job.evict :
       /\ \A g \in job.evict \ {f} : Older(f, g)
       /\ files' = files \ {f}
       /\ job' = [job EXCEPT !.evict = @ \ {f}]
  /\ UNCHANGED <<pointers, junk, approved, accepted, acked, reader, faults>>

\* Mutant: a restored generation is promoted like a new one.
WriteTargetPromote ==
  /\ Working("target") /\ job.evict = {}
  /\ files' = files \cup {job.b}
  /\ job' = [job EXCEPT !.step = "previous"]
  /\ UNCHANGED <<pointers, junk, approved, accepted, acked, reader, faults>>

WriteTarget ==
  /\ Working("target") /\ job.evict = {}
  /\ files' = files \cup {job.b}
  /\ job' = [job EXCEPT !.step = IF job.restore THEN "reply" ELSE "previous"]
  /\ UNCHANGED <<pointers, junk, approved, accepted, acked, reader, faults>>

WritePrevious ==
  /\ Working("previous")
  /\ previousP' = IF latestP = None THEN previousP ELSE latestP
  /\ job' = [job EXCEPT !.step = "latest"]
  /\ UNCHANGED <<files, latestP, junk, approved, accepted, acked, reader, faults>>

WriteLatest ==
  /\ Working("latest")
  /\ LET history == IF latestP = None THEN {} ELSE latestP.history
     IN  latestP' = [b |-> job.b, history |-> Newest(history \cup {job.b}, HistoryLimit)]
  /\ accepted' = accepted \cup {job.b}
  /\ job' = [job EXCEPT !.step = "reply"]
  /\ UNCHANGED <<files, previousP, junk, approved, acked, reader, faults>>

Reply ==
  /\ Working("reply")
  /\ acked' = acked \cup {job.b}
  /\ job' = None
  /\ UNCHANGED <<files, pointers, junk, approved, accepted, reader, faults>>

-----------------------------------------------------------------------------
(* Failures *)

Fault == faults < MaxFaults /\ faults' = faults + 1

\* OSError from one of the writes.
WriteFails ==
  /\ Fault /\ job # None /\ job.step \in {"target", "previous", "latest"}
  /\ job.step = "target" => job.evict = {} /\ job.created
  /\ job.step = "previous" => latestP # None
  /\ job' = [job EXCEPT !.step = IF job.restore THEN "undoTarget" ELSE "undoPrevious"]
  /\ UNCHANGED <<files, pointers, junk, approved, accepted, acked, reader>>

\* The handler rewrites previous.json; latest.json was never replaced.
UndoPrevious ==
  /\ Working("undoPrevious")
  /\ previousP' = job.oldPrevious
  /\ job' = [job EXCEPT !.step = "undoTarget"]
  /\ UNCHANGED <<files, latestP, junk, approved, accepted, acked, reader, faults>>

UndoTarget ==
  /\ Working("undoTarget")
  /\ files' = IF job.created THEN files \ {job.b} ELSE files
  /\ job' = None
  /\ UNCHANGED <<pointers, junk, approved, accepted, acked, reader, faults>>

\* The rewrite of previous.json fails too: its error leaves the handler.
UndoFails ==
  /\ Fault /\ Working("undoPrevious") /\ previousP # job.oldPrevious
  /\ job.oldPrevious # None
  /\ job' = None
  /\ UNCHANGED <<files, pointers, junk, approved, accepted, acked, reader>>

\* The receiver dies between two file operations, perhaps leaving a temporary file.
Crash ==
  /\ Fault /\ job # None
  /\ junk' \in IF job.step = "target" THEN {junk, junk + 1} ELSE {junk}
  /\ job' = None
  /\ UNCHANGED <<files, pointers, approved, accepted, acked, reader>>

-----------------------------------------------------------------------------
(* Readers and cutover *)

\* load_bundle(None): latest.json first, the generation file afterwards, without a lock.
ReadPointer ==
  /\ rd = None /\ latestP # None
  /\ rd' = latestP.b
  /\ UNCHANGED <<files, pointers, junk, approved, job, accepted, acked, shown, faults>>

ReadFile ==
  /\ rd # None
  /\ shown' = IF rd \in files THEN rd ELSE shown
  /\ rd' = None
  /\ UNCHANGED <<files, pointers, junk, approved, job, accepted, acked, faults>>

\* The receiver is restarted with another approved identity.
Cutover ==
  /\ job = None
  /\ approved' \in Idents \ {approved}
  /\ UNCHANGED <<files, pointers, junk, job, accepted, acked, reader, faults>>

Next ==
  \/ \E b \in Bundles : Reacknowledge(b) \/ BeginRestore(b) \/ BeginActivate(b)
  \/ Evict \/ WriteTarget \/ WritePrevious \/ WriteLatest \/ Reply
  \/ WriteFails \/ UndoPrevious \/ UndoTarget \/ UndoFails \/ Crash
  \/ ReadPointer \/ ReadFile \/ Cutover

Spec == Init /\ [][Next]_vars

-----------------------------------------------------------------------------
(* Properties *)

\* Shapes of the store's files and of a publication's local variables.
StoreTypeOK ==
  /\ files \subseteq Bundles /\ accepted \subseteq Bundles /\ acked \subseteq Bundles
  /\ latestP \in Pointer \cup {None} /\ previousP \in Pointer \cup {None}
  /\ junk \in Nat /\ faults \in 0..MaxFaults /\ approved \in Idents
  /\ job \in Job \cup {None}
  /\ rd \in Bundles \cup {None} /\ shown \in Bundles \cup {None}

\* Eviction, undo and crashes never take the file behind latest.json or previous.json:
\* the rollback pair can always be read, at every step of every publication.
PointersBacked ==
  /\ latestP # None => latestP.b \in files
  /\ previousP # None => previousP.b \in files

\* latest.json is never missing from a store that has a previous.json, so the store never
\* refuses every publication ("latest generation pointer missing from established store").
NeverHeadless == latestP = None => previousP = None

\* The acceptance history proves only what was really activated, it ends in the current
\* generation, and a generation is kept as previous only if it had been current.
HistoryTruthful ==
  /\ latestP # None =>
       /\ latestP.history \subseteq accepted /\ latestP.b \in latestP.history
       /\ \A h \in latestP.history : h.seq <= latestP.b.seq
  /\ previousP # None => previousP.b \in accepted

\* A receipt (accepted or already_accepted) is issued only for a generation that was
\* activated: a candidate left behind by a crash or an undo is never acknowledged.
AckedWasAccepted == acked \subseteq accepted

\* Whatever crashes left behind, a store at rest can take the next approved generation:
\* eviction frees enough room as long as each fault cost at most one bundle of it.
CanStillPublish ==
  job = None /\ Capacity >= 3 + faults => \A b \in Bundles :
    (latestP # None => latestP.b.seq < b.seq) => PointersUsable /\ BudgetAllows(b)

\* max_generations is honoured up to the generations that may not be evicted: the current
\* one, the previous one, the one being published, and one candidate per fault.
RetentionBounded ==
  Cardinality(files) <= faults + IF MaxGenerations > 3 THEN MaxGenerations ELSE 3

\* A lock-free reader misses the file of the pointer it holds only once both pointers have
\* moved past it: one publication during the read never takes its file away.
ReaderMissesOnlyIfOvertaken ==
  rd # None /\ rd \notin files => \A b \in Pointed : b.seq > rd.seq

\* The store's promises in one: the rollback pair is readable at every step, the history and
\* the receipts tell the truth, and no crash, undo or eviction wedges or overfills the store.
StoreSafe ==
  /\ PointersBacked /\ NeverHeadless /\ HistoryTruthful /\ AckedWasAccepted
  /\ CanStillPublish /\ RetentionBounded /\ ReaderMissesOnlyIfOvertaken

\* What a reader is shown never goes back in sequence.
ReadsMonotone ==
  [][shown # None => shown'.seq >= shown.seq]_shown

\* The store implements the receiver the producers rely on.
A == INSTANCE AcceptedGenerations
       WITH latest <- IF latestP = None THEN None ELSE latestP.b
ImplementsAcceptedGenerations == A!Spec

\* "On later publication failure only obsolete caches may be gone; the pre-existing
\* current/previous pair remains intact and recoverable" (_publish): when no publication
\* is under way, previous.json names another generation than latest.json.
PairIntact ==
  job = None /\ previousP # None => previousP.b # latestP.b
=============================================================================
