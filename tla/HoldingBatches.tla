---------------------------- MODULE HoldingBatches ----------------------------
(***************************************************************************)
(* Imported batches of positions with preview, confirmation, undo and      *)
(* revision (backend/app/workspace/imports.py, import_revisions.py), next  *)
(* to the owner's direct edits of a holding (services/holding_service.py). *)
(*                                                                         *)
(* A position is one number in units finer than the column that stores it: *)
(* Stored rounds it.  Confirmation and undo read the holdings and later    *)
(* write them in one transaction under the owner's lock and the locks of   *)
(* the rows found; a direct edit takes no owner lock.                      *)
(***************************************************************************)
EXTENDS Integers, FiniteSets

CONSTANTS
  Codes, Batches, None,
  Vals,          \* positions, in fine units
  Scale,         \* fine units of the stored column
  MaxManual,     \* bound: direct edits
  MaxPreviews    \* previews an owner may keep when a revision is made

BatchesBounds ==
  /\ Vals \subseteq Nat \ {0} /\ Scale \in Nat \ {0} /\ {MaxManual, MaxPreviews} \subseteq Nat
  /\ IsFiniteSet(Batches) /\ None \notin Nat \cup Batches

ASSUME BatchesAssumption == BatchesBounds

VARIABLES
  hold,      \* stored holdings: code to value, or None
  batch,     \* [status, rows, before, after] of each batch
  tx,        \* [kind, batch, seen] the transaction under the owner's lock
  touched,   \* ghost: batches whose codes somebody else wrote since they were confirmed
  refused,   \* ghost: batches whose undo was refused
  lost,      \* ghost: an edit was overwritten by a transaction that had not read it
  applied,   \* ghost: times a batch was applied
  manual

batchVars == <<hold, batch, tx, touched, refused, lost, applied, manual>>

Stored(v) == IF v = None THEN None ELSE (v \div Scale) * Scale
NoRows == [c \in Codes |-> None]
Absent == [status |-> "absent", rows |-> NoRows, before |-> NoRows, after |-> NoRows]
NoTx == [kind |-> "none", batch |-> None, seen |-> NoRows]
Selected(b) == {c \in Codes : batch[b].rows[c] # None}

BatchesInit ==
  /\ hold = NoRows /\ batch = [b \in Batches |-> Absent] /\ tx = NoTx
  /\ touched = {} /\ refused = {} /\ lost = FALSE /\ applied = [b \in Batches |-> 0] /\ manual = 0

\* A file, typed rows or an OCR session; the same source gives the batch that exists.
Preview(b, rows) ==
  /\ batch[b] = Absent /\ rows # NoRows
  /\ batch' = [batch EXCEPT ![b] = [Absent EXCEPT !.status = "preview", !.rows = rows]]
  /\ UNCHANGED <<hold, tx, touched, refused, lost, applied, manual>>

\* A new preview with the rows of a batch that stays as it is.
NewRevision(b, origin) ==
  /\ batch[b] = Absent /\ batch[origin].status # "absent"
  /\ Cardinality({x \in Batches : batch[x].status = "preview"}) < MaxPreviews
  /\ batch' = [batch EXCEPT ![b] = [Absent EXCEPT !.status = "preview", !.rows = batch[origin].rows]]
  /\ UNCHANGED <<hold, tx, touched, refused, lost, applied, manual>>

\* The client sends the hash of the rows it saw, so it edits the rows as they are.
Edit(b, rows) ==
  /\ batch[b].status = "preview" /\ tx.batch # b /\ rows # NoRows
  /\ batch' = [batch EXCEPT ![b].rows = rows]
  /\ UNCHANGED <<hold, tx, touched, refused, lost, applied, manual>>

Cancel(b) ==
  /\ batch[b].status = "preview" /\ tx.batch # b
  /\ batch' = [batch EXCEPT ![b].status = "cancelled"]
  /\ UNCHANGED <<hold, tx, touched, refused, lost, applied, manual>>

-----------------------------------------------------------------------------
(* Writing holdings.                                                        *)

Others(b, written) == {x \in Batches \ {b} : batch[x].status = "confirmed" /\ Selected(x) \cap written # {}}

\* confirm under lock_owner: holding_state before.
ConfirmRead(b) ==
  /\ tx = NoTx /\ batch[b].status = "preview"
  /\ tx' = [kind |-> "confirm", batch |-> b, seen |-> [c \in Codes |-> IF c \in Selected(b) THEN hold[c] ELSE None]]
  /\ UNCHANGED <<hold, batch, touched, refused, lost, applied, manual>>

\* The upserts, and after_hash from the session's objects, which still hold the unrounded numbers.
ConfirmWrite ==
  LET b == tx.batch IN
  /\ tx.kind = "confirm" /\ tx' = NoTx
  /\ hold' = [c \in Codes |-> IF c \in Selected(b) THEN Stored(batch[b].rows[c]) ELSE hold[c]]
  /\ batch' = [batch EXCEPT ![b] = [@ EXCEPT !.status = "confirmed", !.before = tx.seen, !.after = batch[b].rows]]
  /\ applied' = [applied EXCEPT ![b] = @ + 1]
  /\ touched' = (touched \ {b}) \cup Others(b, Selected(b))
  /\ lost' = (lost \/ \E c \in Selected(b) : hold[c] # tx.seen[c])
  /\ UNCHANGED <<refused, manual>>

\* Mutant: the holdings are not compared with what the import left.
UndoReadBlind(b) ==
  /\ tx = NoTx /\ batch[b].status = "confirmed"
  /\ tx' = [kind |-> "undo", batch |-> b, seen |-> [c \in Codes |-> IF c \in Selected(b) THEN hold[c] ELSE None]]
  /\ UNCHANGED <<hold, batch, touched, refused, lost, applied, manual>>

\* undo: refused when the holdings are not what the import left.
UndoRead(b) ==
  LET state == [c \in Codes |-> IF c \in Selected(b) THEN hold[c] ELSE None] IN
  /\ tx = NoTx /\ batch[b].status = "confirmed"
  /\ IF state = batch[b].after
     THEN tx' = [kind |-> "undo", batch |-> b, seen |-> state] /\ UNCHANGED refused
     ELSE refused' = refused \cup {b} /\ UNCHANGED tx
  /\ UNCHANGED <<hold, batch, touched, lost, applied, manual>>

UndoWrite ==
  LET b == tx.batch IN
  /\ tx.kind = "undo" /\ tx' = NoTx
  /\ hold' = [c \in Codes |-> IF c \in Selected(b) THEN batch[b].before[c] ELSE hold[c]]
  /\ batch' = [batch EXCEPT ![b].status = "undone"]
  /\ touched' = touched \cup Others(b, Selected(b))
  /\ lost' = (lost \/ \E c \in Selected(b) : hold[c] # tx.seen[c])
  /\ UNCHANGED <<refused, applied, manual>>

\* The process dies: the transaction rolls back.
Rollback == tx # NoTx /\ tx' = NoTx /\ UNCHANGED <<hold, batch, touched, refused, lost, applied, manual>>

\* Rows that holding_state read FOR UPDATE; a code without a row has nothing to lock.
Locked == {c \in Codes : tx.seen[c] # None}

\* PUT and DELETE /holdings: no owner lock; the write of a locked row waits.
ManualEdit(c, v) ==
  /\ c \notin Locked /\ manual < MaxManual /\ manual' = manual + 1
  /\ hold' = [hold EXCEPT ![c] = Stored(v)]
  /\ touched' = touched \cup Others(None, {c})
  /\ UNCHANGED <<batch, tx, refused, lost, applied>>

ManualDelete(c) ==
  /\ hold[c] # None /\ c \notin Locked /\ manual < MaxManual /\ manual' = manual + 1
  /\ hold' = [hold EXCEPT ![c] = None]
  /\ touched' = touched \cup Others(None, {c})
  /\ UNCHANGED <<batch, tx, refused, lost, applied>>

Rows == [Codes -> Vals \cup {None}]

BatchesNext ==
  \/ \E b \in Batches : \/ \E rows \in Rows : Preview(b, rows) \/ Edit(b, rows)
                        \/ \E o \in Batches : NewRevision(b, o)
                        \/ Cancel(b) \/ ConfirmRead(b) \/ UndoRead(b)
  \/ ConfirmWrite \/ UndoWrite \/ Rollback
  \/ \E c \in Codes : ManualDelete(c) \/ \E v \in Vals : ManualEdit(c, v)

BatchesSpec == BatchesInit /\ [][BatchesNext]_batchVars

-----------------------------------------------------------------------------
Held == [Codes -> Nat \cup {None}]
BatchRecord ==
  [status : {"absent", "preview", "cancelled", "confirmed", "undone"}, rows : Rows, before : Held, after : Rows]
TxRecord == [kind : {"none", "confirm", "undo"}, batch : Batches \cup {None}, seen : Held]

\* Every variable stays in its domain, and stored holdings have the column's scale.
BatchesTypeOK ==
  /\ hold \in Held /\ \A c \in Codes : Stored(hold[c]) = hold[c]
  /\ batch \in [Batches -> BatchRecord] /\ tx \in TxRecord
  /\ applied \in [Batches -> Nat] /\ manual \in 0..MaxManual

\* When every applied batch has been undone, in whatever order the check allowed, and the owner
\* edited nothing, the holdings are what they were: overlapping batches cannot leave a rest.
AllUndoneRestores ==
  manual = 0 /\ (\A b \in Batches : batch[b].status # "confirmed") => hold = NoRows

\* A batch is applied at most once; what was undone comes back only as a new revision.
AppliedOnce == \A b \in Batches : applied[b] <= 1

\* An undo takes back only what its own batch stored, never a later batch's different value.
UndoOwn ==
  \A b \in DOMAIN batch : batch[b].status = "confirmed" /\ batch'[b].status = "undone" =>
    \A c \in Selected(b) : hold[c] = Stored(batch[b].rows[c])

\* Undo after undo, in whatever order: each takes back what its batch stored.
UndoTakesOwn == [][UndoOwn]_batchVars

\* Applying and undoing in one.
BatchesUndoable == AllUndoneRestores /\ AppliedOnce

\* "conflict-safe undo": confirmation and undo never overwrite an edit they have not read.
ConflictSafe == ~lost

\* "holdings_changed_after_import_cannot_undo": an undo is refused only if somebody wrote one of
\* its codes since the import.
RefusedOnlyIfChanged == refused \subseteq touched
=============================================================================
