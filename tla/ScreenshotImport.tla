--------------------------- MODULE ScreenshotImport ---------------------------
(***************************************************************************)
(* Import of holdings from a screenshot: the session row, its transient    *)
(* image, the candidate rows an owner reviews, and the confirmation that   *)
(* writes holdings (backend/app/services/holding_import_service.py).       *)
(*                                                                         *)
(* Requests run in several processes.  A transaction that takes the row by *)
(* compare-and-set is one step; what a request read before it is kept in   *)
(* the request (conf, clean).  The row's CHECK constraints are part of the *)
(* steps they can refuse.  "editing" and "confirming" exist only inside a  *)
(* transaction.  One candidate row stands for the session's rows.          *)
(***************************************************************************)
EXTENDS Naturals, FiniteSets

CONSTANTS
  Imports,     \* sessions
  Confirmers,  \* processes that confirm
  NoImport,
  MaxVal,      \* bound: versions of a candidate's numbers
  MaxFaults    \* bound: failing file operations, failing commits, processes that die

ScreenshotAssumption ==
  /\ MaxVal \in Nat \ {0} /\ MaxFaults \in Nat /\ NoImport \notin Imports

VARIABLES
  status, key,    \* session row: status, storage_key present
  image,          \* transient directory exists
  late,           \* expires_at has passed
  cand,           \* [match, code, state, sel, val] of the candidate row
  importer,       \* progress of the request that created the session
  conf,           \* [at, sess, active] of each confirming worker; active: the row is to be written
  clean,          \* [at, rows, expiring] of the cleanup
  wrote,          \* ghost: confirmations that wrote holdings
  reviewed,       \* ghost: the owner selected a code after the row was read from the image
  held,           \* ghost: numbers the confirmation wrote
  faults

importVars == <<status, key, image, late, cand, importer, conf, clean, wrote, reviewed, held, faults>>

Terminal == {"confirmed", "cancelled", "expired", "failed"}
NoCand == [match |-> "none", code |-> FALSE, state |-> "none", sel |-> FALSE, val |-> 0]
IdleConf == [at |-> "idle", sess |-> NoImport, active |-> FALSE]
IdleClean == [at |-> "idle", rows |-> {}, expiring |-> {}]

ImportInit ==
  /\ status = [s \in Imports |-> "absent"] /\ key = [s \in Imports |-> FALSE]
  /\ image = [s \in Imports |-> FALSE] /\ late = [s \in Imports |-> FALSE]
  /\ cand = [s \in Imports |-> NoCand] /\ importer = [s \in Imports |-> "none"]
  /\ conf = [w \in Confirmers |-> IdleConf] /\ clean = IdleClean
  /\ wrote = [s \in Imports |-> 0] /\ reviewed = [s \in Imports |-> FALSE]
  /\ held = [s \in Imports |-> 0] /\ faults = 0

\* A confirming transaction holds the row; others wait for it to end.
RowHeld(s) == \E w \in Confirmers : conf[w].at = "claimed" /\ conf[w].sess = s

Fault == faults < MaxFaults /\ faults' = faults + 1

-----------------------------------------------------------------------------
(* Reading a line of the image.                                             *)

Lines == [code : {"none", "bad_exchange", "code", "symbol"}, hits : 0..2, names : 0..2,
          sure : BOOLEAN, known : BOOLEAN]

\* _resolve_line: the one instrument the line names, if any.
Instrument(l) ==
  CASE l.code = "bad_exchange" -> FALSE
    [] l.code \in {"code", "symbol"} -> l.hits = 1
    [] l.code = "none" -> l.names = 1

Ambiguous(l) == (l.code = "symbol" /\ l.hits > 1) \/ (l.code = "none" /\ l.names > 1)

MatchStatus(l) ==
  IF ~l.sure THEN "low_confidence"
  ELSE IF Instrument(l) THEN IF l.known THEN "duplicate" ELSE "matched"
  ELSE IF Ambiguous(l) THEN "ambiguous" ELSE "unmatched"

-----------------------------------------------------------------------------
(* The request that creates a session.                                      *)

\* The row with its key is committed first.
CreateImport(s) ==
  /\ status[s] = "absent" /\ importer[s] = "none"
  /\ status' = [status EXCEPT ![s] = "processing"] /\ key' = [key EXCEPT ![s] = TRUE]
  /\ importer' = [importer EXCEPT ![s] = "committed"]
  /\ UNCHANGED <<image, late, cand, conf, clean, wrote, reviewed, held, faults>>

WritePayload(s) ==
  /\ importer[s] = "committed"
  /\ image' = [image EXCEPT ![s] = TRUE] /\ importer' = [importer EXCEPT ![s] = "written"]
  /\ UNCHANGED <<status, key, late, cand, conf, clean, wrote, reviewed, held, faults>>

\* Storage or OCR fails: the row is set to failed and its directory removed, if that works.
ImportFails(s) ==
  /\ importer[s] \in {"committed", "written"} /\ Fault
  /\ importer' = [importer EXCEPT ![s] = "done"]
  /\ status' = [status EXCEPT ![s] = "failed"]
  /\ \/ image' = [image EXCEPT ![s] = FALSE] /\ key' = [key EXCEPT ![s] = FALSE]
     \/ UNCHANGED <<image, key>>
  /\ UNCHANGED <<late, cand, conf, clean, wrote, reviewed, held>>

\* The candidates are stored; the status is assigned whatever it is by now.
Recognize(s) ==
  /\ importer[s] = "written" /\ status[s] \in {"processing", "expired"}
  /\ importer' = [importer EXCEPT ![s] = "done"]
  /\ status' = [status EXCEPT ![s] = "ready"]
  /\ \E l \in Lines : cand' = [cand EXCEPT ![s] =
        [match |-> MatchStatus(l), code |-> Instrument(l), state |-> "pending", sel |-> FALSE, val |-> 1]]
  /\ UNCHANGED <<key, image, late, conf, clean, wrote, reviewed, held, faults>>

ImporterDies(s) ==
  /\ importer[s] \in {"committed", "written"} /\ Fault
  /\ importer' = [importer EXCEPT ![s] = "done"]
  /\ UNCHANGED <<status, key, image, late, cand, conf, clean, wrote, reviewed, held>>

-----------------------------------------------------------------------------
(* Review.                                                                  *)

\* edit_candidate takes the ready row by compare-and-set and leaves it ready.
EditRow(s) ==
  /\ status[s] = "ready" /\ ~late[s] /\ ~RowHeld(s)
  /\ \E c \in {[cand[s] EXCEPT !.state = "rejected", !.sel = FALSE],
               [cand[s] EXCEPT !.state = "reviewed", !.sel = TRUE, !.match = "matched", !.code = TRUE]}
            \cup {[cand[s] EXCEPT !.val = v, !.state = IF @ = "rejected" THEN "pending" ELSE @] : v \in 1..MaxVal} :
       /\ cand' = [cand EXCEPT ![s] = c]
       /\ reviewed' = [reviewed EXCEPT ![s] = c.state = "reviewed"]
  /\ UNCHANGED <<status, key, image, late, importer, conf, clean, wrote, held, faults>>

\* Removing the directory and clearing the key, after the status is committed.
Finalize(s, ok) ==
  IF ok THEN image' = [image EXCEPT ![s] = FALSE] /\ key' = [key EXCEPT ![s] = FALSE]
  ELSE UNCHANGED <<image, key>>

\* Removal works, or fails as one of the faults.
Removal(ok) == (ok /\ UNCHANGED faults) \/ (~ok /\ Fault)

\* cancel: compare-and-set from ready; an expired row is set to expired.
CancelImport(s) ==
  /\ status[s] = "ready" /\ ~RowHeld(s)
  /\ status' = [status EXCEPT ![s] = IF late[s] THEN "expired" ELSE "cancelled"]
  /\ \E ok \in BOOLEAN : Finalize(s, ok) /\ Removal(ok)
  /\ UNCHANGED <<late, cand, importer, conf, clean, wrote, reviewed, held>>

\* confirm reads the session and checks its candidates: rejected rows are left out, the others
\* must be reviewed.
ConfirmReadRow(w, s) ==
  /\ conf[w] = IdleConf /\ status[s] = "ready" /\ ~late[s]
  /\ cand[s].state = "rejected" \/ (cand[s].state = "reviewed" /\ cand[s].sel)
  /\ conf' = [conf EXCEPT ![w] = [at |-> "read", sess |-> s, active |-> cand[s].state # "rejected"]]
  /\ UNCHANGED <<status, key, image, late, cand, importer, clean, wrote, reviewed, held, faults>>

\* The claim by compare-and-set: the row is locked until the transaction ends.
ConfirmClaim(w) ==
  LET s == conf[w].sess IN
  /\ conf[w].at = "read" /\ ~RowHeld(s)
  /\ IF status[s] = "ready" /\ ~late[s]
     THEN conf' = [conf EXCEPT ![w].at = "claimed"] /\ UNCHANGED status
     ELSE /\ conf' = [conf EXCEPT ![w] = IdleConf]
          /\ status' = IF status[s] = "ready" THEN [status EXCEPT ![s] = "expired"] ELSE status
  /\ UNCHANGED <<key, image, late, cand, importer, clean, wrote, reviewed, held, faults>>

\* db.refresh(session) expires the candidates with it, so the rows found active are upserted
\* as they are under the claim; the rows left out stay so.  An active row whose selection is
\* gone by now is refused by its CHECK constraint and everything rolls back.  The image is
\* removed after the commit.
ConfirmCommit(w) ==
  LET s == conf[w].sess IN
  /\ conf[w].at = "claimed" /\ conf' = [conf EXCEPT ![w] = IdleConf]
  /\ \/ /\ conf[w].active => cand[s].sel
        /\ status' = [status EXCEPT ![s] = "confirmed"]
        /\ IF conf[w].active
           THEN /\ cand' = [cand EXCEPT ![s].state = "confirmed"]
                /\ wrote' = [wrote EXCEPT ![s] = @ + 1]
                /\ held' = [held EXCEPT ![s] = cand[s].val]
           ELSE UNCHANGED <<cand, wrote, held>>
        /\ \E ok \in BOOLEAN : Finalize(s, ok) /\ Removal(ok)
     \/ /\ conf[w].active /\ ~cand[s].sel
        /\ UNCHANGED <<status, cand, wrote, held, key, image, faults>>
  /\ UNCHANGED <<late, importer, clean, reviewed>>

\* The worker dies or its commit fails: everything since the read is rolled back.
ConfirmDies(w) ==
  /\ conf[w] # IdleConf /\ Fault /\ conf' = [conf EXCEPT ![w] = IdleConf]
  /\ UNCHANGED <<status, key, image, late, cand, importer, clean, wrote, reviewed, held>>

-----------------------------------------------------------------------------
(* Cleanup, at the start of every request.                                  *)

\* expires_at passes; the payload is written well within the session's lifetime.
ExpireImport(s) ==
  /\ ~late[s] /\ status[s] # "absent" /\ importer[s] # "committed"
  /\ late' = [late EXCEPT ![s] = TRUE]
  /\ UNCHANGED <<status, key, image, cand, importer, conf, clean, wrote, reviewed, held, faults>>

CleanSelect ==
  LET expiring == {s \in Imports : late[s] /\ status[s] \in {"processing", "ready"}}
      rows == expiring \cup {s \in Imports : status[s] \in Terminal /\ key[s]}
  IN
  /\ clean = IdleClean /\ rows # {}
  /\ clean' = [at |-> "selected", rows |-> rows, expiring |-> expiring]
  /\ UNCHANGED <<status, key, image, late, cand, importer, conf, wrote, reviewed, held, faults>>

\* Mutant: nothing keeps the timestamps and the status coherent.
CleanExpireUnchecked ==
  /\ clean.at = "selected" /\ \A s \in clean.expiring : ~RowHeld(s)
  /\ status' = [s \in Imports |-> IF s \in clean.expiring THEN "expired" ELSE status[s]]
  /\ clean' = [clean EXCEPT !.at = "expired"]
  /\ UNCHANGED <<key, image, late, cand, importer, conf, wrote, reviewed, held, faults>>

\* The rows are set to expired by primary key; a row confirmed or cancelled since the select
\* violates a CHECK constraint and the whole cleanup is abandoned.
CleanExpire ==
  /\ clean.at = "selected" /\ \A s \in clean.expiring : ~RowHeld(s)
  /\ IF \E s \in clean.expiring : status[s] \in {"confirmed", "cancelled"}
     THEN clean' = IdleClean /\ UNCHANGED status
     ELSE /\ status' = [s \in Imports |-> IF s \in clean.expiring THEN "expired" ELSE status[s]]
          /\ clean' = [clean EXCEPT !.at = "expired"]
  /\ UNCHANGED <<key, image, late, cand, importer, conf, wrote, reviewed, held, faults>>

CleanFinalize ==
  /\ clean.at = "expired"
  /\ \E s \in clean.rows, ok \in BOOLEAN :
       /\ Finalize(s, ok) /\ Removal(ok)
       /\ clean' = IF clean.rows = {s} THEN IdleClean ELSE [clean EXCEPT !.rows = @ \ {s}]
  /\ UNCHANGED <<status, late, cand, importer, conf, wrote, reviewed, held>>

Cleanup == CleanSelect \/ CleanExpire \/ CleanFinalize

Importer(s) == WritePayload(s) \/ Recognize(s) \/ ImportFails(s)

ImportNext ==
  \/ \E s \in Imports : CreateImport(s) \/ Importer(s) \/ ImporterDies(s) \/ EditRow(s) \/ CancelImport(s) \/ ExpireImport(s)
  \/ \E w \in Confirmers : (\E s \in Imports : ConfirmReadRow(w, s)) \/ ConfirmClaim(w) \/ ConfirmCommit(w) \/ ConfirmDies(w)
  \/ Cleanup

ImportSpec == ImportInit /\ [][ImportNext]_importVars

\* Sessions expire, requests keep coming (each begins with a cleanup) and end.
FairSpec ==
  /\ ImportSpec /\ WF_importVars(Cleanup)
  /\ \A s \in Imports : WF_importVars(ExpireImport(s)) /\ WF_importVars(Importer(s))
  /\ \A w \in Confirmers : WF_importVars(ConfirmClaim(w) \/ ConfirmCommit(w))

-----------------------------------------------------------------------------
\* Every variable stays in its domain.
ScreenshotTypeOK ==
  /\ status \in [Imports -> {"absent", "processing", "ready"} \cup Terminal]
  /\ key \in [Imports -> BOOLEAN] /\ image \in [Imports -> BOOLEAN] /\ late \in [Imports -> BOOLEAN]
  /\ cand \in [Imports -> [match : {"none", "low_confidence", "duplicate", "matched", "ambiguous", "unmatched"},
                           code : BOOLEAN, state : {"none", "pending", "reviewed", "rejected", "confirmed"},
                           sel : BOOLEAN, val : 0..MaxVal]]
  /\ \A w \in Confirmers : conf[w].at \in {"read", "claimed"} => conf[w].sess \in Imports
  /\ clean.expiring \subseteq Imports /\ clean.rows \subseteq Imports

\* An image on disk belongs to a row that still holds its key: whatever step fails, crashes or
\* runs twice, a later cleanup can find and remove the private screenshot.
ImageOwned == \A s \in Imports : image[s] => key[s]

\* Holdings were written exactly for the rows that are confirmed of the sessions that are, once
\* each: two confirming workers, a cancellation and a cleanup that selected the row earlier
\* cannot do otherwise.  A session whose rows are all rejected is confirmed and writes nothing.
WrittenIffConfirmed ==
  \A s \in Imports :
    /\ wrote[s] = IF status[s] = "confirmed" /\ cand[s].state = "confirmed" THEN 1 ELSE 0
    /\ cand[s].state = "confirmed" => status[s] = "confirmed"

\* No row the OCR matched by itself becomes a holding: the owner selected its code.
ConfirmedWasReviewed == \A s \in Imports : wrote[s] > 0 => reviewed[s]

\* The holding has the numbers its candidate row shows, although the owner may edit the row
\* between the confirmation's checks and its claim.
ConfirmedAsShown == \A s \in Imports : wrote[s] > 0 => held[s] = cand[s].val

\* The import in one: every image is owned by its row, and what is written is what the owner
\* reviewed and the row shows, once.
ImportSafe == ImageOwned /\ WrittenIffConfirmed /\ ConfirmedWasReviewed /\ ConfirmedAsShown

\* The screenshot does not stay: every image written is removed, although removals fail
\* (boundedly often) and processes die.
ImageIsTransient == \A s \in Imports : image[s] ~> ~image[s]
=============================================================================
