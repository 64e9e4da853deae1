------------------------------ MODULE MCPortal ------------------------------
(***************************************************************************)
(* What an owner does in the portal: screenshot imports, holding batches,  *)
(* accounts, the login throttles, the review of model output, and the page *)
(* in the browser.  They share no state, so one of them, part, moves in a  *)
(* behaviour; some have instances with different bounds, and batches,      *)
(* accounts, imports, the editor and the analyses are extended here, too.  *)
(***************************************************************************)
EXTENDS HoldingBatches, Accounts, ScreenshotImport, ImportEditor, AnalysisRecords, Integers, TLC

CONSTANTS i1, i2, w1, w2, c1, c2, c3, b1, b2, b3, u1, u2, u3, r1, r2, t1, t2, nobody

VARIABLES part,
  now, attempts, thread, wrong, row, rewrong, tries,
  cookie, page, owner, locked, adrift, demoFailed, byReset

limitVars == <<now, attempts, thread, wrong, row, rewrong, tries>>
pageVars == <<cookie, page, owner, locked, adrift, demoFailed, byReset>>
browserVars == <<pageVars, editorVars>>

\* Two sessions and no faults; the module itself has one that two workers confirm, with faults.
Screens == INSTANCE ScreenshotImport
  WITH Imports <- {i1, i2}, Confirmers <- {w1}, MaxVal <- 1, MaxFaults <- 0

\* Two codes and the column's scale; the module itself has three revisions of one code.
Positions == INSTANCE HoldingBatches
  WITH Codes <- {c1, c2}, Batches <- {b1, b2}, Vals <- {2, 3}, Scale <- 2, MaxManual <- 1, MaxPreviews <- 2

\* Many sessions; the module itself has many lifecycle operations.
Logins == INSTANCE Accounts WITH MaxSessions <- 2, MaxOps <- 2

\* A table that is too small; two threads on one client.
Crowd == INSTANCE LoginLimits
  WITH Clients <- {c1, c2, c3}, Threads <- {t1}, MaxEntries <- 2, MaxFailures <- 2, Window <- 2,
       MaxTime <- 3, MaxTries <- 4
Race == INSTANCE LoginLimits
  WITH Clients <- {c1}, Threads <- {t1, t2}, MaxEntries <- 2, MaxFailures <- 2, Window <- 2,
       MaxTime <- 4, MaxTries <- 6

\* Two items in one task; two reviewers.  The module itself has one news item analysed three times.
Articles == INSTANCE AnalysisRecords
  WITH NKeys <- 2, Texts <- {"a", "b"}, LongTexts <- {"b"}, Models <- {"m1", "m2"}, KeepsZone <- TRUE,
       Candidates <- {}, Reviewers <- {}, MaxRuns <- 2, MaxConfigs <- 1, MaxAsks <- 0
Reviewing == INSTANCE AnalysisRecords
  WITH NKeys <- 1, Texts <- {}, LongTexts <- {}, Models <- {"m1"}, KeepsZone <- TRUE,
       Candidates <- {c1, c2}, Reviewers <- {r1, r2}, MaxRuns <- 0, MaxConfigs <- 0, MaxAsks <- 2

\* Two accounts after another; demonstration and back; the event stream.
Visitors == INSTANCE BrowserSession
  WITH session <- cookie, Users <- {u1, u2}, Nobody <- nobody, Reads <- {}, Demo <- FALSE, MaxSent <- 6, MaxFlight <- 2
Modes == INSTANCE BrowserSession
  WITH session <- cookie, Users <- {u3}, Nobody <- nobody, Reads <- {"board"}, Demo <- TRUE, MaxSent <- 6, MaxFlight <- 2
Streams == INSTANCE BrowserSession
  WITH session <- cookie, Users <- {u3}, Nobody <- nobody, Reads <- {"events", "settings"}, Demo <- TRUE,
       MaxSent <- 6, MaxFlight <- 2

\* Two screenshots, given up and begun again; the module itself has more corrections and fewer turns.
Uploads == INSTANCE ImportEditor WITH MaxEdits <- 2, MaxTurns <- 3

ASSUME /\ ScreenshotAssumption /\ Screens!ScreenshotAssumption
       /\ Positions!BatchesBounds
       /\ Logins!AccountsAssumption
       /\ Crowd!LimitsAssumption /\ Race!LimitsAssumption
       /\ Articles!AnalysisBounds /\ Reviewing!AnalysisBounds
       /\ Visitors!SessionAssumption /\ Modes!SessionAssumption /\ Streams!SessionAssumption
       /\ EditorAssumption /\ Uploads!EditorAssumption

PortalSymmetry == Permutations({u1, u2}) \cup Permutations({r1, r2})

PortalInit ==
  /\ part \in {"screens", "sessions", "positions", "revisions", "lifecycle", "logins", "crowd", "race",
              "article", "articles", "memos", "visitors", "modes", "streams", "corrections", "uploads"}
  /\ IF part = "sessions" THEN Screens!ImportInit ELSE ImportInit
  /\ IF part = "revisions" THEN BatchesInit ELSE Positions!BatchesInit
  /\ IF part = "race" THEN Race!Init ELSE Crowd!Init
  /\ Init
  /\ CASE part = "article" -> AnalysisInit
       [] part = "articles" -> Articles!AnalysisInit
       [] part = "memos" -> Reviewing!AnalysisInit
       [] OTHER -> Reviewing!AnalysisInit /\ ready /\ config.on
  /\ IF part = "visitors" THEN Visitors!PageInit ELSE Modes!PageInit
  /\ part \notin {"visitors", "modes", "streams"} => cookie = nobody
  /\ EditorInit

PortalNext ==
  /\ \/ part = "screens" /\ ImportNext /\ UNCHANGED <<batchVars, vars, limitVars, analysisVars, browserVars>>
     \/ part = "sessions" /\ Screens!ImportNext /\ UNCHANGED <<batchVars, vars, limitVars, analysisVars, browserVars>>
     \/ part = "positions" /\ Positions!BatchesNext /\ UNCHANGED <<importVars, vars, limitVars, analysisVars, browserVars>>
     \/ part = "revisions" /\ BatchesNext /\ UNCHANGED <<importVars, vars, limitVars, analysisVars, browserVars>>
     \/ part = "lifecycle" /\ Next /\ UNCHANGED <<importVars, batchVars, limitVars, analysisVars, browserVars>>
     \/ part = "logins" /\ Logins!Next /\ UNCHANGED <<importVars, batchVars, limitVars, analysisVars, browserVars>>
     \/ part = "crowd" /\ Crowd!Next /\ UNCHANGED <<importVars, batchVars, vars, analysisVars, browserVars>>
     \/ part = "race" /\ Race!Next /\ UNCHANGED <<importVars, batchVars, vars, analysisVars, browserVars>>
     \/ part = "article" /\ AnalysisNext /\ UNCHANGED <<importVars, batchVars, vars, limitVars, browserVars>>
     \/ part = "articles" /\ Articles!AnalysisNext /\ UNCHANGED <<importVars, batchVars, vars, limitVars, browserVars>>
     \/ part = "memos" /\ Reviewing!AnalysisNext /\ UNCHANGED <<importVars, batchVars, vars, limitVars, browserVars>>
     \/ part = "visitors" /\ Visitors!PageNext /\ UNCHANGED <<importVars, batchVars, vars, limitVars, analysisVars, editorVars>>
     \/ part = "modes" /\ Modes!PageNext /\ UNCHANGED <<importVars, batchVars, vars, limitVars, analysisVars, editorVars>>
     \/ part = "streams" /\ Streams!PageNext /\ UNCHANGED <<importVars, batchVars, vars, limitVars, analysisVars, editorVars>>
     \/ part = "corrections" /\ EditorNext /\ UNCHANGED <<importVars, batchVars, vars, limitVars, analysisVars, pageVars>>
     \/ part = "uploads" /\ Uploads!EditorNext /\ UNCHANGED <<importVars, batchVars, vars, limitVars, analysisVars, pageVars>>
  /\ UNCHANGED part

PortalSpec == PortalInit
  /\ [][PortalNext]_<<part, importVars, batchVars, vars, limitVars, analysisVars, browserVars>>

\* The other instances and components: two screenshots stay apart (ImportSafe), concurrent logins
\* obey the account rules (AccountsSafe), given up screenshots leave nothing to a later one
\* (EditorSound), undone batches leave no rest (BatchesUndoable), the login throttles keep their
\* bounds (ThrottlesHold of LoginLimits), and the page shows nobody the data of another account or
\* mode (PageSound of BrowserSession); several items show their own analyses and reviewers are told
\* one decision (AnalysisTruthful).
PortalSafe ==
  /\ part = "screens" => ScreenshotTypeOK
  /\ part = "sessions" => Screens!ScreenshotTypeOK /\ Screens!ImportSafe
  /\ part = "logins" => Logins!AccountsSafe
  /\ part = "uploads" => Uploads!EditorSound
  /\ part = "positions" => Positions!BatchesTypeOK /\ Positions!BatchesUndoable
  /\ part = "revisions" => BatchesTypeOK /\ BatchesUndoable
  /\ part = "crowd" => Crowd!LimitsTypeOK /\ Crowd!ThrottlesHold
  /\ part = "race" => Race!LimitsTypeOK /\ Race!ThrottlesHold
  /\ part = "visitors" => Visitors!PageSound
  /\ part \in {"modes", "streams"} => Modes!PageSound
  /\ part = "articles" => Articles!AnalysisTruthful
  /\ part = "memos" => Reviewing!AnalysisTruthful
=============================================================================
