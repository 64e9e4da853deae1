----------------------------- MODULE MCProgress -----------------------------
(***************************************************************************)
(* What must eventually happen: an upload settles, a queued run is served, *)
(* the day's stages settle, an image is deleted, a mail that was being     *)
(* sent is resolved, a provider call ends.  One component, part, moves in  *)
(* a behaviour; the fairness of each is the one its own module states,     *)
(* and conditions of the same kind are joined over the parts, which is the *)
(* same formula because part never changes.  The provider call is the      *)
(* module extended here; the others are instances.                         *)
(***************************************************************************)
EXTENDS BoundedCall, Integers, FiniteSets, TLC

CONSTANTS None, i1, w1, p1, Scheduler, Worker

VARIABLES part,
  dir, latest, accepted, job, net, pr, losses,
  row, claimed, lock, ses, due, built, ended, raised, fails, crashes,
  day, open, last, outdated, backoff, seen, current, plan, ran, calm, bad, manual, changes, boots,
  status, key, image, late, cand, importer, conf, clean, wrote, reviewed, held, faults,
  clock, material, msg, proc, enabled, sent, starved

chunkVars == <<dir, latest, accepted, job, net, pr, losses>>
runVars == <<row, claimed, lock, ses, due, built, ended, raised, fails, crashes>>
settledVars == <<day, open, last, outdated, backoff, seen, current, plan, ran, calm, bad, manual, changes, boots>>
importVars == <<status, key, image, late, cand, importer, conf, clean, wrote, reviewed, held, faults>>
mailVars == <<clock, material, msg, proc, enabled, sent, starved>>
vars == <<part, chunkVars, runVars, settledVars, importVars, mailVars, callVars>>

MCUploads == {[seq |-> 1], [seq |-> 2]}

Chunks == INSTANCE ChunkStaging
  WITH Uploads <- MCUploads, Total <- 2, TTL <- 1, SweepMayDie <- FALSE, MaxLosses <- 1, NoUpload <- None,
       taken <- accepted, request <- job
Refresh == INSTANCE TaskRuns
  WITH NRuns <- 2, NSlots <- 2, MaxFails <- 1, MaxCrashes <- 1, NoRun <- None
Settled == INSTANCE SettledPipeline
  WITH NDays <- 1, MaxFails <- 1, MaxManual <- 0, MaxUniverse <- 0, MaxBootstraps <- 0, fails <- bad
Shots == INSTANCE ScreenshotImport
  WITH Imports <- {i1}, Confirmers <- {w1}, NoImport <- None, MaxVal <- 1, MaxFaults <- 2
Mails == INSTANCE MailOutbox
  WITH Procs <- {p1}, Slots <- {1}, Eod <- 0, Planned <- <<0>>, Ticks <- 2, MailDays <- 1, Ttl <- 2,
       MaxAttempts <- 2, MaxItems <- 9, PruneAge <- 9, PruneBatch <- 1, SendBudget <- 1

ASSUME /\ Chunks!ChunkAssumption /\ Refresh!RunsAssumption /\ Settled!SettledAssumption
       /\ Shots!ScreenshotAssumption /\ Mails!OutboxBounds

ProgressInit ==
  /\ part \in {"chunks", "refresh", "settled", "shots", "mails", "call"}
  /\ Chunks!ChunkInit /\ Refresh!RunsInit /\ Settled!SettledInit /\ Shots!ImportInit /\ Mails!MailInit /\ CallInit
  /\ part # "call" => ~stubborn

InChunks == part = "chunks" /\ UNCHANGED <<part, runVars, settledVars, importVars, mailVars, callVars>>
InRefresh == part = "refresh" /\ UNCHANGED <<part, chunkVars, settledVars, importVars, mailVars, callVars>>
InSettled == part = "settled" /\ UNCHANGED <<part, chunkVars, runVars, importVars, mailVars, callVars>>
InShots == part = "shots" /\ UNCHANGED <<part, chunkVars, runVars, settledVars, mailVars, callVars>>
InMails == part = "mails" /\ UNCHANGED <<part, chunkVars, runVars, settledVars, importVars, callVars>>
InCall == part = "call" /\ UNCHANGED <<part, chunkVars, runVars, settledVars, importVars, mailVars>>

\* Mails!FairMailNext: the environment of the outbox in its own FairMailSpec.
ProgressNext ==
  \/ InChunks /\ Chunks!ChunkNext
  \/ InRefresh /\ Refresh!RunsNext
  \/ InSettled /\ Settled!SettledNext
  \/ InShots /\ Shots!ImportNext
  \/ InMails /\ Mails!FairMailNext
  \/ InCall /\ CallNext

ProgressFairness ==
  /\ WF_vars(\/ (InChunks /\ Chunks!ChunkTick) \/ (InRefresh /\ Refresh!TickImpl) \/ (InSettled /\ Settled!Tick)
             \/ (InShots /\ Shots!Cleanup) \/ (InMails /\ Mails!Run(p1)) \/ (InCall /\ CallTick))
  /\ WF_vars(\/ (InChunks /\ Chunks!Work) \/ (InRefresh /\ Refresh!Progress(Scheduler))
             \/ (InSettled /\ Settled!RunPlanned) \/ (InShots /\ Shots!ExpireImport(i1))
             \/ (InCall /\ ParentStep))
  /\ WF_vars(\/ (InChunks /\ Chunks!Send([seq |-> 1])) \/ (InRefresh /\ Refresh!Progress(Worker))
             \/ (InSettled /\ Settled!Wait) \/ (InShots /\ Shots!Importer(i1))
             \/ (InCall /\ ChildSend /\ pipe' = "whole"))
  /\ WF_vars(\/ (InChunks /\ Chunks!Send([seq |-> 2]))
             \/ (InShots /\ (Shots!ConfirmClaim(w1) \/ Shots!ConfirmCommit(w1))))
  /\ \A u \in MCUploads : SF_chunkVars(InChunks /\ Chunks!Take(u))

ProgressSpec == ProgressInit /\ [][ProgressNext]_vars /\ ProgressFairness

\* Work that was accepted is finished: every upload settles (UploadsSettle of ChunkStaging), every
\* queued refresh is served (QueuedIsServed of TaskRuns), and the settled stages are complete or the
\* next session has begun (SettlesOrNextDay of SettledPipeline).
WorkSettles ==
  /\ \A u \in MCUploads : (part = "chunks" /\ pr[u].state \in {"idle", "next", "waiting"})
       ~> pr[u].state \in {"done", "refused", "dead"}
  /\ \A r \in 1..2 : (part = "refresh" /\ row[r] = "queued") ~> row[r] # "queued"
  /\ (part = "settled" /\ ~open) ~> (Settled!AllComplete \/ open)

\* Nothing that is only there for a while stays: the image of an import is deleted
\* (ImageIsTransient of ScreenshotImport), a mail does not stay in SENDING (SendingResolved of
\* MailOutbox), and a provider call returns (CallEnds of BoundedCall).
NothingLingers ==
  /\ image[i1] ~> ~image[i1]
  /\ \A i \in Mails!Ids : msg[i].state = "SENDING" ~> msg[i].state # "SENDING"
  /\ (part = "call") ~> (parent = "done")
=============================================================================
