----------------------------- MODULE MCSchedule -----------------------------
(***************************************************************************)
(* What the scheduler decides: the evening's settled pipeline, the outcome *)
(* rule it reads, the cadence of a trading day (around lunch and around    *)
(* the close) and the boards that its slots produce.  One of them, part,   *)
(* moves in a behaviour; they meet in the database only.                   *)
(***************************************************************************)
EXTENDS BoardStore, SettledPipeline, TLC

CONSTANTS None, Bad, c1

VARIABLES part,
  raw, out,
  minute, claimed, quoted, lastQuote, lastSector, lastSignal, queued, tasks

outcomeVars == <<raw, out>>
cadenceVars == <<minute, claimed, quoted, lastQuote, lastSector, lastSignal, queued, tasks>>

\* The module itself has one day; here are two, with the bootstrap command.
TwoDays == INSTANCE SettledPipeline
  WITH NDays <- 2, MaxFails <- 1, MaxManual <- 0, MaxUniverse <- 0, MaxBootstraps <- 1

Outcome == INSTANCE TaskOutcome WITH MaxCount <- 1

Lunch == INSTANCE SchedulerCadence
  WITH First <- 688, Final <- 781, Delays <- {1, 30}, SectorMinutes <- 60,
       now <- minute, ran <- tasks

Close == INSTANCE SchedulerCadence
  WITH First <- 887, Final <- 901, Delays <- {1, 2, 4}, SectorMinutes <- 30,
       now <- minute, ran <- tasks

ASSUME /\ TwoDays!SettledAssumption /\ Outcome!OutcomeAssumption
       /\ Lunch!CadenceAssumption /\ Close!CadenceAssumption

ScheduleInit ==
  /\ part \in {"one day", "two days", "outcome", "lunch", "close", "boards"}
  /\ SettledInit /\ Outcome!Init /\ BoardsInit
  /\ IF part = "close" THEN Close!Init ELSE Lunch!Init
  /\ part # "boards" => cfg = c1

ScheduleNext ==
  /\ \/ part = "one day" /\ SettledNext /\ UNCHANGED <<outcomeVars, cadenceVars, boardVars>>
     \/ part = "two days" /\ TwoDays!SettledNext /\ UNCHANGED <<outcomeVars, cadenceVars, boardVars>>
     \/ part = "outcome" /\ Outcome!Finish /\ UNCHANGED <<settledVars, cadenceVars, boardVars>>
     \/ part = "lunch" /\ Lunch!Next /\ UNCHANGED <<settledVars, outcomeVars, boardVars>>
     \/ part = "close" /\ Close!Next /\ UNCHANGED <<settledVars, outcomeVars, boardVars>>
     \/ part = "boards" /\ BoardsNext /\ UNCHANGED <<settledVars, outcomeVars, cadenceVars>>
  /\ UNCHANGED part

ScheduleSpec == ScheduleInit /\ [][ScheduleNext]_<<part, settledVars, outcomeVars, cadenceVars, boardVars>>

\* A success is earned (OutcomeEarned of TaskOutcome), the board slots are those of the refresh policy,
\* and ticks keep lunch quiet and claim the latest slot (SlotsMatchPolicy and TicksKeepPolicy of
\* SchedulerCadence).
PolicyKept ==
  [][/\ part = "two days" => TwoDays!SettledTypeOK'
     /\ part = "outcome" => Outcome!OutcomeEarned'
     /\ part = "lunch" => Lunch!SlotsMatchPolicy
     /\ UNCHANGED cadenceVars \/ (Lunch!LunchQuiet /\ Lunch!LatestSlotClaimed)]_<<part, settledVars, outcomeVars, cadenceVars>>
=============================================================================
