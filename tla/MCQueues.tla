------------------------------ MODULE MCQueues ------------------------------
(***************************************************************************)
(* The three queues: research jobs of the desktop bridges, data jobs of    *)
(* the workspace worker, and the task runs of the refresh scheduler.  They *)
(* live in different tables, so one of them, part, moves in a behaviour.   *)
(* The first two have two parts each, which bound different things: two    *)
(* bridges on one job, and one bridge on two jobs that are not retried;    *)
(* local jobs of two workers, and API tickets under one worker at a time.  *)
(***************************************************************************)
EXTENDS ResearchJobs, DataJobs, TaskRuns, TLC

CONSTANTS d1, d2, w1, w2

VARIABLE part

queueVars == <<researchVars, dataVars, runVars>>

QueueSymmetry == Permutations({d1, d2}) \cup Permutations({w1, w2})

QueuesInit ==
  /\ part \in {"bridges", "backlog", "local", "tickets", "refresh"}
  /\ ResearchInit /\ DataInit /\ RunsInit

OneJob == job'[2] = Absent
OneBridge == Cardinality({d \in Devices : dev'[d] # "absent"}) <= 1
NoSecondAttempt ==
  \A j \in Jobs : job'[j].attempts <= 1 /\ (job'[j].attempts = 1 => job'[j].status # "queued")

LocalKinds == \A j \in DataIds : data'[j].kind # "api"
TicketsOnly == \A j \in DataIds : data'[j] # NoRow => data'[j].kind = "api"
OneWorker == Cardinality({w \in Workers : wk'[w] # NoJob}) <= 1

QueuesNext ==
  /\ \/ part = "bridges" /\ ResearchNext /\ OneJob /\ UNCHANGED <<dataVars, runVars>>
     \/ /\ part = "backlog" /\ ResearchNext /\ OneBridge /\ NoSecondAttempt
        /\ UNCHANGED <<dataVars, runVars>>
     \/ /\ part = "local" /\ DataNext /\ LocalKinds /\ UNCHANGED <<res, rev>>
        /\ UNCHANGED <<researchVars, runVars>>
     \/ /\ part = "tickets" /\ DataNext /\ TicketsOnly /\ OneWorker /\ kills' <= 1 /\ clock' <= 3
        /\ UNCHANGED <<researchVars, runVars>>
     \/ part = "refresh" /\ RunsNext /\ UNCHANGED <<researchVars, dataVars>>
  /\ UNCHANGED part

QueuesSpec == QueuesInit /\ [][QueuesNext]_<<part, queueVars>>
=============================================================================
