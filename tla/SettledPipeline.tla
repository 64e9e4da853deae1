--------------------------- MODULE SettledPipeline ---------------------------
(***************************************************************************)
(* The daily pipeline after the 15:15 settlement: the scheduler plans the  *)
(* stages that are due (backend/app/scheduler.py, settled_pipeline_tasks), *)
(* runs them in order, and services/settlement.py decides from the latest  *)
(* run of a stage whether it is complete for the settled session.          *)
(*                                                                         *)
(* The pipeline lock makes runs serial, so finishing times are kept only   *)
(* as what the code compares: outdated[s] are the inputs of s whose latest *)
(* successful or partial run finished after the latest run of s, and       *)
(* backoff[s] says that this run ended less than 15 minutes ago.           *)
(***************************************************************************)
EXTENDS Naturals, FiniteSets, Sequences

CONSTANTS
  NDays,         \* bound: trading days
  MaxFails,      \* bound: runs that do not succeed
  MaxManual,     \* bound: runs nobody planned (owner, worker, intraday slots)
  MaxUniverse,   \* bound: changes of the enabled instruments
  MaxBootstraps  \* bound: runs of the bootstrap command

SettledAssumption ==
  NDays \in Nat \ {0} /\ {MaxFails, MaxManual, MaxUniverse, MaxBootstraps} \subseteq Nat

ASSUME SettledAssumed == SettledAssumption

\* DAILY_DEPENDENCIES, in its order.
Order == <<"bars", "indicators", "forecasts", "signals", "sectors", "board", "report">>
Stages == {Order[i] : i \in DOMAIN Order}
Deps == [bars |-> {}, indicators |-> {"bars"}, forecasts |-> {"bars", "indicators"},
         signals |-> {"bars", "indicators", "forecasts"}, sectors |-> {},
         board |-> {"bars", "indicators", "forecasts", "signals", "sectors"},
         report |-> {"board"}]
OUTPUT_STAGES == {"signals", "board", "report", "sectors"}

VARIABLES
  day, open,  \* trading day; open: 09:15 to 15:15
  last,       \* latest run of each stage: [status, target, full]
  outdated,   \* inputs that finished after it
  backoff,    \* it ended less than retry_minutes ago
  seen,       \* ghost: inputs whose present data the present output was computed from
  current,    \* the latest run was over the instruments enabled now
  plan,       \* stages the tick still has to run
  ran, calm,  \* stages the tick ran; nobody else acted since it was planned
  fails, manual, changes, boots

settledVars == <<day, open, last, outdated, backoff, seen, current, plan, ran, calm, fails, manual, changes, boots>>

NoRun == [status |-> "none", target |-> 0, full |-> FALSE]

SettledInit ==
  /\ day = 1 /\ open = TRUE /\ last = [s \in Stages |-> NoRun]
  /\ outdated = [s \in Stages |-> {}] /\ backoff = [s \in Stages |-> FALSE]
  /\ seen = [s \in Stages |-> {}] /\ current = [s \in Stages |-> FALSE]
  /\ plan = {} /\ ran = {} /\ calm = TRUE
  /\ fails = 0 /\ manual = 0 /\ changes = 0 /\ boots = 0

\* settled_session: yesterday's before the cutoff.
Target == IF open THEN day - 1 ELSE day

\* Bars name the codes they received, outputs carry the hash of the scope.
Complete(s) ==
  /\ last[s].status = "succeeded" /\ last[s].target = Target /\ last[s].full
  /\ s \in OUTPUT_STAGES \cup {"bars"} => current[s]
  /\ outdated[s] = {}

\* Mutant: an attempt for the session is enough.
DueOncePerSession(s) == last[s].target # Target \/ last[s].status = "none"

\* session_refresh_due: a known older session and a bars run over a subset do not back off.
Due(s) ==
  /\ ~Complete(s)
  /\ \/ ~backoff[s] \/ last[s].status = "none"
     \/ s = "bars" /\ ~last[s].full
     \/ last[s].target \notin {0, Target}

\* Mutant: only the stages due by themselves.
PlannedUnclosed == IF open THEN {} ELSE {s \in Stages : Due(s)}

\* Every stage a stage is derived from, directly or not.
Upstream[s \in Stages] == Deps[s] \cup UNION {Upstream[d] : d \in Deps[s]}

\* The due stages and, as the loop adds until nothing changes, everything derived from them.
PlannedStages ==
  LET due == {s \in Stages : Due(s)}
  IN IF open THEN {} ELSE {s \in Stages : s \in due \/ Upstream[s] \cap due # {}}

-----------------------------------------------------------------------------
(* One run of a stage under the pipeline lock.                              *)

\* Derived stages lose their completion (outdated) when the input's run succeeded or was
\* partial, and their freshness (seen) whenever its data changed.
Record(s, r, wrote) ==
  /\ last' = [last EXCEPT ![s] = r]
  /\ backoff' = [backoff EXCEPT ![s] = TRUE]
  /\ current' = [current EXCEPT ![s] = TRUE]
  /\ outdated' = [t \in Stages |->
        IF t = s THEN {}
        ELSE IF s \in Deps[t] /\ last[t].status # "none" /\ r.status \in {"succeeded", "partial"}
        THEN outdated[t] \cup {s} ELSE outdated[t]]
  /\ seen' = [t \in Stages |-> IF ~wrote THEN seen[t]
                               ELSE IF t = s THEN Deps[s]
                               ELSE seen[t] \ {s}]

\* TaskService.run: success; partial; failed although rows may have been written; or an
\* exception, whose failure row names no session (target 0).
RunStage(s, full) ==
  \/ Record(s, [status |-> "succeeded", target |-> Target, full |-> full], TRUE) /\ UNCHANGED fails
  \/ /\ fails < MaxFails /\ fails' = fails + 1
     /\ \/ Record(s, [status |-> "partial", target |-> Target, full |-> full], TRUE)
        \/ \E wrote \in BOOLEAN : Record(s, [status |-> "failed", target |-> Target, full |-> full], wrote)
        \/ Record(s, [status |-> "failed", target |-> 0, full |-> TRUE], FALSE)

\* A tick plans once and then runs the stages one by one.
Tick ==
  /\ plan = {} /\ PlannedStages # {} /\ plan' = PlannedStages /\ ran' = {} /\ calm' = TRUE
  /\ UNCHANGED <<day, open, last, outdated, backoff, seen, current, fails, manual, changes, boots>>

NextPlanned == Order[CHOOSE i \in DOMAIN Order :
                        Order[i] \in plan /\ \A j \in 1..(i - 1) : Order[j] \notin plan]

RunPlanned ==
  /\ plan # {} /\ RunStage(NextPlanned, TRUE)
  /\ plan' = plan \ {NextPlanned} /\ ran' = ran \cup {NextPlanned}
  /\ UNCHANGED <<day, open, calm, manual, changes, boots>>

\* The tick is busy for one stage or the daemon is restarted: the stages left are not run.
AbandonTick ==
  /\ plan # {} /\ fails < MaxFails /\ fails' = fails + 1 /\ plan' = {} /\ calm' = FALSE
  /\ UNCHANGED <<day, open, last, outdated, backoff, seen, current, ran, manual, changes, boots>>

\* The owner, the workspace worker or an intraday slot runs a stage; bars also for a few codes.
RunManually(s, full) ==
  /\ manual < MaxManual /\ manual' = manual + 1 /\ calm' = FALSE
  /\ full \/ s = "bars"
  /\ RunStage(s, full)
  /\ UNCHANGED <<day, open, plan, ran, changes, boots>>

\* The bootstrap task rebuilds every stage but the board, under its own name.
Bootstrap ==
  /\ boots < MaxBootstraps /\ boots' = boots + 1 /\ calm' = FALSE
  /\ seen' = [t \in Stages |-> IF t = "board" THEN {} ELSE Deps[t]]
  /\ UNCHANGED <<day, open, last, outdated, backoff, current, plan, ran, fails, manual, changes>>

\* An instrument is enabled or disabled.
ChangeUniverse ==
  /\ changes < MaxUniverse /\ changes' = changes + 1 /\ calm' = FALSE
  /\ current' = [s \in Stages |-> FALSE]
  /\ UNCHANGED <<day, open, last, outdated, backoff, seen, plan, ran, fails, manual, boots>>

\* retry_minutes pass.
Wait ==
  /\ \E s \in Stages : backoff[s]
  /\ backoff' = [s \in Stages |-> FALSE]
  /\ UNCHANGED <<day, open, last, outdated, seen, current, plan, ran, calm, fails, manual, changes, boots>>

\* 15:15, and 09:15 of the next trading day.
NextPhase ==
  /\ open \/ day < NDays
  /\ open' = ~open /\ day' = IF open THEN day ELSE day + 1
  /\ backoff' = [s \in Stages |-> FALSE] /\ calm' = FALSE
  /\ UNCHANGED <<last, outdated, seen, current, plan, ran, fails, manual, changes, boots>>

SettledNext ==
  \/ Tick \/ RunPlanned \/ AbandonTick \/ Bootstrap \/ ChangeUniverse \/ Wait \/ NextPhase
  \/ \E s \in Stages, full \in BOOLEAN : RunManually(s, full)

SettledSpec == SettledInit /\ [][SettledNext]_settledVars

\* The daemon ticks for ever, a planned stage ends and time passes.
FairSpec == SettledSpec /\ WF_settledVars(Tick) /\ WF_settledVars(RunPlanned) /\ WF_settledVars(Wait)

-----------------------------------------------------------------------------
\* Every variable stays in its domain, and a stage has no input it does not depend on.
SettledTypeOK ==
  /\ day \in 1..NDays /\ open \in BOOLEAN
  /\ last \in [Stages -> [status : {"none", "succeeded", "partial", "failed"}, target : 0..NDays, full : BOOLEAN]]
  /\ backoff \in [Stages -> BOOLEAN] /\ current \in [Stages -> BOOLEAN]
  /\ \A s \in Stages : outdated[s] \subseteq Deps[s] /\ seen[s] \subseteq Deps[s]
  /\ plan \subseteq Stages /\ ran \subseteq Stages /\ calm \in BOOLEAN

AllComplete == \A s \in Stages : Complete(s)

\* "A newer input-stage result invalidates derived completion": when every stage counts as
\* complete, every output was computed from its inputs' present data, whatever partial,
\* failed, manual or subset runs came in between.
CompleteIsFresh == AllComplete => \A s \in Stages : seen[s] = Deps[s] /\ current[s]

\* A tick that nobody disturbed leaves no layer behind an input it recomputed itself: the
\* plan holds the descendants of the stages that were due.
TickClosed ==
  calm /\ plan = {} => \A s \in Stages : outdated[s] \cap ran = {}

\* The evening's plan in one: what counts as complete is fresh, unless the bootstrap command ran,
\* which leaves no run under a stage's name; and a tick leaves no gap.
SettledSound == (boots = 0 => CompleteIsFresh) /\ TickClosed

\* After the settlement every stage becomes complete for the session, or the next trading
\* day begins: backoff delays the work of failed stages and never ends it.
SettlesOrNextDay == ~open ~> (AllComplete \/ open)

\* The same promise with the bootstrap command, which leaves no run under a stage's name.
FreshAfterBootstrap == AllComplete => \A s \in Stages : seen[s] = Deps[s]
=============================================================================
