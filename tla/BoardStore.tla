----------------------------- MODULE BoardStore -----------------------------
(***************************************************************************)
(* The saved decision boards (decision_board_service.py): refreshes are    *)
(* asked for through the task table, one may be active at a time, each     *)
(* writes a board dated by the moment it began and prunes old dates, and   *)
(* readers judge the newest board against the moment they were asked.      *)
(*                                                                         *)
(* A board carries the moment its inputs were read ("built"); its rows are *)
(* in BoardRow.                                                            *)
(***************************************************************************)
EXTENDS Integers, FiniteSets, FiniteSetsExt

CONSTANTS Workers,   \* processes that may run a refresh
          Readers,
          Cfgs,      \* strategy versions
          PerDay,    \* ticks of one day
          OpenDays,  \* trading days
          KeepDates, \* trading dates whose boards are kept (20 in the code)
          MaxTime, MaxBoards  \* bounds

ASSUME BoardsAssumption ==
  /\ {PerDay, KeepDates} \subseteq Nat \ {0} /\ {MaxTime, MaxBoards} \subseteq Nat
  /\ OpenDays \subseteq Nat /\ 0 \in OpenDays

VARIABLES now, cfg,
          run,     \* the task table: per worker "idle", "asked" (saw no active run), "queued" or "running"
          began,   \* per worker, the generated_at of the refresh it runs
          boards,  \* the saved boards
          made,    \* every board ever committed
          asked,   \* per reader, the moment it was asked, or -1
          answer   \* per reader, what it was told last

boardVars == <<now, cfg, run, began, boards, made, asked, answer>>

NoAnswer == [kind |-> "none"]

BoardsInit == /\ now = 0 /\ cfg \in Cfgs
        /\ run = [w \in Workers |-> "idle"] /\ began = [w \in Workers |-> 0]
        /\ boards = {} /\ made = {}
        /\ asked = [r \in Readers |-> -1] /\ answer = [r \in Readers |-> NoAnswer]

BoardsTick == /\ now < MaxTime
        /\ now' = now + 1
        /\ UNCHANGED <<cfg, run, began, boards, made, asked, answer>>

Reconfigure == /\ cfg' \in Cfgs \ {cfg}
               /\ UNCHANGED <<now, run, began, boards, made, asked, answer>>

Active == {w \in Workers : run[w] \in {"queued", "running"}}

\* enqueue_refresh looks for an active run ...
Ask(w) == /\ run[w] = "idle" /\ Active = {}
          /\ run' = [run EXCEPT ![w] = "asked"]
          /\ UNCHANGED <<now, cfg, began, boards, made, asked, answer>>

\* Mutant: the table has no unique index on active refreshes.
EnqueueUnchecked(w) ==
    /\ run[w] = "asked"
    /\ run' = [run EXCEPT ![w] = "queued"]
    /\ UNCHANGED <<now, cfg, began, boards, made, asked, answer>>
\* ... and inserts its own; the unique index refuses the second of two that asked together.
Enqueue(w) == /\ run[w] = "asked"
              /\ run' = [run EXCEPT ![w] = IF Active = {} THEN "queued" ELSE "idle"]
              /\ UNCHANGED <<now, cfg, began, boards, made, asked, answer>>

Start(w) == /\ run[w] = "queued" /\ Cardinality(made) < MaxBoards
            /\ run' = [run EXCEPT ![w] = "running"]
            /\ began' = [began EXCEPT ![w] = now]
            /\ UNCHANGED <<now, cfg, boards, made, asked, answer>>

TradeDate(b) == Max({d \in OpenDays : d <= b.at \div PerDay})

\* Every board of the newest KeepDates trading dates stays.
Pruned(bs) ==
    {b \in bs : Cardinality({TradeDate(c) : c \in {x \in bs : TradeDate(x) > TradeDate(b)}}) < KeepDates}

\* The board is built, saved, and old dates pruned, in one transaction.
Commit(w) ==
    LET b == [id |-> Cardinality(made) + 1, at |-> began[w], cfg |-> cfg, built |-> now]
    IN /\ run[w] = "running"
       /\ made' = made \cup {b}
       /\ boards' = Pruned(boards \cup {b})
       /\ run' = [run EXCEPT ![w] = "idle"] /\ began' = [began EXCEPT ![w] = 0]
       /\ UNCHANGED <<now, cfg, asked, answer>>

\* The refresh fails, or its process dies and the run is recovered: nothing is saved.
Fail(w) == /\ run[w] = "running"
           /\ run' = [run EXCEPT ![w] = "idle"] /\ began' = [began EXCEPT ![w] = 0]
           /\ UNCHANGED <<now, cfg, boards, made, asked, answer>>

(***************************************************************************)
(* Readers.                                                                *)
(***************************************************************************)

Arrive(r) == /\ asked[r] < 0
             /\ asked' = [asked EXCEPT ![r] = now]
             /\ UNCHANGED <<now, cfg, run, began, boards, made, answer>>

\* The newest board: by its date, then by its row.
Newest == CHOOSE b \in boards : \A c \in boards : c.at < b.at \/ (c.at = b.at /\ c.id <= b.id)

\* A board dated after the question is withheld, one of another strategy is shown
\* without grades and forecasts; neither is replaced by an older one.
Judge(b, at) == IF b.at > at THEN "blocked" ELSE IF b.cfg # cfg THEN "legacy" ELSE "matched"

ReadLatest(r) ==
    /\ asked[r] >= 0
    /\ asked' = [asked EXCEPT ![r] = -1]
    /\ answer' = [answer EXCEPT ![r] =
           IF boards = {} THEN [kind |-> "missing"]
           ELSE [kind |-> Judge(Newest, asked[r]), board |-> Newest, at |-> asked[r], cfg |-> cfg,
                 latest |-> Max({b.id : b \in made})]]
    /\ UNCHANGED <<now, cfg, run, began, boards, made>>

\* The reader has shown its answer.
Show(r) == /\ answer[r] # NoAnswer
           /\ answer' = [answer EXCEPT ![r] = NoAnswer]
           /\ UNCHANGED <<now, cfg, run, began, boards, made, asked>>

BoardsNext == \/ BoardsTick \/ Reconfigure
        \/ \E w \in Workers : Ask(w) \/ Enqueue(w) \/ Start(w) \/ Commit(w) \/ Fail(w)
        \/ \E r \in Readers : Arrive(r) \/ ReadLatest(r) \/ Show(r)

BoardsSpec == BoardsInit /\ [][BoardsNext]_boardVars

(***************************************************************************)
(* Properties.                                                             *)
(***************************************************************************)

\* The variables hold values of their kind and kept boards are boards that were made.
BoardsTypeOK == /\ now \in 0..MaxTime /\ cfg \in Cfgs
                /\ run \in [Workers -> {"idle", "asked", "queued", "running"}]
                /\ boards \subseteq made /\ (made # {} => boards # {})
                /\ asked \in [Readers -> -1..MaxTime]

\* A reader is never given a board other than the last one committed: the newest by
\* date is the last written, so no board built from older inputs hides a later one.
LastCommittedIsRead ==
    \A r \in Readers : answer[r].kind \in {"matched", "legacy", "blocked"} =>
        /\ answer[r].board.id = answer[r].latest
        /\ \A b \in made : b.id <= answer[r].latest => b.built <= answer[r].board.built

\* Grades are shown only of a board that existed when the reader asked and that was
\* built under the strategy the reader runs with.
GradesOnlyIfMatched ==
    \A r \in Readers : answer[r].kind = "matched" =>
        answer[r].board.at <= answer[r].at /\ answer[r].board.cfg = answer[r].cfg

\* Pruning removes whole dates: the kept boards are all the boards ever made on the
\* newest KeepDates trading dates, a closed day counting as the trading day before it.
WholeDatesKept ==
    LET dates == {TradeDate(b) : b \in made}
    IN boards = {b \in made : Cardinality({d \in dates : d > TradeDate(b)}) < KeepDates}

\* What the board table promises its readers.
BoardsReadable == BoardsTypeOK /\ LastCommittedIsRead /\ GradesOnlyIfMatched /\ WholeDatesKept
=============================================================================
