------------------------------ MODULE MCMarket ------------------------------
(***************************************************************************)
(* Market data on its way in: the chain of providers, the ingest of their  *)
(* batches, the daily history, splits, the flow block of a row, the        *)
(* context cards and the published history of Chan structures.  One of     *)
(* them, part, moves in a behaviour.                                       *)
(***************************************************************************)
EXTENDS ChanRevisions, DailyHistory, CorporateActions, CompositeProvider, TLC

CONSTANTS c1, c2, w1, w2, none

VARIABLES part,
  now, quotes, minutes, sectors, report,
  cutoff, quote, scales, saved, touched,
  config, rows, snaps, task, day, mock, kept, applied, clash, syncs

ingestVars == <<now, quotes, minutes, sectors, report>>
flowVars == <<cutoff, quote, scales, saved, touched>>
contextVars == <<config, rows, snaps, task, day, mock, kept, applied, clash, syncs>>
otherVars == <<chainVars, ingestVars, historyVars, actionVars, flowVars, contextVars>>

QuoteRow(c, v, t, capable) == [code |-> c, val |-> v, at |-> t, live |-> TRUE, capable |-> capable, degraded |-> FALSE]

Spots == INSTANCE BatchIngest
  WITH Codes <- {c1}, MinuteRecords <- {}, SectorRecords <- {}, Names <- {}, MaxBatch <- 2,
       QuoteRecords <- {QuoteRow(c1, "x", 3, TRUE), QuoteRow(c1, "y", 3, TRUE), QuoteRow(c1, "x", 9, TRUE),
                        QuoteRow(c1, "x", 8, FALSE), QuoteRow(c1, "bad", 3, TRUE), QuoteRow(c2, "bad", 3, TRUE)},
       Steps <- {2, 6}, Horizon <- 10, Keep <- 4

Series == INSTANCE BatchIngest
  WITH Codes <- {c1, c2}, QuoteRecords <- {}, Names <- {"n", "m"}, MaxBatch <- 2,
       MinuteRecords <- {[at |-> 2, val |-> "x"], [at |-> 2, val |-> "y"], [at |-> 3, val |-> "x"],
                         [at |-> 3, val |-> "bad"]},
       SectorRecords <- {[name |-> "n", val |-> "x"], [name |-> "n", val |-> "y"], [name |-> "m", val |-> "x"]},
       Steps <- {2}, Horizon <- 4, Keep <- 4

FlowQuotes == [src : {"em", "mock"}, contract : BOOLEAN, at : {-9, -8, 1, 3}, untimed : BOOLEAN,
               fetched : {-9, 1, 2}, verified : BOOLEAN, value : BOOLEAN]
ShareRows == [src : {"exchange", "mock"}, exchange : BOOLEAN, day : {-9, 0, 1}, fetched : {-9, 1, 2},
              shares : {-9, 1, 2}, prev : {0, 1}, prevDay : {-9, 0, 1}, delta : {-1, 0, 1},
              dayOverDay : BOOLEAN, proxy : {"up", "same"}]
GoodShares == {s \in ShareRows : s.src = "exchange" /\ s.exchange /\ s.prev = 1 /\ s.delta = 1 /\ s.dayOverDay
                                 /\ s.shares = 2 /\ s.prevDay = 0 /\ s.proxy = "up"}
OddShares == {s \in ShareRows : \/ s.exchange /\ s.src = "exchange" /\ s.fetched # -9 /\ s.day # -9
                                \/ s.prev = 1 /\ s.delta = 1 /\ s.proxy = "up" /\ s.dayOverDay /\ s.prevDay = 0}

\* Every quote beside a few share records; every share record alone.
FlowOfQuotes == INSTANCE FlowShare
  WITH MaxTime <- 3, Quotes <- FlowQuotes, Scales <- GoodShares,
       Earlier <- {s \in GoodShares : s.day = 0 /\ s.fetched = 1}
FlowOfShares == INSTANCE FlowShare WITH MaxTime <- 3, Quotes <- {}, Scales <- OddShares, Earlier <- {}

Card == INSTANCE MarketContext WITH NCards <- 1, Symbols <- {c1, c2}, NoSymbol <- none, MaxOrder <- 2, MaxDay <- 2,
                                    MaxValue <- 0, MaxSyncs <- 3
CardOrders == INSTANCE MarketContext WITH NCards <- 2, Symbols <- {c1}, NoSymbol <- none, MaxOrder <- 3, MaxDay <- 1,
                                          MaxValue <- 0, MaxSyncs <- 3

\* The module itself has one publisher and bars that are restated; here are two publishers of one stream without
\* a lock, a week with a split, and a job over two instruments that may fail.
Publishers == INSTANCE ChanRevisions WITH Workers <- {w1, w2}, Locks <- FALSE, MaxStores <- 1
Weekly == INSTANCE ChanRevisions WITH Intervals <- {"W"}, ExDates <- {2}, MaxDay <- 3, MaxStores <- 1, MaxJobs <- 2
Batch == INSTANCE ChanRevisions
  WITH Codes <- {c1, c2}, Shapes <- {"s1"}, ExDates <- {2}, MaxStores <- 0, MaxJobs <- 2, MaxFaults <- 1

ASSUME /\ Spots!IngestAssumption /\ Series!IngestAssumption
       /\ FlowOfQuotes!FlowAssumption /\ FlowOfShares!FlowAssumption
       /\ Card!ContextAssumption /\ CardOrders!ContextAssumption
       /\ Publishers!ChanAssumption /\ Weekly!ChanAssumption /\ Batch!ChanAssumption

\* Other parts keep the cards in one state.
IdleCards == /\ config = <<>> /\ rows = <<>> /\ snaps = {} /\ task = <<>> /\ day = 1 /\ mock = FALSE
             /\ kept = {} /\ applied = <<>> /\ clash = FALSE /\ syncs = 0

MarketInit ==
  /\ part \in {"chain", "spots", "series", "history", "actions", "flow", "shares", "card", "orders",
              "publishers", "restated", "weekly", "batch"}
  /\ WalkInit /\ (part # "chain" => capability = "quotes")
  /\ HistoryInit /\ ActionsInit /\ FlowOfQuotes!Init
  /\ IF part = "series" THEN Series!Init ELSE Spots!Init
  /\ IF part = "orders" THEN CardOrders!Init ELSE IF part = "card" THEN Card!Init ELSE IdleCards
  /\ CASE part = "publishers" -> Publishers!ChanInit
       [] part = "weekly" -> Weekly!ChanInit
       [] part = "batch" -> Batch!ChanInit
       [] OTHER -> ChanInit

MarketNext ==
  /\ \/ part = "chain" /\ WalkNext /\ UNCHANGED <<ingestVars, historyVars, actionVars, flowVars, contextVars, chanVars>>
     \/ part = "spots" /\ Spots!Next /\ UNCHANGED <<chainVars, historyVars, actionVars, flowVars, contextVars, chanVars>>
     \/ part = "series" /\ Series!Next /\ UNCHANGED <<chainVars, historyVars, actionVars, flowVars, contextVars, chanVars>>
     \/ part = "history" /\ HistoryNext /\ UNCHANGED <<chainVars, ingestVars, actionVars, flowVars, contextVars, chanVars>>
     \/ part = "actions" /\ ActionsNext /\ UNCHANGED <<chainVars, ingestVars, historyVars, flowVars, contextVars, chanVars>>
     \/ part = "flow" /\ FlowOfQuotes!Next /\ UNCHANGED <<chainVars, ingestVars, historyVars, actionVars, contextVars, chanVars>>
     \/ part = "shares" /\ FlowOfShares!Next /\ UNCHANGED <<chainVars, ingestVars, historyVars, actionVars, contextVars, chanVars>>
     \/ part = "card" /\ Card!Next /\ UNCHANGED <<chainVars, ingestVars, historyVars, actionVars, flowVars, chanVars>>
     \/ part = "orders" /\ CardOrders!Next /\ UNCHANGED <<chainVars, ingestVars, historyVars, actionVars, flowVars, chanVars>>
     \/ part = "publishers" /\ Publishers!ChanNext /\ UNCHANGED otherVars
     \/ part = "restated" /\ ChanNext /\ UNCHANGED otherVars
     \/ part = "weekly" /\ Weekly!ChanNext /\ UNCHANGED otherVars
     \/ part = "batch" /\ Batch!ChanNext /\ UNCHANGED otherVars
  /\ UNCHANGED part

MarketSpec == MarketInit /\ [][MarketNext]_<<part, chainVars, ingestVars, historyVars, actionVars, flowVars, contextVars, chanVars>>

\* Contradictory, late and broken batches leave no trace (IngestSound of BatchIngest); context
\* cards keep their order, their history and their symbol (ContextSound of MarketContext);
\* research takes verified bars only (UsableIsVerified of DailyHistory); a split is explained or
\* blocks (SplitsExplained of CorporateActions); the flow block of a board is admissible when saved
\* and when read (BlockSound of FlowShare); and the other publications of Chan structures are as
\* sound as those of ChanSound.
FeedTrusted ==
  /\ part = "spots" => Spots!IngestSound
  /\ part = "series" => Series!IngestSound
  /\ part = "card" => Card!ContextSound
  /\ part = "orders" => CardOrders!ContextSound
  /\ part = "history" => HistoryTypeOK /\ UsableIsVerified
  /\ part = "actions" => ActionsTypeOK /\ SplitsExplained
  /\ part = "publishers" => Publishers!ChanSound
  /\ part = "flow" => FlowOfQuotes!BlockSound
  /\ part = "shares" => FlowOfShares!BlockSound
  /\ part = "weekly" => Weekly!ChanSound
  /\ part = "batch" => Batch!ChanSound
=============================================================================
