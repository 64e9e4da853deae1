----------------------------- MODULE MCPublish -----------------------------
(***************************************************************************)
(* From the computation to the reader's mailbox: the local compute run,    *)
(* the row of a board, its grade, and the mail outbox.  One of them, part, *)
(* moves in a behaviour.                                                   *)
(***************************************************************************)
EXTENDS LocalCompute, MailOutbox, BoardRow, Integers, TLC

CONSTANTS p1, p2, c1, c2

VARIABLES part,
  clock2, material2, msg2, proc2, enabled2, sent2, starved2,
  today, previous

digestVars == <<clock2, material2, msg2, proc2, enabled2, sent2, starved2>>
gradeVars == <<today, previous>>

\* The outbox itself has two processes on one slot; in variables of their own, one process on two
\* slots, and a table with room for one message.
MailPlanned == <<0>>
Digests == INSTANCE MailOutbox
  WITH clock <- clock2, material <- material2, msg <- msg2, proc <- proc2, enabled <- enabled2, sent <- sent2,
       starved <- starved2, Procs <- {p1}, Slots <- {1, 2}, Eod <- 2, Planned <- <<0, 1>>, Ticks <- 3, MailDays <- 1,
       Ttl <- 2, MaxAttempts <- 1, MaxItems <- 9, PruneAge <- 9, PruneBatch <- 1, SendBudget <- 0
Crammed == INSTANCE MailOutbox
  WITH clock <- clock2, material <- material2, msg <- msg2, proc <- proc2, enabled <- enabled2, sent <- sent2,
       starved <- starved2, Procs <- {p1}, Slots <- {1}, Eod <- 0, Planned <- <<0>>, Ticks <- 2, MailDays <- 2, Ttl <- 2,
       MaxAttempts <- 2, MaxItems <- 1, PruneAge <- 1, PruneBatch <- 1, SendBudget <- 1

\* Day 0 is history.  Day 1: 11:30, the 11:40 lunch board and 15:20; day 2: 09:40 and 09:46.
RowInstants == {1440 + 690, 1440 + 700, 1440 + 920, 2 * 1440 + 580, 2 * 1440 + 586}

Grades == INSTANCE GradeRules
  WITH Levels <- {0, 1, 3}, Approach <- 2, JLow <- -1, JHigh <- 3, JOver <- 7, JCap <- 3,
       Ratios <- {1, 2, 3}, Expand <- 3, Contract <- 1, Weight <- 4167, MaxShift <- 1,
       Scores <- {-1000, -601, -600, -599, 0, 599, 600, 601, 1000}

ASSUME Digests!OutboxBounds /\ Crammed!OutboxBounds /\ Grades!GradeAssumption

PublishSymmetry == Permutations({c1, c2})

PublishInit ==
  /\ part \in {"mails", "digests", "crammed", "compute", "rows", "grades"}
  /\ MailInit /\ IF part = "crammed" THEN Crammed!MailInit ELSE Digests!MailInit
  /\ ComputeInit /\ RowInit /\ Grades!Init
  /\ part # "rows" => strategy = c1

PublishNext ==
  /\ \/ part = "mails" /\ MailNext /\ UNCHANGED <<digestVars, computeVars, rowVars, gradeVars>>
     \/ part = "digests" /\ Digests!MailNext /\ UNCHANGED <<mailVars, computeVars, rowVars, gradeVars>>
     \/ part = "crammed" /\ Crammed!MailNext /\ UNCHANGED <<mailVars, computeVars, rowVars, gradeVars>>
     \/ part = "compute" /\ ComputeNext /\ UNCHANGED <<mailVars, digestVars, rowVars, gradeVars>>
     \/ part = "rows" /\ RowNext /\ UNCHANGED <<mailVars, digestVars, computeVars, gradeVars>>
     \/ part = "grades" /\ Grades!Next /\ UNCHANGED <<mailVars, digestVars, computeVars, rowVars>>
  /\ UNCHANGED part

PublishSpec == PublishInit /\ [][PublishNext]_<<part, mailVars, digestVars, computeVars, rowVars, gradeVars>>

\* The other instances and the grades: no slot stays silent or gets two digests from one process, a
\* full table keeps its capacity (NoSilentSlot, OneDigestPerSlot, OutboxTypeOK of MailOutbox), a row
\* holds values of its kind, and grades follow their rules at every boundary (GradesSound of GradeRules).
PublishSafe ==
  /\ part = "digests" => Digests!OutboxTypeOK /\ Digests!NoSilentSlot /\ Digests!OneDigestPerSlot
  /\ part = "crammed" => Crammed!OutboxTypeOK
  /\ part = "rows" => RowTypeOK
  /\ part = "grades" => Grades!GradeTypeOK /\ Grades!GradesSound

\* "The returned dict always carries base/final grades": DecisionReturns of GradeRules.
DecisionReturns == part = "grades" => Grades!DecisionReturns
=============================================================================
