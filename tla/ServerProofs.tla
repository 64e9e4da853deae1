---------------------------- MODULE ServerProofs ----------------------------
(***************************************************************************)
(* Proofs about components of the server that share no state: the owned    *)
(* provider call, the saved boards, the imported batches of positions,     *)
(* accounts, screenshot imports, the stored daily bars, and the analyses   *)
(* of news with the reviews of memos.  Each has its inductive invariant,   *)
(* the lemmas for the steps that need an argument, and the theorems about  *)
(* its specification.                                                      *)
(***************************************************************************)
EXTENDS BoundedCall, BoardStore, HoldingBatches, Accounts, ScreenshotImport, DailyHistory,
        AnalysisRecords, FiniteSetTheorems, SequenceTheorems, WellFoundedInduction, TLAPS

(***************************************************************************)
(* The provider call.  The answer is whole because a whole message leaves  *)
(* no child that could still change it.                                    *)
(***************************************************************************)

CallInv == CallsOwned /\ (pipe = "whole" => child \in {"sent", "exited", "killed"})

\* The invariant of one call is inductive: whatever the child, the operating system and the clock
\* do, the finally block of bounded_sdk.py is entered with it.
LEMMA CallStep == CallInv /\ [CallNext]_callVars => CallInv'
<1> SUFFICES ASSUME CallInv, [CallNext]_callVars PROVE CallInv' OBVIOUS
<1> USE BoundedAssumption DEF CallInv, CallsOwned, BoundedTypeOK, NoOrphan, AnswerIsWhole, WaitsBounded,
          Outcomes, Messages, Running
<1>1. CASE \E m \in Messages : ChildFinish(m) BY <1>1 DEF ChildFinish
<1>2. CASE ChildSend BY <1>2 DEF ChildSend
<1>3. CASE ChildExit \/ ChildDie
  <2>1. BoundedTypeOK' BY <1>3 DEF ChildExit, ChildDie
  <2>2. NoOrphan' /\ AnswerIsWhole' BY <1>3 DEF ChildExit, ChildDie
  <2>3. WaitsBounded' BY <1>3 DEF ChildExit, ChildDie
  <2> QED BY <1>3, <2>1, <2>2, <2>3 DEF ChildExit, ChildDie
<1>4. CASE PollReady \/ PollTimeout
  <2>1. BoundedTypeOK' BY <1>4 DEF PollReady, PollTimeout
  <2>2. NoOrphan' /\ AnswerIsWhole' BY <1>4 DEF PollReady, PollTimeout
  <2>3. WaitsBounded' BY <1>4 DEF PollReady, PollTimeout
  <2> QED BY <1>4, <2>1, <2>2, <2>3 DEF PollReady, PollTimeout
<1>5. CASE Recv BY <1>5 DEF Recv
<1>6. CASE Joined BY <1>6 DEF Joined
<1>7. CASE Terminate \/ Kill
  <2>1. BoundedTypeOK' BY <1>7 DEF Terminate, Kill
  <2>2. NoOrphan' /\ AnswerIsWhole' BY <1>7 DEF Terminate, Kill
  <2>3. WaitsBounded' BY <1>7 DEF Terminate, Kill
  <2> QED BY <1>7, <2>1, <2>2, <2>3 DEF Terminate, Kill
<1>8. CASE SignalArrives BY <1>8 DEF SignalArrives
<1>9. CASE CallTick BY <1>9 DEF CallTick
<1>10. CASE UNCHANGED callVars BY <1>10 DEF callVars
<1> QED BY <1>1, <1>2, <1>3, <1>4, <1>5, <1>6, <1>7, <1>8, <1>9, <1>10 DEF CallNext

\* For every timeout: a call never returns before its child has ended, and returns a whole message,
\* a deadline or an explicit failure (bounded_sdk.py, call and its finally block).
THEOREM CallsAreOwned == CallSpec => []CallsOwned
<1>1. CallInit => CallInv
  BY BoundedAssumption DEF CallInit, CallInv, CallsOwned, BoundedTypeOK, NoOrphan, AnswerIsWhole, WaitsBounded,
     Outcomes, Messages, Running
<1>2. CallInv => CallsOwned BY DEF CallInv
<1> QED BY <1>1, <1>2, CallStep, PTL DEF CallSpec

(***************************************************************************)
(* Boards.  One refresh is active at a time, so the boards are numbered in *)
(* the order of the moments their inputs were read; a new board is on the  *)
(* latest trading date, so pruning never removes it, and the newest kept   *)
(* board is the last one committed.                                        *)
(***************************************************************************)

Board == [id : Nat \ {0}, at : Nat, cfg : Cfgs, built : Nat]

\* Boards are numbered from 1 in the order in which they were committed and built.
Numbered ==
    /\ made \subseteq Board /\ IsFiniteSet(made)
    /\ \A b \in made : b.at <= b.built /\ b.built <= now /\ b.id <= Cardinality(made)
    /\ \A b, c \in made : b.id = c.id => b = c
    /\ \A b, c \in made : b.id < c.id => b.built <= c.at
    /\ made # {} => \E b \in made : b.id = Cardinality(made)

\* One refresh is active, and it began after the last commit.
OneActive == \A v, w \in Active : v = w
BeganLater ==
    \A w \in Workers : run[w] = "running" =>
        began[w] \in Nat /\ began[w] <= now /\ \A b \in made : b.built <= began[w]
LastKept == \A b \in made : b.id = Cardinality(made) => b \in boards

\* An answer is a board that was made, and was the last one.
Answered ==
    \A r \in Readers :
        \/ answer[r] \in {NoAnswer, [kind |-> "missing"]}
        \/ answer[r].kind \in {"matched", "legacy", "blocked"} /\ answer[r].board \in made

BoardsInv ==
    /\ BoardsTypeOK /\ Numbered /\ OneActive /\ BeganLater /\ LastKept /\ Answered
    /\ LastCommittedIsRead /\ GradesOnlyIfMatched /\ WholeDatesKept
    /\ began \in [Workers -> Nat] /\ DOMAIN answer = Readers

\* A bounded set of naturals has a maximum (TradeDate and ReadLatest take one).
LEMMA MaxIs ==
  ASSUME NEW S \in SUBSET Nat, S # {}, NEW n \in Nat, \A s \in S : s <= n
  PROVE Max(S) \in S /\ \A s \in S : s <= Max(S)
<1> DEFINE Gaps == {n - s : s \in S}
           R == OpToRel(<, Nat)
<1>1. Gaps \subseteq Nat /\ Gaps # {}
  <2>1. \A s \in S : n - s \in Nat OBVIOUS
  <2>2. PICK s \in S : TRUE OBVIOUS
  <2>3. n - s \in Gaps OBVIOUS
  <2> QED BY <2>1, <2>3
<1>2. \E x \in Gaps : \A y \in Gaps : ~(<<y, x>> \in R)
  <2> HIDE DEF Gaps, R
  <2> QED BY <1>1, WFMin, NatLessThanWellFounded DEF R
<1>3. PICK x \in Gaps : \A y \in Gaps : ~(<<y, x>> \in R) BY <1>2
<1>4. PICK m \in S : x = n - m BY <1>3
<1>5. ASSUME NEW s \in S PROVE m >= s
  <2>1. s \in Nat /\ m \in Nat /\ s <= n /\ m <= n OBVIOUS
  <2>2. n - s \in Gaps OBVIOUS
  <2>3. n - s \in Gaps /\ n - s \in Nat /\ n - m \in Nat BY <2>1, <2>2
  <2>4. <<n - s, n - m>> \notin R BY <1>3, <1>4, <2>3
  <2>5. ~(n - s < n - m) BY <2>3, <2>4 DEF OpToRel
  <2> HIDE DEF Gaps, R
  <2> QED BY <2>1, <2>5
<1> QED BY <1>4, <1>5 DEF Max

\* Whole days grow with the moment (the day of a board).
LEMMA DayGrows ==
  ASSUME NEW p \in Nat \ {0}, NEW i \in Nat, NEW j \in Nat, i <= j
  PROVE i \div p \in Nat /\ i \div p <= j \div p
OBVIOUS

\* A board has a trading date, and a later board no earlier one.
LEMMA TradeDateIs ==
  ASSUME NEW b, b.at \in Nat
  PROVE /\ TradeDate(b) \in Nat /\ TradeDate(b) \in OpenDays
        /\ TradeDate(b) <= b.at \div PerDay
        /\ \A d \in OpenDays : d <= b.at \div PerDay => d <= TradeDate(b)
<1> DEFINE D == {d \in OpenDays : d <= b.at \div PerDay}
<1>1. b.at \div PerDay \in Nat BY BoardsAssumption, DayGrows
<1>2. D \in SUBSET Nat /\ D # {}
  <2>1. D \subseteq OpenDays /\ OpenDays \subseteq Nat BY BoardsAssumption
  <2>2. 0 \in D BY <1>1, BoardsAssumption
  <2> QED BY <2>1, <2>2
<1>3. Max(D) \in D /\ \A s \in D : s <= Max(D)
  <2>1. \A d \in D : d <= b.at \div PerDay OBVIOUS
  <2> HIDE DEF D
  <2> QED BY <1>1, <1>2, <2>1, MaxIs
<1>4. TradeDate(b) = Max(D) BY DEF TradeDate
<1>5. \A d : d \in D <=> d \in OpenDays /\ d <= b.at \div PerDay OBVIOUS
<1> HIDE DEF D
<1>6. TradeDate(b) \in D BY <1>3, <1>4
<1>7. ASSUME NEW d \in OpenDays, d <= b.at \div PerDay PROVE d <= TradeDate(b)
  <2>1. d \in D BY <1>5, <1>7
  <2> QED BY <1>3, <1>4, <2>1
<1> QED BY <1>2, <1>5, <1>6, <1>7

\* See TradeDateIs.
LEMMA TradeDateGrows ==
  ASSUME NEW b, NEW c, b.at \in Nat, c.at \in Nat, b.at <= c.at
  PROVE TradeDate(b) <= TradeDate(c)
<1>0. PerDay \in Nat \ {0} BY BoardsAssumption
<1>1. b.at \div PerDay <= c.at \div PerDay /\ b.at \div PerDay \in Nat /\ c.at \div PerDay \in Nat
  <2>1. PICK i \in Nat, j \in Nat : i = b.at /\ j = c.at /\ i <= j OBVIOUS
  <2>2. i \div PerDay \in Nat /\ i \div PerDay <= j \div PerDay BY <1>0, <2>1, DayGrows
  <2>3. j \div PerDay \in Nat BY <1>0, <2>1, DayGrows
  <2> QED BY <2>1, <2>2, <2>3
<1>2. TradeDate(b) \in OpenDays /\ TradeDate(b) \in Nat /\ TradeDate(b) <= b.at \div PerDay BY TradeDateIs
<1>3. TradeDate(b) <= c.at \div PerDay BY <1>1, <1>2
<1> QED BY <1>2, <1>3, TradeDateIs

(***************************************************************************)
(* Pruning.                                                                *)
(***************************************************************************)

\* The trading dates of bs after that of b.
DatesAfter(bs, b) == {TradeDate(c) : c \in {x \in bs : TradeDate(x) > TradeDate(b)}}

\* Finitely many boards have finitely many dates, and more boards no fewer (Pruned).
LEMMA DatesCount ==
  ASSUME NEW bs, IsFiniteSet(bs), NEW cs \in SUBSET bs, NEW b
  PROVE /\ IsFiniteSet(DatesAfter(bs, b)) /\ Cardinality(DatesAfter(bs, b)) \in Nat
        /\ Cardinality(DatesAfter(cs, b)) \in Nat
        /\ Cardinality(DatesAfter(cs, b)) <= Cardinality(DatesAfter(bs, b))
<1> DEFINE X == {x \in bs : TradeDate(x) > TradeDate(b)}
           f == [x \in X |-> TradeDate(x)]
<1>1. IsFiniteSet(X) BY FS_Subset
<1>2. f \in Surjection(X, DatesAfter(bs, b)) BY DEF Surjection, DatesAfter
<1>3. IsFiniteSet(DatesAfter(bs, b))
  <2> HIDE DEF X, f
  <2> QED BY <1>1, <1>2, FS_Surjection
<1>4. DatesAfter(cs, b) \in SUBSET DatesAfter(bs, b) BY DEF DatesAfter
<1> QED BY <1>3, <1>4, FS_Subset, FS_CardinalityType

\* Pruning what was kept and a new latest board is pruning everything ever made (Commit).
LEMMA PrunedAgain ==
  ASSUME NEW bs, IsFiniteSet(bs), NEW b, \A x \in bs \cup {b} : x.at \in Nat, \A x \in bs : x.at <= b.at
  PROVE Pruned(Pruned(bs) \cup {b}) = Pruned(bs \cup {b}) /\ b \in Pruned(bs \cup {b})
<1> DEFINE kept == Pruned(bs) \cup {b}
           all == bs \cup {b}
<1>1. \A x \in all : TradeDate(x) \in Nat /\ TradeDate(x) <= TradeDate(b)
  <2> SUFFICES ASSUME NEW x \in all PROVE TradeDate(x) \in Nat /\ TradeDate(x) <= TradeDate(b) OBVIOUS
  <2>1. x.at \in Nat /\ b.at \in Nat /\ x.at <= b.at OBVIOUS
  <2> QED BY <2>1, TradeDateIs, TradeDateGrows
<1>2. IsFiniteSet(all) BY FS_AddElement
<1>3. kept \subseteq all BY DEF Pruned
<1>4. \A cs, x : x \in Pruned(cs) <=> x \in cs /\ Cardinality(DatesAfter(cs, x)) < KeepDates
  BY DEF Pruned, DatesAfter
<1>5. b \in Pruned(all) /\ b \in Pruned(kept)
  <2>1. DatesAfter(all, b) = {} /\ DatesAfter(kept, b) = {} BY <1>1, <1>3 DEF DatesAfter
  <2>2. Cardinality({}) < KeepDates BY FS_EmptySet, BoardsAssumption
  <2> HIDE DEF kept, all
  <2>3. b \in all /\ b \in kept BY DEF kept, all
  <2> QED BY <1>4, <2>1, <2>2, <2>3
<1>6. ASSUME NEW x \in Pruned(bs) PROVE x \in Pruned(kept) <=> x \in Pruned(all)
  <2>1. x \in bs /\ Cardinality(DatesAfter(bs, x)) < KeepDates BY <1>4
  <2>2. ASSUME NEW y \in bs, TradeDate(y) > TradeDate(x) PROVE y \in Pruned(bs)
    <3>1. DatesAfter(bs, y) \subseteq DatesAfter(bs, x) BY <1>1, <2>1, <2>2 DEF DatesAfter
    <3>2. Cardinality(DatesAfter(bs, y)) <= Cardinality(DatesAfter(bs, x))
      BY <3>1, DatesCount, FS_Subset
    <3>3. Cardinality(DatesAfter(bs, y)) \in Nat /\ Cardinality(DatesAfter(bs, x)) \in Nat BY DatesCount
    <3>4. Cardinality(DatesAfter(bs, y)) < KeepDates BY <2>1, <3>2, <3>3, BoardsAssumption
    <3> QED BY <1>4, <3>4
  <2>3. DatesAfter(kept, x) = DatesAfter(all, x) BY <1>3, <2>2 DEF DatesAfter
  <2> HIDE DEF kept, all
  <2>4. x \in kept /\ x \in all BY <2>1 DEF kept, all
  <2> QED BY <1>4, <2>3, <2>4
<1>7. ASSUME NEW x \in bs, x \notin Pruned(bs) PROVE x \notin Pruned(all)
  <2>1. Cardinality(DatesAfter(bs, x)) <= Cardinality(DatesAfter(all, x))
        /\ Cardinality(DatesAfter(bs, x)) \in Nat /\ Cardinality(DatesAfter(all, x)) \in Nat
    BY <1>2, DatesCount
  <2>2. ~(Cardinality(DatesAfter(bs, x)) < KeepDates) BY <1>4, <1>7
  <2>3. ~(Cardinality(DatesAfter(all, x)) < KeepDates) BY <2>1, <2>2, BoardsAssumption
  <2> HIDE DEF all
  <2> QED BY <1>4, <2>3
<1>8. Pruned(kept) \subseteq kept /\ Pruned(all) \subseteq all BY DEF Pruned
<1>9. Pruned(kept) = Pruned(all)
  <2>1. \A x \in all : x = b \/ x \in Pruned(bs) \/ (x \in bs /\ x \notin Pruned(bs)) OBVIOUS
  <2>2. \A x \in kept : x = b \/ x \in Pruned(bs) OBVIOUS
  <2> HIDE DEF kept, all
  <2> QED BY <1>3, <1>5, <1>6, <1>7, <1>8, <2>1, <2>2
<1> QED BY <1>5, <1>9

\* What is kept is what pruning everything ever made keeps: WholeDatesKept in terms of Pruned.
LEMMA KeptIsPruned ==
  ASSUME NEW ms
  PROVE {b \in ms : Cardinality({d \in {TradeDate(c) : c \in ms} : d > TradeDate(b)}) < KeepDates} = Pruned(ms)
<1>1. ASSUME NEW b PROVE {d \in {TradeDate(c) : c \in ms} : d > TradeDate(b)}
                         = {TradeDate(c) : c \in {x \in ms : TradeDate(x) > TradeDate(b)}}
  OBVIOUS
<1> QED BY <1>1 DEF Pruned

(***************************************************************************)
(* Steps.                                                                  *)
(***************************************************************************)

\* A step that touches neither boards nor answers keeps what is said about them.
LEMMA BoardsFrame ==
  ASSUME BoardsInv, UNCHANGED <<boards, made, answer>>, now' \in 0..MaxTime, now <= now'
  PROVE Numbered' /\ LastKept' /\ Answered' /\ LastCommittedIsRead' /\ GradesOnlyIfMatched' /\ WholeDatesKept'
<1>1. Numbered'
  <2>1. \A b \in made : b.built \in Nat BY DEF BoardsInv, Numbered, Board
  <2>2. now \in Nat /\ now' \in Nat BY BoardsAssumption DEF BoardsInv, BoardsTypeOK
  <2>3. \A b \in made : b.built <= now' BY <2>1, <2>2 DEF BoardsInv, Numbered
  <2> QED BY <2>3 DEF BoardsInv, Numbered
<1>2. LastKept' /\ Answered' BY DEF BoardsInv, LastKept, Answered
<1>3. LastCommittedIsRead' /\ GradesOnlyIfMatched' BY DEF BoardsInv, LastCommittedIsRead, GradesOnlyIfMatched
<1>4. boards' = Pruned(made') BY KeptIsPruned DEF BoardsInv, WholeDatesKept
<1>5. WholeDatesKept' BY <1>4, KeptIsPruned DEF WholeDatesKept
<1> QED BY <1>1, <1>2, <1>3, <1>5

\* Time, configuration and readers that arrive leave the boards alone (Tick, Reconfigure, Arrive).
LEMMA WorldStep ==
  ASSUME BoardsInv, BoardsTick \/ Reconfigure \/ \E r \in Readers : Arrive(r)
  PROVE BoardsInv'
<1>1. UNCHANGED <<run, began, boards, made, answer>> BY DEF BoardsTick, Reconfigure, Arrive
<1>2. now \in 0..MaxTime /\ MaxTime \in Nat BY BoardsAssumption DEF BoardsInv, BoardsTypeOK
<1>3. now' \in 0..MaxTime /\ now <= now' BY <1>2 DEF BoardsTick, Reconfigure, Arrive
<1>4. BoardsTypeOK'
  BY <1>1, <1>2, <1>3 DEF BoardsInv, BoardsTypeOK, BoardsTick, Reconfigure, Arrive
<1>5. OneActive' BY <1>1 DEF BoardsInv, OneActive, Active
<1>6. BeganLater'
  <2> SUFFICES ASSUME NEW w \in Workers, run[w] = "running"
               PROVE began[w] \in Nat /\ began[w] <= now' /\ \A b \in made : b.built <= began[w]
    BY <1>1 DEF BeganLater
  <2>1. began[w] \in Nat /\ began[w] <= now /\ \A b \in made : b.built <= began[w]
    BY DEF BoardsInv, BeganLater
  <2> QED BY <2>1, <1>2, <1>3
<1>7. began' \in [Workers -> Nat] /\ DOMAIN answer' = Readers BY <1>1 DEF BoardsInv
<1> QED BY <1>1, <1>3, <1>4, <1>5, <1>6, <1>7, BoardsFrame DEF BoardsInv

\* A refresh that is asked for, queued, started or lost leaves the boards alone; the unique index
\* keeps one of them active, and it starts after the last commit.
LEMMA RunStep ==
  ASSUME BoardsInv, NEW w \in Workers, Ask(w) \/ Enqueue(w) \/ Start(w) \/ Fail(w)
  PROVE BoardsInv'
<1>1. UNCHANGED <<now, cfg, boards, made, asked, answer>> BY DEF Ask, Enqueue, Start, Fail
<1>2. now \in 0..MaxTime /\ now <= now' /\ now \in Nat BY <1>1, BoardsAssumption DEF BoardsInv, BoardsTypeOK
<1>3. run \in [Workers -> {"idle", "asked", "queued", "running"}] /\ began \in [Workers -> Nat]
  BY DEF BoardsInv, BoardsTypeOK
<1>4. run' \in [Workers -> {"idle", "asked", "queued", "running"}] /\ began' \in [Workers -> Nat]
  BY <1>2, <1>3 DEF Ask, Enqueue, Start, Fail
<1>5. BoardsTypeOK' BY <1>1, <1>4 DEF BoardsInv, BoardsTypeOK
<1>6. OneActive'
  <2>1. CASE Ask(w) BY <1>3, <2>1 DEF BoardsInv, OneActive, Active, Ask
  <2>2. CASE Enqueue(w)
    <3>1. CASE Active = {} BY <1>3, <2>2, <3>1 DEF OneActive, Active, Enqueue
    <3>2. CASE Active # {}
      <4>1. run' = [run EXCEPT ![w] = "idle"] BY <2>2, <3>2 DEF Enqueue
      <4> QED BY <1>3, <4>1 DEF BoardsInv, OneActive, Active
    <3> QED BY <3>1, <3>2
  <2>3. CASE Start(w) BY <1>3, <2>3 DEF BoardsInv, OneActive, Active, Start
  <2>4. CASE Fail(w) BY <1>3, <2>4 DEF BoardsInv, OneActive, Active, Fail
  <2> QED BY <2>1, <2>2, <2>3, <2>4
<1>7. BeganLater'
  <2> SUFFICES ASSUME NEW v \in Workers, run'[v] = "running"
               PROVE began'[v] \in Nat /\ began'[v] <= now /\ \A b \in made : b.built <= began'[v]
    BY <1>1 DEF BeganLater
  <2>1. CASE Start(w) /\ v = w
    <3>1. began'[v] = now BY <1>3, <2>1 DEF Start
    <3> QED BY <1>2, <3>1 DEF BoardsInv, Numbered
  <2>2. CASE ~(Start(w) /\ v = w)
    <3>1. run[v] = "running" /\ began'[v] = began[v] BY <1>3, <2>2 DEF Ask, Enqueue, Start, Fail
    <3> QED BY <3>1 DEF BoardsInv, BeganLater
  <2> QED BY <2>1, <2>2
<1>8. DOMAIN answer' = Readers BY <1>1 DEF BoardsInv
<1> QED BY <1>1, <1>2, <1>4, <1>5, <1>6, <1>7, <1>8, BoardsFrame DEF BoardsInv

\* The committed board is numbered next, no older than any other, and kept.
LEMMA CommitStep ==
  ASSUME BoardsInv, NEW w \in Workers, Commit(w)
  PROVE BoardsInv'
<1>1. PICK b : b = [id |-> Cardinality(made) + 1, at |-> began[w], cfg |-> cfg, built |-> now] OBVIOUS
<1>2. /\ run[w] = "running" /\ made' = made \cup {b} /\ boards' = Pruned(boards \cup {b})
      /\ run' = [run EXCEPT ![w] = "idle"] /\ began' = [began EXCEPT ![w] = 0]
      /\ UNCHANGED <<now, cfg, asked, answer>>
  BY <1>1 DEF Commit
<1>3. now \in 0..MaxTime /\ now \in Nat /\ cfg \in Cfgs BY BoardsAssumption DEF BoardsInv, BoardsTypeOK
<1>4. began[w] \in Nat /\ began[w] <= now /\ \A c \in made : c.built <= began[w] BY <1>2 DEF BoardsInv, BeganLater
<1>5. IsFiniteSet(made) /\ Cardinality(made) \in Nat BY FS_CardinalityType DEF BoardsInv, Numbered
<1>6. b \in Board /\ b.id = Cardinality(made) + 1 /\ b.at = began[w] /\ b.built = now /\ b.cfg = cfg
  BY <1>1, <1>3, <1>4, <1>5 DEF Board
<1>7. \A c \in made : /\ c.id \in Nat /\ c.at \in Nat /\ c.built \in Nat /\ c.id <= Cardinality(made)
                      /\ c.at <= c.built /\ c.built <= now
  BY DEF BoardsInv, Numbered, Board
<1>8. b \notin made BY <1>5, <1>6, <1>7
<1>9. IsFiniteSet(made') /\ Cardinality(made') = Cardinality(made) + 1 BY <1>2, <1>5, <1>8, FS_AddElement
<1>10. \A c \in made : c.at <= b.at BY <1>4, <1>6, <1>7
<1>11. boards' = Pruned(made') /\ b \in boards'
  <2>1. boards = Pruned(made) BY KeptIsPruned DEF BoardsInv, WholeDatesKept
  <2>2. \A x \in made \cup {b} : x.at \in Nat BY <1>4, <1>6, <1>7
  <2>3. Pruned(Pruned(made) \cup {b}) = Pruned(made \cup {b}) /\ b \in Pruned(made \cup {b})
    BY <1>5, <1>10, <2>2, PrunedAgain
  <2> QED BY <1>2, <2>1, <2>3
<1>12. WholeDatesKept' BY <1>11, KeptIsPruned DEF WholeDatesKept
<1>13. run \in [Workers -> {"idle", "asked", "queued", "running"}] /\ began \in [Workers -> Nat]
  BY DEF BoardsInv, BoardsTypeOK
<1>14. BoardsTypeOK'
  <2>1. boards' \subseteq made' BY <1>11 DEF Pruned
  <2> QED BY <1>2, <1>11, <1>13, <2>1 DEF BoardsInv, BoardsTypeOK
<1>15. Numbered'
  <2>1. made' \subseteq Board BY <1>2, <1>6 DEF BoardsInv, Numbered
  <2>2. ASSUME NEW c \in made' PROVE c.at <= c.built /\ c.built <= now' /\ c.id <= Cardinality(made')
    BY <1>2, <1>3, <1>4, <1>5, <1>6, <1>7, <1>9
  <2>3. ASSUME NEW c \in made', NEW d \in made', c.id = d.id PROVE c = d
    BY <1>2, <1>5, <1>6, <1>7, <2>3 DEF BoardsInv, Numbered
  <2>4. ASSUME NEW c \in made', NEW d \in made', c.id < d.id PROVE c.built <= d.at
    <3>1. CASE c \in made /\ d \in made BY <2>4, <3>1 DEF BoardsInv, Numbered
    <3>2. CASE c \in made /\ d = b BY <1>4, <1>6, <3>2
    <3>3. CASE c = b BY <1>2, <1>5, <1>6, <1>7, <2>4, <3>3
    <3> QED BY <1>2, <3>1, <3>2, <3>3
  <2>5. \E c \in made' : c.id = Cardinality(made') BY <1>2, <1>6, <1>9
  <2> QED BY <1>9, <2>1, <2>2, <2>3, <2>4, <2>5 DEF Numbered
<1>16. LastKept'
  <2> SUFFICES ASSUME NEW c \in made', c.id = Cardinality(made') PROVE c \in boards' BY DEF LastKept
  <2>1. c = b BY <1>2, <1>5, <1>7, <1>9
  <2> QED BY <1>11, <2>1
<1>17. OneActive' BY <1>2, <1>13 DEF BoardsInv, OneActive, Active
<1>18. BeganLater'
  <2> SUFFICES ASSUME NEW v \in Workers, run'[v] = "running" PROVE FALSE BY DEF BeganLater
  <2>1. v # w /\ run[v] = "running" BY <1>2, <1>13
  <2>2. v \in Active /\ w \in Active BY <1>2, <2>1 DEF Active
  <2> QED BY <2>1, <2>2 DEF BoardsInv, OneActive
<1>19. Answered' /\ GradesOnlyIfMatched' BY <1>2 DEF BoardsInv, Answered, GradesOnlyIfMatched
<1>20. LastCommittedIsRead'
  <2> SUFFICES ASSUME NEW r \in Readers, answer[r].kind \in {"matched", "legacy", "blocked"}
               PROVE /\ answer[r].board.id = answer[r].latest
                     /\ \A c \in made' : c.id <= answer[r].latest => c.built <= answer[r].board.built
    BY <1>2 DEF LastCommittedIsRead
  <2>1. /\ answer[r].board.id = answer[r].latest
        /\ \A c \in made : c.id <= answer[r].latest => c.built <= answer[r].board.built
    BY DEF BoardsInv, LastCommittedIsRead
  <2>2. answer[r].board \in made BY DEF BoardsInv, Answered, NoAnswer
  <2>3. answer[r].latest \in Nat /\ answer[r].latest <= Cardinality(made) BY <1>7, <2>1, <2>2
  <2>4. ~(b.id <= answer[r].latest) BY <1>5, <1>6, <2>3
  <2> QED BY <1>2, <2>1, <2>4
<1>21. began' \in [Workers -> Nat] /\ DOMAIN answer' = Readers BY <1>2, <1>13 DEF BoardsInv
<1> QED BY <1>12, <1>14, <1>15, <1>16, <1>17, <1>18, <1>19, <1>20, <1>21 DEF BoardsInv

\* The newest board is the last one committed, and the answer says how it relates to the question.
LEMMA ReadLatestStep ==
  ASSUME BoardsInv, NEW r \in Readers, ReadLatest(r)
  PROVE BoardsInv'
<1>1. /\ UNCHANGED <<now, cfg, run, began, boards, made>>
      /\ asked' = [asked EXCEPT ![r] = -1] /\ asked[r] >= 0
      /\ DOMAIN answer' = Readers /\ \A q \in Readers \ {r} : answer'[q] = answer[q]
  BY DEF ReadLatest, BoardsInv
<1>2. now \in 0..MaxTime /\ now <= now' /\ now \in Nat BY <1>1, BoardsAssumption DEF BoardsInv, BoardsTypeOK
<1>3. BoardsTypeOK'
  <2>1. -1 \in -1..MaxTime BY BoardsAssumption
  <2> QED BY <1>1, <2>1 DEF BoardsInv, BoardsTypeOK
<1>4. Numbered' BY <1>1 DEF BoardsInv, Numbered
<1>5. LastKept' /\ WholeDatesKept' BY <1>1 DEF BoardsInv, LastKept, WholeDatesKept
<1>6. OneActive' /\ BeganLater' BY <1>1 DEF BoardsInv, OneActive, Active, BeganLater
<1>7. CASE boards = {}
  <2>1. answer'[r] = [kind |-> "missing"] BY <1>1, <1>7 DEF ReadLatest, BoardsInv
  <2>2. Answered' /\ LastCommittedIsRead' /\ GradesOnlyIfMatched'
    BY <1>1, <2>1 DEF BoardsInv, Answered, LastCommittedIsRead, GradesOnlyIfMatched
  <2> QED BY <1>1, <1>3, <1>4, <1>5, <1>6, <2>2 DEF BoardsInv
<1>8. CASE boards # {}
  <2>1. made # {} /\ boards \subseteq made BY <1>8 DEF BoardsInv, BoardsTypeOK
  <2>2. PICK m \in made : m.id = Cardinality(made) BY <2>1 DEF BoardsInv, Numbered
  <2>3. m \in boards BY <2>2 DEF BoardsInv, LastKept
  <2>4. \A c \in made : /\ c.id \in Nat /\ c.at \in Nat /\ c.built \in Nat /\ c.id <= m.id
                        /\ c.at <= c.built /\ (c.id < m.id => c.built <= m.at) /\ (c.id = m.id => c = m)
    BY <2>2 DEF BoardsInv, Numbered, Board
  <2>5. \A c \in boards : c.at < m.at \/ (c.at = m.at /\ c.id <= m.id) BY <2>1, <2>4
  <2>6. ASSUME NEW n \in boards, \A c \in boards : c.at < n.at \/ (c.at = n.at /\ c.id <= n.id)
        PROVE n = m
    BY <2>1, <2>3, <2>4, <2>6
  <2>7. Newest = m
    <3> DEFINE G(b) == \A c \in boards : c.at < b.at \/ (c.at = b.at /\ c.id <= b.id)
    <3>1. G(m) BY <2>5
    <3>2. Newest = CHOOSE b \in boards : G(b) BY DEF Newest
    <3>3. \A n \in boards : G(n) => n = m BY <2>6
    <3> HIDE DEF G
    <3> QED BY <2>3, <3>1, <3>2, <3>3
  <2>8. Max({b.id : b \in made}) = m.id
    <3> DEFINE I == {b.id : b \in made}
    <3>1. m.id \in I /\ I \in SUBSET Nat /\ (\A i \in I : i <= m.id) /\ I # {} BY <2>4
    <3>2. Max(I) \in I /\ m.id <= Max(I)
      <4> HIDE DEF I
      <4>1. m.id \in Nat BY <2>4
      <4> QED BY <3>1, <4>1, MaxIs
    <3>3. Max(I) <= m.id /\ Max(I) \in Nat BY <3>1, <3>2
    <3>4. m.id \in Nat BY <2>4
    <3> HIDE DEF I
    <3>5. Max(I) = m.id BY <3>2, <3>3, <3>4
    <3> QED BY <3>5 DEF I
  <2>9. answer'[r] = [kind |-> Judge(m, asked[r]), board |-> m, at |-> asked[r], cfg |-> cfg, latest |-> m.id]
    BY <1>1, <1>8, <2>7, <2>8 DEF ReadLatest, BoardsInv
  <2>10. Judge(m, asked[r]) \in {"matched", "legacy", "blocked"} BY DEF Judge
  <2>11. Answered' BY <1>1, <2>9, <2>10 DEF BoardsInv, Answered
  <2>12. \A c \in made : c.built <= m.built
    <3> SUFFICES ASSUME NEW c \in made PROVE c.built <= m.built OBVIOUS
    <3>1. CASE c.id < m.id BY <2>4, <3>1
    <3>2. CASE c.id = m.id BY <2>4, <3>2
    <3> QED BY <2>4, <3>1, <3>2
  <2>13. LastCommittedIsRead' BY <1>1, <2>9, <2>12 DEF BoardsInv, LastCommittedIsRead
  <2>14. asked[r] \in Int BY BoardsAssumption DEF BoardsInv, BoardsTypeOK
  <2>15. Judge(m, asked[r]) = "matched" => m.at <= asked[r] /\ m.cfg = cfg BY <2>4, <2>14 DEF Judge
  <2>16. GradesOnlyIfMatched' BY <1>1, <2>9, <2>15 DEF BoardsInv, GradesOnlyIfMatched
  <2> QED BY <1>1, <1>3, <1>4, <1>5, <1>6, <2>11, <2>13, <2>16 DEF BoardsInv
<1> QED BY <1>7, <1>8

\* A shown answer is forgotten.
LEMMA ShowStep ==
  ASSUME BoardsInv, NEW r \in Readers, Show(r)
  PROVE BoardsInv'
<1>1. /\ UNCHANGED <<now, cfg, run, began, boards, made, asked>> /\ DOMAIN answer' = Readers
      /\ answer'[r] = NoAnswer /\ \A q \in Readers \ {r} : answer'[q] = answer[q]
  BY DEF Show, BoardsInv
<1>2. BoardsTypeOK' BY <1>1 DEF BoardsInv, BoardsTypeOK
<1>3. Numbered' BY <1>1 DEF BoardsInv, Numbered
<1>4. LastKept' /\ WholeDatesKept' BY <1>1 DEF BoardsInv, LastKept, WholeDatesKept
<1>5. OneActive' /\ BeganLater' BY <1>1 DEF BoardsInv, OneActive, Active, BeganLater
<1>6. Answered' /\ LastCommittedIsRead' /\ GradesOnlyIfMatched'
  BY <1>1 DEF BoardsInv, Answered, LastCommittedIsRead, GradesOnlyIfMatched, NoAnswer
<1> QED BY <1>1, <1>2, <1>3, <1>4, <1>5, <1>6 DEF BoardsInv

\* The inductive invariant of the board table: with any number of workers and readers, refreshes
\* that fail or die, and strategies that change at any moment (decision_board_service.py).
THEOREM BoardsInvariant == BoardsSpec => []BoardsInv
<1>1. BoardsInit => BoardsInv
  <2> SUFFICES ASSUME BoardsInit PROVE BoardsInv OBVIOUS
  <2> USE DEF BoardsInit
  <2>1. 0 \in 0..MaxTime /\ -1 \in -1..MaxTime BY BoardsAssumption
  <2>2. BoardsTypeOK BY <2>1 DEF BoardsTypeOK
  <2>3. Numbered BY FS_EmptySet DEF Numbered
  <2>4. OneActive /\ BeganLater /\ LastKept BY DEF OneActive, Active, BeganLater, LastKept
  <2>5. Answered /\ LastCommittedIsRead /\ GradesOnlyIfMatched
    BY DEF Answered, LastCommittedIsRead, GradesOnlyIfMatched, NoAnswer
  <2>6. WholeDatesKept BY DEF WholeDatesKept
  <2> QED BY <2>2, <2>3, <2>4, <2>5, <2>6 DEF BoardsInv
<1>2. BoardsInv /\ [BoardsNext]_boardVars => BoardsInv'
  <2> SUFFICES ASSUME BoardsInv, [BoardsNext]_boardVars PROVE BoardsInv' OBVIOUS
  <2>1. CASE UNCHANGED boardVars
    <3>1. UNCHANGED <<now, cfg, run, began, boards, made, asked, answer>> BY <2>1 DEF boardVars
    <3>2. BoardsTypeOK' BY <3>1 DEF BoardsInv, BoardsTypeOK
    <3>3. Numbered' BY <3>1 DEF BoardsInv, Numbered
    <3>4. LastKept' /\ WholeDatesKept' BY <3>1 DEF BoardsInv, LastKept, WholeDatesKept
    <3>5. OneActive' /\ BeganLater' BY <3>1 DEF BoardsInv, OneActive, Active, BeganLater
    <3>6. Answered' /\ LastCommittedIsRead' /\ GradesOnlyIfMatched'
      BY <3>1 DEF BoardsInv, Answered, LastCommittedIsRead, GradesOnlyIfMatched
    <3> QED BY <3>1, <3>2, <3>3, <3>4, <3>5, <3>6 DEF BoardsInv
  <2> QED BY <2>1, WorldStep, RunStep, CommitStep, ReadLatestStep, ShowStep DEF BoardsNext
<1> QED BY <1>1, <1>2, PTL DEF BoardsSpec

\* Readers get the last board committed, grades only of a board that matches the question and the
\* strategy, and pruning removes whole dates: for any calendar, retention, workers and readers.
THEOREM BoardsAreReadable == BoardsSpec => []BoardsReadable
<1>1. BoardsInv => BoardsReadable BY DEF BoardsInv, BoardsReadable
<1> QED BY <1>1, BoardsInvariant, PTL

(***************************************************************************)
(* Batches.  The books of a code balance: as long as the owner edits       *)
(* nothing by hand, every value is as often stored by an applied batch as  *)
(* it is waiting, in a before or in the holdings, to be put back.          *)
(***************************************************************************)

\* Applied batches that will put v back, and those that stored v.
Returning(c, v) == {b \in Batches : batch[b].status = "confirmed" /\ c \in Selected(b) /\ batch[b].before[c] = v}
Storing(c, v) == {b \in Batches : batch[b].status = "confirmed" /\ c \in Selected(b) /\ Stored(batch[b].rows[c]) = v}
Here(c, v) == IF hold[c] = v THEN 1 ELSE 0

Balanced ==
  manual = 0 => \A c \in Codes, v \in Nat : Cardinality(Returning(c, v)) + Here(c, v) = Cardinality(Storing(c, v))

\* The transaction is about the batch it read; what it read of a row it holds locked is still there.
TxReads ==
  /\ tx.kind # "none" => tx.batch \in Batches
  /\ tx.kind = "confirm" => batch[tx.batch].status = "preview"
  /\ tx.kind = "undo" => batch[tx.batch].status = "confirmed"
                         /\ \A c \in Selected(tx.batch) : tx.seen[c] = batch[tx.batch].rows[c]
  /\ \A c \in Codes : tx.seen[c] # None => hold[c] = tx.seen[c]
  /\ tx.kind # "none" /\ manual = 0 => \A c \in Selected(tx.batch) : hold[c] = tx.seen[c]

\* What the batches remember.
BatchMemory ==
  \A b \in Batches :
    /\ batch[b].status = "confirmed" => batch[b].after = batch[b].rows
    /\ \A c \in Codes : Stored(batch[b].before[c]) = batch[b].before[c]
    /\ applied[b] = IF batch[b].status \in {"confirmed", "undone"} THEN 1 ELSE 0

BatchesInv == BatchesTypeOK /\ TxReads /\ BatchMemory /\ Balanced

\* The column's rounding: what was stored is stored again as it is.
LEMMA StoredTwice ==
  ASSUME NEW v \in Nat \cup {None}
  PROVE /\ Stored(v) \in Nat \cup {None} /\ Stored(Stored(v)) = Stored(v)
        /\ Stored(v) = None <=> v = None
<1>1. CASE v = None BY <1>1 DEF Stored
<1>2. CASE v # None
  <2>1. v \in Nat /\ Scale \in Nat /\ Scale > 0 BY <1>2, BatchesAssumption DEF BatchesBounds
  <2>2. PICK q \in Nat : q = v \div Scale BY <2>1
  <2>3. PICK w \in Nat : w = q * Scale BY <2>1, <2>2
  <2>4. w \div Scale = q BY <2>1, <2>2, <2>3
  <2>5. w # None /\ Stored(v) = w BY <1>2, <2>2, <2>3, BatchesAssumption DEF Stored, BatchesBounds
  <2>6. Stored(w) = w BY <2>3, <2>4, <2>5 DEF Stored
  <2> QED BY <1>2, <2>3, <2>5, <2>6
<1> QED BY <1>1, <1>2

\* A batch that waits to be put back, or that stored a value, is one of finitely many.
LEMMA FiniteBooks ==
  ASSUME NEW c, NEW v
  PROVE /\ IsFiniteSet(Returning(c, v)) /\ Cardinality(Returning(c, v)) \in Nat
        /\ IsFiniteSet(Storing(c, v)) /\ Cardinality(Storing(c, v)) \in Nat
<1>1. IsFiniteSet(Batches) BY BatchesAssumption DEF BatchesBounds
<1>2. Returning(c, v) \in SUBSET Batches /\ Storing(c, v) \in SUBSET Batches BY DEF Returning, Storing
<1> QED BY <1>1, <1>2, FS_Subset, FS_CardinalityType

\* The kinds of values a typed state holds.
LEMMA BatchTypes ==
  ASSUME BatchesTypeOK, NEW b \in Batches
  PROVE /\ batch[b] \in BatchRecord /\ batch[b].rows \in Rows /\ batch[b].after \in Rows /\ batch[b].before \in Held
        /\ \A c \in Codes : batch[b].rows[c] \in Nat \cup {None} /\ batch[b].before[c] \in Nat \cup {None}
        /\ \A c \in Codes : hold[c] \in Nat \cup {None} /\ tx.seen[c] \in Nat \cup {None}
        /\ Selected(b) \subseteq Codes
<1>1. batch[b] \in BatchRecord /\ hold \in Held /\ tx.seen \in Held BY DEF BatchesTypeOK, TxRecord
<1>2. batch[b].rows \in Rows /\ batch[b].after \in Rows /\ batch[b].before \in Held BY <1>1 DEF BatchRecord
<1>3. Vals \subseteq Nat BY BatchesAssumption DEF BatchesBounds
<1> QED BY <1>1, <1>2, <1>3 DEF Rows, Held, Selected

\* A batch that is not applied changes (Preview, NewRevision, Edit, Cancel).
LEMMA UnappliedStep ==
  ASSUME BatchesInv, UNCHANGED <<hold, tx, applied, manual>>, NEW b \in Batches, NEW r \in BatchRecord,
         batch' = [batch EXCEPT ![b] = r], r.status \in {"preview", "cancelled"}, r.before = batch[b].before,
         batch[b].status \notin {"confirmed", "undone"}, tx.kind # "none" => tx.batch # b
  PROVE BatchesInv'
<1>1. batch \in [Batches -> BatchRecord] BY DEF BatchesInv, BatchesTypeOK
<1>2. batch'[b] = r /\ \A x \in Batches \ {b} : batch'[x] = batch[x] BY <1>1
<1>3. BatchesTypeOK' BY <1>1 DEF BatchesInv, BatchesTypeOK
<1>4. \A x \in Batches \ {b} : Selected(x)' = Selected(x) BY <1>2 DEF Selected
<1>5. TxReads' BY <1>2, <1>4 DEF BatchesInv, TxReads
<1>6. BatchMemory' BY <1>2 DEF BatchesInv, BatchMemory
<1>7. Balanced'
  <2> SUFFICES ASSUME manual = 0, NEW c \in Codes, NEW v \in Nat
      PROVE Cardinality(Returning(c, v)') + Here(c, v) = Cardinality(Storing(c, v)')
    BY DEF Balanced, Here
  <2>1. Returning(c, v)' = Returning(c, v) BY <1>2, <1>4 DEF Returning
  <2>2. Storing(c, v)' = Storing(c, v) BY <1>2, <1>4 DEF Storing
  <2> QED BY <2>1, <2>2 DEF BatchesInv, Balanced
<1> QED BY <1>3, <1>5, <1>6, <1>7 DEF BatchesInv

\* The steps of a batch before it is applied.
LEMMA DraftStep ==
  ASSUME BatchesInv, NEW b \in Batches,
         \/ \E rows \in Rows : Preview(b, rows) \/ Edit(b, rows)
         \/ \E o \in Batches : NewRevision(b, o)
         \/ Cancel(b)
  PROVE BatchesInv'
<1>1. batch[b] \in BatchRecord BY BatchTypes DEF BatchesInv
<1>2. UNCHANGED <<hold, tx, applied, manual>> BY DEF Preview, Edit, NewRevision, Cancel
<1>3. NoRows \in Rows /\ NoRows \in Held BY DEF NoRows, Rows, Held
<1>4. ASSUME NEW rows \in Rows, batch[b] = Absent,
             batch' = [batch EXCEPT ![b] = [Absent EXCEPT !.status = "preview", !.rows = rows]]
      PROVE BatchesInv'
  <2>1. PICK r : r = [Absent EXCEPT !.status = "preview", !.rows = rows] OBVIOUS
  <2>2. r \in BatchRecord /\ r.status = "preview" /\ r.before = Absent.before
    BY <1>3, <2>1 DEF Absent, BatchRecord
  <2>3. Absent.status = "absent" BY DEF Absent
  <2>4. tx.kind # "none" => tx.batch # b
    <3>1. tx.kind \in {"none", "confirm", "undo"} BY DEF BatchesInv, BatchesTypeOK, TxRecord
    <3> QED BY <1>4, <2>3, <3>1 DEF BatchesInv, TxReads
  <2> QED BY <1>2, <1>4, <2>1, <2>2, <2>3, <2>4, UnappliedStep
<1>5. CASE \E rows \in Rows : Preview(b, rows) BY <1>4, <1>5 DEF Preview
<1>6. CASE \E o \in Batches : NewRevision(b, o)
  <2>1. PICK o \in Batches : NewRevision(b, o) BY <1>6
  <2>2. batch[o].rows \in Rows BY BatchTypes DEF BatchesInv
  <2> QED BY <1>4, <2>1, <2>2 DEF NewRevision
<1>7. CASE \E rows \in Rows : Edit(b, rows)
  <2>1. PICK rows \in Rows : Edit(b, rows) BY <1>7
  <2>2. PICK r : r = [batch[b] EXCEPT !.rows = rows] OBVIOUS
  <2>3. r \in BatchRecord /\ r.status = batch[b].status /\ r.before = batch[b].before BY <1>1, <2>2 DEF BatchRecord
  <2>4. batch' = [batch EXCEPT ![b] = r] /\ batch[b].status = "preview" /\ tx.batch # b BY <2>1, <2>2 DEF Edit
  <2> QED BY <1>2, <2>3, <2>4, UnappliedStep
<1>8. CASE Cancel(b)
  <2>2. PICK r : r = [batch[b] EXCEPT !.status = "cancelled"] OBVIOUS
  <2>3. r \in BatchRecord /\ r.status = "cancelled" /\ r.before = batch[b].before BY <1>1, <2>2 DEF BatchRecord
  <2>4. batch' = [batch EXCEPT ![b] = r] /\ batch[b].status = "preview" /\ tx.batch # b BY <1>8, <2>2 DEF Cancel
  <2> QED BY <1>2, <2>3, <2>4, UnappliedStep
<1> QED BY <1>5, <1>6, <1>7, <1>8

\* A transaction that reads, or rolls back (ConfirmRead, UndoRead, Rollback).
LEMMA TxStep ==
  ASSUME BatchesInv, Rollback \/ \E b \in Batches : ConfirmRead(b) \/ UndoRead(b)
  PROVE BatchesInv'
<1>1. UNCHANGED <<hold, batch, applied, manual>> BY DEF Rollback, ConfirmRead, UndoRead
<1>2. BatchMemory' /\ Balanced'
  <2>1. BatchMemory' BY <1>1 DEF BatchesInv, BatchMemory
  <2>2. ASSUME NEW c \in Codes, NEW v \in Nat
        PROVE Returning(c, v)' = Returning(c, v) /\ Storing(c, v)' = Storing(c, v) /\ Here(c, v)' = Here(c, v)
    BY <1>1 DEF Returning, Storing, Selected, Here
  <2>3. Balanced' BY <1>1, <2>2 DEF BatchesInv, Balanced
  <2> QED BY <2>1, <2>3
<1>3. ASSUME tx' \in TxRecord, TxReads' PROVE BatchesInv'
  BY <1>1, <1>2, <1>3 DEF BatchesInv, BatchesTypeOK
<1>4. hold \in Held BY DEF BatchesInv, BatchesTypeOK
<1>5. CASE tx' = tx BY <1>1, <1>3, <1>5 DEF BatchesInv, BatchesTypeOK, TxReads, Selected
<1>6. CASE Rollback
  <2>1. tx' = NoTx BY <1>6 DEF Rollback
  <2>2. tx' \in TxRecord /\ tx'.kind = "none" /\ \A c \in Codes : tx'.seen[c] = None
    BY <2>1 DEF NoTx, TxRecord, NoRows, Held
  <2> QED BY <1>3, <2>2 DEF TxReads
<1>7. ASSUME NEW b \in Batches, ConfirmRead(b) \/ UndoRead(b), tx' # tx PROVE BatchesInv'
  <2> DEFINE state == [c \in Codes |-> IF c \in Selected(b) THEN hold[c] ELSE None]
  <2>1. PICK k \in {"confirm", "undo"} :
          /\ tx' = [kind |-> k, batch |-> b, seen |-> state]
          /\ k = "confirm" => batch[b].status = "preview"
          /\ k = "undo" => batch[b].status = "confirmed" /\ state = batch[b].after
    BY <1>7 DEF ConfirmRead, UndoRead
  <2>2. state \in Held BY <1>4 DEF Held
  <2>3. tx' \in TxRecord BY <2>1, <2>2 DEF TxRecord
  <2>4. \A c \in Codes : state[c] = IF c \in Selected(b) THEN hold[c] ELSE None OBVIOUS
  <2>5. k = "undo" => state = batch[b].rows BY <2>1 DEF BatchesInv, BatchMemory
  <2>6. Selected(b)' = Selected(b) /\ Selected(b) \subseteq Codes BY <1>1 DEF Selected
  <2> HIDE DEF state
  <2>7. tx'.kind = k /\ tx'.batch = b /\ tx'.seen = state BY <2>1
  <2>8. TxReads'
    <3>1. k = "undo" => \A c \in Selected(b) : state[c] = batch[b].rows[c] BY <2>5
    <3>2. \A c \in Codes : state[c] # None => hold[c] = state[c] BY <2>4
    <3>3. \A c \in Selected(b) : hold[c] = state[c] BY <2>4, <2>6
    <3> QED BY <1>1, <2>1, <2>6, <2>7, <3>1, <3>2, <3>3 DEF TxReads
  <2> QED BY <1>3, <2>3, <2>8
<1> QED BY <1>5, <1>6, <1>7

\* Without a transaction nothing has been read.
LEMMA NoTxReads == ASSUME tx' = NoTx PROVE tx' \in TxRecord /\ TxReads'
<1>1. tx' \in TxRecord /\ tx'.kind = "none" /\ \A c \in Codes : tx'.seen[c] = None
  BY DEF NoTx, TxRecord, NoRows, Held
<1> QED BY <1>1 DEF TxReads

\* The import is applied: for each of its codes the value it found waits in its before.
LEMMA ConfirmWriteStep == ASSUME BatchesInv, ConfirmWrite PROVE BatchesInv'
<1>1. PICK b \in Batches : b = tx.batch BY DEF ConfirmWrite, BatchesInv, TxReads
<1>2. /\ tx.kind = "confirm" /\ tx' = NoTx /\ UNCHANGED manual /\ batch[b].status = "preview"
      /\ hold' = [c \in Codes |-> IF c \in Selected(b) THEN Stored(batch[b].rows[c]) ELSE hold[c]]
      /\ batch' = [batch EXCEPT ![b] = [@ EXCEPT !.status = "confirmed", !.before = tx.seen, !.after = batch[b].rows]]
      /\ applied' = [applied EXCEPT ![b] = @ + 1]
  BY <1>1 DEF ConfirmWrite, BatchesInv, TxReads
<1>3. PICK r : r = [batch[b] EXCEPT !.status = "confirmed", !.before = tx.seen, !.after = batch[b].rows] OBVIOUS
<1>4. batch \in [Batches -> BatchRecord] /\ tx.seen \in Held /\ hold \in Held /\ applied \in [Batches -> Nat]
  BY DEF BatchesInv, BatchesTypeOK, TxRecord
<1>5. /\ r \in BatchRecord /\ r.status = "confirmed" /\ r.before = tx.seen /\ r.after = batch[b].rows
      /\ r.rows = batch[b].rows
  BY <1>3, <1>4 DEF BatchRecord
<1>6. batch'[b] = r /\ \A x \in Batches \ {b} : batch'[x] = batch[x] BY <1>2, <1>3, <1>4
<1>7. \A x \in Batches : Selected(x)' = Selected(x) BY <1>5, <1>6 DEF Selected
<1>8. /\ Selected(b) \subseteq Codes
      /\ \A c \in Codes : batch[b].rows[c] \in Nat \cup {None} /\ hold[c] \in Nat \cup {None}
                          /\ tx.seen[c] \in Nat \cup {None}
  BY BatchTypes DEF BatchesInv
<1>9. \A c \in Codes : hold'[c] = IF c \in Selected(b) THEN Stored(batch[b].rows[c]) ELSE hold[c] BY <1>2
<1>10. BatchesTypeOK'
  <2>1. hold' \in Held BY <1>2, <1>8, StoredTwice DEF Held
  <2>2. ASSUME NEW c \in Codes PROVE Stored(hold'[c]) = hold'[c]
    BY <1>8, <1>9, StoredTwice DEF BatchesInv, BatchesTypeOK
  <2>3. batch' \in [Batches -> BatchRecord] BY <1>2, <1>3, <1>4, <1>5
  <2>4. applied' \in [Batches -> Nat] BY <1>2, <1>4
  <2>5. manual' \in 0..MaxManual BY <1>2 DEF BatchesInv, BatchesTypeOK
  <2> HIDE DEF Stored
  <2> QED BY <1>2, <2>1, <2>2, <2>3, <2>4, <2>5, NoTxReads DEF BatchesTypeOK, Stored
<1>11. BatchMemory'
  <2>1. ASSUME NEW c \in Codes PROVE Stored(tx.seen[c]) = tx.seen[c]
    BY DEF BatchesInv, BatchesTypeOK, TxReads, Stored
  <2>2. applied'[b] = 1 /\ \A x \in Batches \ {b} : applied'[x] = applied[x]
    BY <1>2, <1>4 DEF BatchesInv, BatchMemory
  <2>3. ASSUME NEW x \in Batches
        PROVE /\ batch'[x].status = "confirmed" => batch'[x].after = batch'[x].rows
              /\ \A c \in Codes : Stored(batch'[x].before[c]) = batch'[x].before[c]
              /\ applied'[x] = IF batch'[x].status \in {"confirmed", "undone"} THEN 1 ELSE 0
    <3>1. CASE x = b BY <1>5, <1>6, <2>1, <2>2, <3>1
    <3>2. CASE x # b BY <1>6, <2>2, <3>2 DEF BatchesInv, BatchMemory
    <3> QED BY <3>1, <3>2
  <2> QED BY <2>3 DEF BatchMemory, Stored
<1>12. Balanced'
  <2> SUFFICES ASSUME manual = 0, NEW c \in Codes, NEW v \in Nat
      PROVE Cardinality(Returning(c, v)') + Here(c, v)' = Cardinality(Storing(c, v)')
    BY <1>2 DEF Balanced
  <2>1. Cardinality(Returning(c, v)) + Here(c, v) = Cardinality(Storing(c, v)) BY DEF BatchesInv, Balanced
  <2>2. b \notin Returning(c, v) /\ b \notin Storing(c, v) BY <1>2 DEF Returning, Storing
  <2>3. v # None BY BatchesAssumption DEF BatchesBounds
  <2>n. Cardinality(Returning(c, v)) \in Nat /\ Cardinality(Storing(c, v)) \in Nat BY FiniteBooks
  <2>4. CASE c \notin Selected(b)
    <3>1. Returning(c, v)' = Returning(c, v) BY <1>2, <1>6, <1>7, <2>4 DEF Returning
    <3>2. Storing(c, v)' = Storing(c, v) BY <1>2, <1>6, <1>7, <2>4 DEF Storing
    <3>3. Here(c, v)' = Here(c, v) BY <1>9, <2>4 DEF Here
    <3> QED BY <2>1, <3>1, <3>2, <3>3
  <2>5. CASE c \in Selected(b)
    <3>1. hold[c] = tx.seen[c] BY <1>1, <1>2, <2>5 DEF BatchesInv, TxReads
    <3>2. hold'[c] = Stored(batch[b].rows[c]) BY <1>9, <2>5
    <3>3. Returning(c, v)' = IF hold[c] = v THEN Returning(c, v) \cup {b} ELSE Returning(c, v)
      BY <1>2, <1>5, <1>6, <1>7, <2>5, <3>1 DEF Returning
    <3>4. Storing(c, v)' = IF hold'[c] = v THEN Storing(c, v) \cup {b} ELSE Storing(c, v)
      <4>1. \A x \in Batches : Stored(batch'[x].rows[c]) = Stored(batch[x].rows[c]) BY <1>5, <1>6
      <4> QED BY <1>2, <1>5, <1>6, <1>7, <2>5, <3>2, <4>1 DEF Storing, Stored
    <3>5. Cardinality(Returning(c, v)') = Cardinality(Returning(c, v)) + (IF hold[c] = v THEN 1 ELSE 0)
      <4>1. PICK S : S = Returning(c, v) OBVIOUS
      <4>2. IsFiniteSet(S) /\ b \notin S BY <2>2, <4>1, FiniteBooks
      <4>3. Cardinality(S \cup {b}) = Cardinality(S) + 1 BY <4>2, FS_AddElement
      <4> QED BY <2>n, <3>3, <4>1, <4>3
    <3>6. Cardinality(Storing(c, v)') = Cardinality(Storing(c, v)) + (IF hold'[c] = v THEN 1 ELSE 0)
      <4>1. PICK S : S = Storing(c, v) OBVIOUS
      <4>2. IsFiniteSet(S) /\ b \notin S BY <2>2, <4>1, FiniteBooks
      <4>3. Cardinality(S \cup {b}) = Cardinality(S) + 1 BY <4>2, FS_AddElement
      <4> QED BY <2>n, <3>4, <4>1, <4>3
    <3> QED BY <2>1, <2>n, <3>5, <3>6 DEF Here
  <2> QED BY <2>4, <2>5
<1> QED BY <1>2, <1>10, <1>11, <1>12, NoTxReads DEF BatchesInv

\* An undo puts back what waited in the batch's before and takes away what the batch stored.
LEMMA UndoWriteStep ==
  ASSUME BatchesInv, UndoWrite
  PROVE /\ BatchesInv'
        /\ \A c \in Selected(tx.batch) : hold[c] = Stored(batch[tx.batch].rows[c])
<1>1. PICK b \in Batches : b = tx.batch BY DEF UndoWrite, BatchesInv, TxReads
<1>2. /\ tx.kind = "undo" /\ tx' = NoTx /\ UNCHANGED <<manual, applied>> /\ batch[b].status = "confirmed"
      /\ hold' = [c \in Codes |-> IF c \in Selected(b) THEN batch[b].before[c] ELSE hold[c]]
      /\ batch' = [batch EXCEPT ![b].status = "undone"]
  BY <1>1 DEF UndoWrite, BatchesInv, TxReads
<1>3. PICK r : r = [batch[b] EXCEPT !.status = "undone"] OBVIOUS
<1>4. batch \in [Batches -> BatchRecord] /\ hold \in Held BY DEF BatchesInv, BatchesTypeOK
<1>5. r \in BatchRecord /\ r.status = "undone" /\ r.before = batch[b].before /\ r.rows = batch[b].rows
  BY <1>3, <1>4 DEF BatchRecord
<1>6. batch'[b] = r /\ \A x \in Batches \ {b} : batch'[x] = batch[x] BY <1>2, <1>3, <1>4
<1>7. \A x \in Batches : Selected(x)' = Selected(x) BY <1>5, <1>6 DEF Selected
<1>8. /\ Selected(b) \subseteq Codes
      /\ \A c \in Codes : batch[b].rows[c] \in Nat \cup {None} /\ hold[c] \in Nat \cup {None}
                          /\ batch[b].before[c] \in Nat \cup {None}
  BY BatchTypes DEF BatchesInv
<1>9. \A c \in Codes : hold'[c] = IF c \in Selected(b) THEN batch[b].before[c] ELSE hold[c] BY <1>2
<1>10. ASSUME NEW c \in Selected(b) PROVE hold[c] = Stored(batch[b].rows[c])
  <2>1. tx.seen[c] = batch[b].rows[c] /\ batch[b].rows[c] # None
    BY <1>1, <1>2 DEF BatchesInv, TxReads, Selected
  <2>2. hold[c] = batch[b].rows[c] BY <1>8, <2>1 DEF BatchesInv, TxReads
  <2>3. Stored(hold[c]) = hold[c] BY <1>8 DEF BatchesInv, BatchesTypeOK
  <2> QED BY <2>2, <2>3
<1>11. BatchesTypeOK'
  <2>1. hold' \in Held BY <1>2, <1>8 DEF Held
  <2>2. ASSUME NEW c \in Codes PROVE Stored(hold'[c]) = hold'[c]
    BY <1>9 DEF BatchesInv, BatchesTypeOK, BatchMemory
  <2>3. batch' \in [Batches -> BatchRecord] BY <1>3, <1>2, <1>4, <1>5
  <2> QED BY <1>2, <2>1, <2>2, <2>3, NoTxReads DEF BatchesInv, BatchesTypeOK, Stored
<1>12. BatchMemory'
  <2>1. ASSUME NEW x \in Batches
        PROVE /\ batch'[x].status = "confirmed" => batch'[x].after = batch'[x].rows
              /\ \A c \in Codes : Stored(batch'[x].before[c]) = batch'[x].before[c]
              /\ applied'[x] = IF batch'[x].status \in {"confirmed", "undone"} THEN 1 ELSE 0
    <3>1. CASE x = b BY <1>2, <1>5, <1>6, <3>1 DEF BatchesInv, BatchMemory
    <3>2. CASE x # b BY <1>2, <1>6, <3>2 DEF BatchesInv, BatchMemory
    <3> QED BY <3>1, <3>2
  <2> QED BY <2>1 DEF BatchMemory, Stored
<1>13. Balanced'
  <2> SUFFICES ASSUME manual = 0, NEW c \in Codes, NEW v \in Nat
      PROVE Cardinality(Returning(c, v)') + Here(c, v)' = Cardinality(Storing(c, v)')
    BY <1>2 DEF Balanced
  <2>1. Cardinality(Returning(c, v)) + Here(c, v) = Cardinality(Storing(c, v)) BY DEF BatchesInv, Balanced
  <2>n. Cardinality(Returning(c, v)) \in Nat /\ Cardinality(Storing(c, v)) \in Nat BY FiniteBooks
  <2>2. CASE c \notin Selected(b)
    <3>1. Returning(c, v)' = Returning(c, v) BY <1>2, <1>5, <1>6, <1>7, <2>2 DEF Returning
    <3>2. Storing(c, v)' = Storing(c, v) BY <1>2, <1>5, <1>6, <1>7, <2>2 DEF Storing
    <3>3. Here(c, v)' = Here(c, v) BY <1>9, <2>2 DEF Here
    <3> QED BY <2>1, <3>1, <3>2, <3>3
  <2>3. CASE c \in Selected(b)
    <3>1. hold'[c] = batch[b].before[c] BY <1>9, <2>3
    <3>2. hold[c] = Stored(batch[b].rows[c]) BY <1>10, <2>3
    <3>3. Returning(c, v)' = Returning(c, v) \ {b} /\ (b \in Returning(c, v) <=> hold'[c] = v)
      BY <1>2, <1>5, <1>6, <1>7, <2>3, <3>1 DEF Returning
    <3>4. Storing(c, v)' = Storing(c, v) \ {b} /\ (b \in Storing(c, v) <=> hold[c] = v)
      <4>1. \A x \in Batches : Stored(batch'[x].rows[c]) = Stored(batch[x].rows[c]) BY <1>5, <1>6
      <4> QED BY <1>2, <1>5, <1>6, <1>7, <2>3, <3>2, <4>1 DEF Storing, Stored
    <3>5. Cardinality(Returning(c, v)') = Cardinality(Returning(c, v)) - (IF hold'[c] = v THEN 1 ELSE 0)
      <4>1. PICK S : S = Returning(c, v) OBVIOUS
      <4>2. IsFiniteSet(S) BY <4>1, FiniteBooks
      <4>3. Cardinality(S \ {b}) = IF b \in S THEN Cardinality(S) - 1 ELSE Cardinality(S) BY <4>2, FS_RemoveElement
      <4> QED BY <2>n, <3>3, <4>1, <4>3
    <3>6. Cardinality(Storing(c, v)') = Cardinality(Storing(c, v)) - (IF hold[c] = v THEN 1 ELSE 0)
      <4>1. PICK S : S = Storing(c, v) OBVIOUS
      <4>2. IsFiniteSet(S) BY <4>1, FiniteBooks
      <4>3. Cardinality(S \ {b}) = IF b \in S THEN Cardinality(S) - 1 ELSE Cardinality(S) BY <4>2, FS_RemoveElement
      <4> QED BY <2>n, <3>4, <4>1, <4>3
    <3> QED BY <2>1, <2>n, <3>5, <3>6 DEF Here
  <2> QED BY <2>2, <2>3
<1> QED BY <1>1, <1>2, <1>10, <1>11, <1>12, <1>13, NoTxReads DEF BatchesInv

\* A direct edit waits for the rows a transaction has read.
LEMMA ManualStep ==
  ASSUME BatchesInv, NEW c \in Codes, ManualDelete(c) \/ \E v \in Vals : ManualEdit(c, v)
  PROVE BatchesInv'
<1>1. PICK w \in Nat \cup {None} : /\ hold' = [hold EXCEPT ![c] = w] /\ Stored(w) = w
  <2>1. CASE ManualDelete(c) BY <2>1 DEF ManualDelete, Stored
  <2>2. ASSUME NEW v \in Vals, ManualEdit(c, v)
        PROVE \E w \in Nat \cup {None} : hold' = [hold EXCEPT ![c] = w] /\ Stored(w) = w
    <3>1. v \in Nat \cup {None} BY BatchesAssumption DEF BatchesBounds
    <3>2. PICK w : w = Stored(v) OBVIOUS
    <3> QED BY <2>2, <3>1, <3>2, StoredTwice DEF ManualEdit
  <2> QED BY <2>1, <2>2
<1>2. UNCHANGED <<batch, tx, applied>> /\ manual' = manual + 1 /\ manual < MaxManual /\ tx.seen[c] = None
  BY DEF ManualDelete, ManualEdit, Locked
<1>3. hold \in Held /\ manual \in 0..MaxManual /\ MaxManual \in Nat
  BY BatchesAssumption DEF BatchesInv, BatchesTypeOK, BatchesBounds
<1>4. manual' \in 0..MaxManual /\ manual' # 0 BY <1>2, <1>3
<1>5. hold'[c] = w /\ \A d \in Codes \ {c} : hold'[d] = hold[d] BY <1>1, <1>3 DEF Held
<1>6. BatchesTypeOK'
  <2>1. hold' \in Held BY <1>1, <1>3 DEF Held
  <2>2. ASSUME NEW d \in Codes PROVE Stored(hold'[d]) = hold'[d] BY <1>1, <1>5 DEF BatchesInv, BatchesTypeOK
  <2> QED BY <1>2, <1>4, <2>1, <2>2 DEF BatchesInv, BatchesTypeOK, Stored
<1>7. TxReads' BY <1>2, <1>4, <1>5 DEF BatchesInv, TxReads, Selected
<1>8. BatchMemory' BY <1>2 DEF BatchesInv, BatchMemory, Stored
<1>9. Balanced' BY <1>4 DEF Balanced
<1> QED BY <1>6, <1>7, <1>8, <1>9 DEF BatchesInv

\* Every reachable state of the holdings, the batches and the transaction satisfies the invariant.
THEOREM BatchesInvariant == BatchesSpec => []BatchesInv
<1>1. BatchesInit => BatchesInv
  <2> SUFFICES ASSUME BatchesInit PROVE BatchesInv OBVIOUS
  <2>1. hold = NoRows /\ batch = [b \in Batches |-> Absent] /\ tx = NoTx /\ applied = [b \in Batches |-> 0] /\ manual = 0
    BY DEF BatchesInit
  <2>2. NoRows \in Held /\ NoRows \in Rows /\ \A c \in Codes : NoRows[c] = None BY DEF NoRows, Held, Rows
  <2>3. Absent \in BatchRecord /\ Absent.status = "absent" /\ Absent.before = NoRows BY <2>2 DEF Absent, BatchRecord
  <2>4. NoTx \in TxRecord /\ NoTx.kind = "none" /\ NoTx.seen = NoRows BY <2>2 DEF NoTx, TxRecord
  <2>5. Stored(None) = None BY DEF Stored
  <2>6. MaxManual \in Nat BY BatchesAssumption DEF BatchesBounds
  <2>7. BatchesTypeOK BY <2>1, <2>2, <2>3, <2>4, <2>5, <2>6 DEF BatchesTypeOK
  <2>8. TxReads BY <2>1, <2>2, <2>4 DEF TxReads
  <2>9. BatchMemory BY <2>1, <2>2, <2>3, <2>5 DEF BatchMemory
  <2>10. Balanced
    <3> SUFFICES ASSUME NEW c \in Codes, NEW v \in Nat
        PROVE Cardinality(Returning(c, v)) + Here(c, v) = Cardinality(Storing(c, v))
      BY DEF Balanced
    <3>1. Returning(c, v) = {} /\ Storing(c, v) = {} BY <2>1, <2>3 DEF Returning, Storing
    <3>2. Here(c, v) = 0 BY <2>1, <2>2, BatchesAssumption DEF Here, BatchesBounds
    <3> QED BY <3>1, <3>2, FS_EmptySet
  <2> QED BY <2>7, <2>8, <2>9, <2>10 DEF BatchesInv
<1>2. BatchesInv /\ [BatchesNext]_batchVars => BatchesInv'
  <2> SUFFICES ASSUME BatchesInv, [BatchesNext]_batchVars PROVE BatchesInv' OBVIOUS
  <2>1. CASE \E b \in Batches : \/ \E rows \in Rows : Preview(b, rows) \/ Edit(b, rows)
                                \/ \E o \in Batches : NewRevision(b, o)
                                \/ Cancel(b)
    BY <2>1, DraftStep
  <2>2. CASE Rollback \/ \E b \in Batches : ConfirmRead(b) \/ UndoRead(b) BY <2>2, TxStep
  <2>3. CASE ConfirmWrite BY <2>3, ConfirmWriteStep
  <2>4. CASE UndoWrite BY <2>4, UndoWriteStep
  <2>5. CASE \E c \in Codes : ManualDelete(c) \/ \E v \in Vals : ManualEdit(c, v) BY <2>5, ManualStep
  <2>6. CASE UNCHANGED batchVars
    BY <2>6 DEF batchVars, BatchesInv, BatchesTypeOK, TxReads, BatchMemory, Balanced, Returning, Storing, Selected, Here
  <2> QED BY <2>1, <2>2, <2>3, <2>4, <2>5, <2>6 DEF BatchesNext
<1> QED BY <1>1, <1>2, PTL DEF BatchesSpec

\* However imports overlap and in whatever order they are undone, when none is left applied and the
\* owner edited nothing the holdings are what they were before the first, and none was applied twice.
THEOREM BatchesAreUndoable == BatchesSpec => []BatchesUndoable
<1>1. BatchesInv => BatchesUndoable
  <2> SUFFICES ASSUME BatchesInv PROVE BatchesUndoable OBVIOUS
  <2>1. AppliedOnce
    <3> SUFFICES ASSUME NEW b \in Batches PROVE applied[b] <= 1 BY DEF AppliedOnce
    <3> QED BY DEF BatchesInv, BatchMemory
  <2>2. AllUndoneRestores
    <3> SUFFICES ASSUME manual = 0, \A b \in Batches : batch[b].status # "confirmed" PROVE hold = NoRows
      BY DEF AllUndoneRestores
    <3>1. ASSUME NEW c \in Codes PROVE hold[c] = None
      <4>1. hold[c] \in Nat \cup {None} BY DEF BatchesInv, BatchesTypeOK, Held
      <4>2. ASSUME NEW v \in Nat PROVE hold[c] # v
        <5>1. Returning(c, v) = {} /\ Storing(c, v) = {} BY DEF Returning, Storing
        <5>2. Cardinality(Returning(c, v)) + Here(c, v) = Cardinality(Storing(c, v)) BY DEF BatchesInv, Balanced
        <5> QED BY <5>1, <5>2, FS_EmptySet DEF Here
      <4> QED BY <4>1, <4>2
    <3>2. hold \in Held BY DEF BatchesInv, BatchesTypeOK
    <3> QED BY <3>1, <3>2 DEF NoRows, Held
  <2> QED BY <2>1, <2>2 DEF BatchesUndoable
<1> QED BY <1>1, BatchesInvariant, PTL

\* An undo takes back only what its own batch stored, never a later batch's different value.
THEOREM UndoesTakeTheirOwn == BatchesSpec => UndoTakesOwn
<1>1. BatchesInv /\ [BatchesNext]_batchVars => [UndoOwn]_batchVars
  <2> SUFFICES ASSUME BatchesInv, BatchesNext PROVE UndoOwn BY Zenon
  <2> SUFFICES ASSUME NEW b \in DOMAIN batch, batch[b].status = "confirmed", batch'[b].status = "undone"
      PROVE \A c \in Selected(b) : hold[c] = Stored(batch[b].rows[c])
    BY DEF UndoOwn
  <2>t. batch \in [Batches -> BatchRecord] BY DEF BatchesInv, BatchesTypeOK
  <2>1. CASE UndoWrite
    <3>1. tx.batch \in Batches BY <2>1 DEF UndoWrite, BatchesInv, TxReads
    <3>2. b = tx.batch BY <2>1, <2>t, <3>1 DEF UndoWrite
    <3> QED BY <2>1, <3>2, UndoWriteStep
  <2>2. CASE ConfirmWrite
    <3>1. PICK x \in Batches : x = tx.batch BY <2>2 DEF ConfirmWrite, BatchesInv, TxReads
    <3>2. batch'[x].status = "confirmed" BY <2>2, <2>t, <3>1 DEF ConfirmWrite, BatchRecord
    <3>3. \A y \in Batches \ {x} : batch'[y] = batch[y] BY <2>2, <2>t, <3>1 DEF ConfirmWrite
    <3> QED BY <2>t, <3>2, <3>3
  <2>3. CASE UNCHANGED batch BY <2>3
  <2>4. ASSUME NEW x \in Batches,
               \/ \E rows \in Rows : Preview(x, rows) \/ Edit(x, rows)
               \/ \E o \in Batches : NewRevision(x, o)
               \/ Cancel(x)
        PROVE FALSE
    <3>1. batch[x].status \in {"absent", "preview"} BY <2>4 DEF Preview, Edit, NewRevision, Cancel, Absent
    <3>2. \A y \in Batches \ {x} : batch'[y] = batch[y] BY <2>4, <2>t DEF Preview, Edit, NewRevision, Cancel
    <3> QED BY <2>t, <3>1, <3>2
  <2>5. ASSUME NEW x \in Batches, ConfirmRead(x) \/ UndoRead(x) PROVE UNCHANGED batch
    BY <2>5 DEF ConfirmRead, UndoRead
  <2>6. ASSUME NEW c \in Codes, ManualDelete(c) \/ \E v \in Vals : ManualEdit(c, v) PROVE UNCHANGED batch
    BY <2>6 DEF ManualDelete, ManualEdit
  <2>7. CASE Rollback BY <2>3, <2>7 DEF Rollback
  <2> QED BY <2>1, <2>2, <2>3, <2>4, <2>5, <2>6, <2>7 DEF BatchesNext
<1> QED BY <1>1, BatchesInvariant, PTL DEF BatchesSpec, UndoTakesOwn

(***************************************************************************)
(* Accounts.  Whatever requests and commands overlap, an administrator     *)
(* remains, the bootstrap happens once, and sessions from before a         *)
(* revocation stay dead.                                                   *)
(*                                                                         *)
(* An operation that counts the active administrators holds the guard row  *)
(* from before it reads until it commits.  What it read stays good enough  *)
(* for that long: roles and the number of bootstraps cannot change, and    *)
(* operations without the lock only add active administrators.             *)
(***************************************************************************)

Roles == {"admin", "member"}
AccountRow == [role : Roles, status : {"active", "disabled"}, pw : 0..1, removed : BOOLEAN]
SessionRow == [u : Users, revoked : BOOLEAN, expired : BOOLEAN, reset : Nat]
Lifecycle == AdminOps \cup MemberOps \cup OwnOps \cup CliOps

\* What takes an active administrator away.
Lowering == {"disable", "off", "remove", "close", "member"}

\* A request works on an account; only the bootstrap may find none.
RequestOK(q) ==
  /\ q = [pc |-> q.pc, op |-> q.op, u |-> q.u, sid |-> q.sid, admins |-> q.admins, row |-> q.row]
  /\ q.pc \in {"idle", "issue", "lock", "read", "write"}
  /\ q.pc = "issue" => q.u \in Users
  /\ q.pc \in {"lock", "read", "write"} =>
       /\ q.u \in Users /\ q.op \in Lifecycle
       /\ q.op # "bootstrap" => Exists(q.u)
  /\ q.pc = "lock" => q.op \in Guarded

\* The guard row is held from the read to the commit.
LockHeld == \A r \in Requests : req[r].pc \in {"read", "write"} /\ req[r].op \in Guarded => guard = r

\* An operation that may still lower its account leaves another active administrator behind.
Sheltered(q) ==
  q.pc = "write" /\ q.op \in Lowering /\ Allowed(q) /\ boots > 0 =>
    user[q.u].role # "admin" \/ \E a \in ActiveAdmins : a # q.u

\* A bootstrap that may still commit is the first.
FirstBoot(q) == q.pc = "write" /\ q.op = "bootstrap" => boots = 0

Tables ==
  /\ user \in [Users -> AccountRow \cup {NoAccount}]
  /\ reset \in [Users -> Nat] /\ boots \in Nat
  /\ session \in Seq(SessionRow)

Accounted ==
  /\ Tables
  /\ guard \in Requests \cup {Free}
  /\ DOMAIN req = Requests /\ \A r \in Requests : RequestOK(req[r])

SessionsCounted ==
  \A i \in DOMAIN session : /\ session[i].reset <= reset[session[i].u]
                            /\ ~session[i].revoked => session[i].reset = reset[session[i].u]

Checked == \A r \in Requests : Sheltered(req[r]) /\ FirstBoot(req[r])

\* The inductive invariant.
AccountsInv ==
  /\ Accounted /\ LockHeld /\ SessionsCounted /\ Checked
  /\ AdminRemains /\ BootstrapOnce

-----------------------------------------------------------------------------
(* What operations leave alone.                                             *)

\* No account disappears.
Remain == \A u \in Users : Exists(u) => user'[u] # NoAccount

\* Roles stay and nobody is disabled, as under every operation that takes no lock.
Grows ==
  /\ \A u \in Users : Exists(u) => user'[u].role = user[u].role
  /\ \A u \in ActiveAdmins : user'[u].role = "admin" /\ user'[u].status = "active"
  /\ boots' = boots

\* A request that holds the lock and is past its read.
Working(q) == q.pc = "write" /\ q.op \in Guarded

\* A request that takes the step.
Moved(t, q) ==
  /\ RequestOK(q)' /\ Sheltered(q)' /\ FirstBoot(q)'
  /\ q.pc \in {"read", "write"} /\ q.op \in Guarded => guard' = t

\* The operations that lower an account are among those that take the lock.
LEMMA LoweringGuarded == Lowering \subseteq Guarded /\ "bootstrap" \in Guarded /\ Guarded \subseteq Lifecycle
BY DEF Lowering, Guarded, MemberOps, Lifecycle, AdminOps, OwnOps, CliOps

\* Requests that do not move keep what they know while accounts only grow.
LEMMA Waits ==
  ASSUME Tables, NEW q, RequestOK(q), Sheltered(q), FirstBoot(q), Remain, Working(q) => Grows
  PROVE  RequestOK(q)' /\ Sheltered(q)' /\ FirstBoot(q)'
<1>1. RequestOK(q)'
  BY DEF RequestOK, Remain, Exists
<1>2. Sheltered(q)'
  <2> SUFFICES ASSUME q.pc = "write", q.op \in Lowering, Allowed(q), boots' > 0
               PROVE  user'[q.u].role # "admin" \/ \E a \in ActiveAdmins' : a # q.u
    BY DEF Sheltered, Allowed, MayDisable, MayChangeRole
  <2>1. Grows
    BY LoweringGuarded DEF Working
  <2>2. q.u \in Users /\ Exists(q.u)
    BY DEF RequestOK, Lowering
  <2>3. user[q.u].role # "admin" \/ \E a \in ActiveAdmins : a # q.u
    BY <2>1 DEF Sheltered, Grows
  <2>4. user'[q.u].role = user[q.u].role /\ \A a \in ActiveAdmins : a \in ActiveAdmins'
    BY <2>1, <2>2 DEF Grows, ActiveAdmins
  <2> QED
    BY <2>3, <2>4
<1>3. FirstBoot(q)'
  BY LoweringGuarded DEF FirstBoot, Working, Grows
<1> QED
  BY <1>1, <1>2, <1>3

\* Every step moves some requests and leaves the others what they were.
LEMMA StepKeeps ==
  ASSUME AccountsInv, NEW Q, req' = Q, DOMAIN Q = Requests,
         Tables', SessionsCounted', AdminRemains', BootstrapOnce', Remain,
         guard' \in Requests \cup {Free},
         \A t \in Requests : \/ /\ Q[t] = req[t]
                                /\ guard = t => guard' = t
                                /\ Working(req[t]) => Grows
                             \/ Moved(t, Q[t])
  PROVE  AccountsInv'
<1>1. ASSUME NEW t \in Requests
      PROVE  /\ RequestOK(Q[t])' /\ Sheltered(Q[t])' /\ FirstBoot(Q[t])'
             /\ Q[t].pc \in {"read", "write"} /\ Q[t].op \in Guarded => guard' = t
  <2>1. CASE Moved(t, Q[t])
    BY <2>1 DEF Moved
  <2>2. CASE Q[t] = req[t] /\ (guard = t => guard' = t) /\ (Working(req[t]) => Grows)
    <3>1. RequestOK(req[t]) /\ Sheltered(req[t]) /\ FirstBoot(req[t]) /\ Tables
      BY DEF AccountsInv, Accounted, Checked
    <3>2. RequestOK(Q[t]) /\ Sheltered(Q[t]) /\ FirstBoot(Q[t]) /\ (Working(Q[t]) => Grows)
      BY <2>2, <3>1
    <3>3. RequestOK(Q[t])' /\ Sheltered(Q[t])' /\ FirstBoot(Q[t])'
      BY <3>1, <3>2, Waits
    <3>4. Q[t].pc \in {"read", "write"} /\ Q[t].op \in Guarded => guard' = t
      BY <2>2 DEF AccountsInv, LockHeld
    <3> QED
      BY <3>3, <3>4
  <2> QED
    BY <2>1, <2>2
<1>2. Accounted'
  BY <1>1 DEF Accounted, RequestOK, Exists
<1>3. LockHeld'
  BY <1>1 DEF LockHeld
<1>4. Checked'
  BY <1>1 DEF Checked, Sheltered, FirstBoot
<1> QED
  BY <1>2, <1>3, <1>4 DEF AccountsInv

\* Some administrator remains while accounts only grow.
LEMMA AdminsStay == ASSUME AccountsInv, Grows PROVE AdminRemains' /\ BootstrapOnce'
  BY DEF AccountsInv, AdminRemains, BootstrapOnce, Grows, ActiveAdmins, Accounted, Tables

\* A step of one request that changes no account.
LEMMA QuietStep ==
  ASSUME AccountsInv, NEW r \in Requests, NEW x, req' = [req EXCEPT ![r] = x], UNCHANGED <<user, boots>>,
         Tables', SessionsCounted', guard' \in Requests \cup {Free},
         \A t \in Requests \ {r} : guard = t => guard' = t,
         Moved(r, x)
  PROVE  AccountsInv'
<1>1. Remain /\ Grows
  BY DEF Remain, Grows, ActiveAdmins, Exists
<1>2. AdminRemains' /\ BootstrapOnce'
  BY <1>1, AdminsStay
<1>3. PICK Q : Q = [req EXCEPT ![r] = x]
  OBVIOUS
<1>4. DOMAIN Q = Requests /\ req' = Q /\ Q[r] = x /\ \A t \in Requests \ {r} : Q[t] = req[t]
  BY <1>3 DEF AccountsInv, Accounted
<1>5. ASSUME NEW t \in Requests
      PROVE  \/ Q[t] = req[t] /\ (guard = t => guard' = t) /\ (Working(req[t]) => Grows)
             \/ Moved(t, Q[t])
  <2>1. CASE t = r
    BY <1>4, <2>1
  <2>2. CASE t # r
    BY <1>1, <1>4, <2>2
  <2> QED
    BY <2>1, <2>2
<1> QED
  BY <1>1, <1>2, <1>4, <1>5, StepKeeps

\* A request at rest knows nothing.
LEMMA Rests == ASSUME NEW r PROVE Moved(r, Idle)
  BY DEF Moved, RequestOK, Sheltered, FirstBoot, Idle

\* A request that is to issue a session knows its account.
LEMMA WillIssue ==
  ASSUME NEW r, NEW u \in Users
  PROVE  Moved(r, [Idle EXCEPT !.pc = "issue", !.op = "login", !.u = u])
<1>1. PICK x : x = [Idle EXCEPT !.pc = "issue", !.op = "login", !.u = u]
  OBVIOUS
<1>2. x = [pc |-> "issue", op |-> "login", u |-> u, sid |-> 0, admins |-> 0, row |-> NoAccount]
  BY <1>1 DEF Idle
<1>3. Moved(r, x)
  BY <1>2 DEF Moved, RequestOK, Sheltered, FirstBoot
<1> QED
  BY <1>1, <1>3

\* Without a change of sessions and revocations, the sessions stay counted.
LEMMA SameSessions ==
  ASSUME AccountsInv, UNCHANGED <<session, reset>>
  PROVE  SessionsCounted' /\ session' \in Seq(SessionRow) /\ reset' \in [Users -> Nat]
  BY DEF AccountsInv, Accounted, Tables, SessionsCounted

\* login: the session follows.
LEMMA LoginReadStep == ASSUME AccountsInv, NEW r \in Requests, NEW u \in Users, LoginRead(r, u) PROVE AccountsInv'
<1>1. req' = [req EXCEPT ![r] = [Idle EXCEPT !.pc = "issue", !.op = "login", !.u = u]]
      /\ UNCHANGED <<user, session, guard, reset, boots>>
  BY DEF LoginRead
<1>2. Tables' /\ SessionsCounted' /\ guard' \in Requests \cup {Free}
  BY <1>1, SameSessions DEF AccountsInv, Accounted, Tables
<1> QED
  BY <1>1, <1>2, WillIssue, QuietStep

\* A session is issued with the number of revocations so far.
LEMMA IssueStep == ASSUME AccountsInv, NEW r \in Requests, Issue(r) PROVE AccountsInv'
<1> DEFINE u == req[r].u
           new == [u |-> u, revoked |-> FALSE, expired |-> FALSE, reset |-> reset[u]]
<1>1. req' = [req EXCEPT ![r] = Idle] /\ session' = Append(session, new) /\ UNCHANGED <<user, guard, reset, boots>>
  BY DEF Issue, CreateSession
<1>2. u \in Users
  BY DEF Issue, AccountsInv, Accounted, RequestOK
<1>3. new \in SessionRow /\ session \in Seq(SessionRow) /\ reset[u] \in Nat
  BY <1>2 DEF SessionRow, AccountsInv, Accounted, Tables
<1>4. /\ session' \in Seq(SessionRow) /\ DOMAIN session' = 1..(Len(session) + 1)
      /\ \A i \in 1..Len(session) : session'[i] = session[i]
      /\ session'[Len(session) + 1] = new
  BY <1>1, <1>3, AppendProperties
<1>5. Tables'
  BY <1>1, <1>4 DEF AccountsInv, Accounted, Tables
<1>6. SessionsCounted'
  <2> SUFFICES ASSUME NEW i \in DOMAIN session'
               PROVE  /\ session'[i].reset <= reset[session'[i].u]
                      /\ ~session'[i].revoked => session'[i].reset = reset[session'[i].u]
    BY <1>1 DEF SessionsCounted
  <2>1. CASE i \in DOMAIN session
    BY <1>3, <1>4, <2>1 DEF AccountsInv, SessionsCounted
  <2>2. CASE i = Len(session) + 1
    BY <1>3, <1>4, <2>2
  <2> QED
    BY <1>3, <1>4, <2>1, <2>2
<1> HIDE DEF u, new
<1> QED
  BY <1>1, <1>5, <1>6, Rests, QuietStep DEF AccountsInv, Accounted

\* A session that ends, is revoked or expires was counted and stays so.
LEMMA SessionEnds ==
  ASSUME AccountsInv, NEW i \in DOMAIN session, Logout(i) \/ Expire(i)
  PROVE  AccountsInv'
<1>1. PICK s : /\ session' = [session EXCEPT ![i] = s] /\ s \in SessionRow
               /\ s.u = session[i].u /\ s.reset = session[i].reset
               /\ ~s.revoked => ~session[i].revoked
  <2>1. session[i] \in SessionRow
    BY DEF AccountsInv, Accounted, Tables
  <2>2. CASE Logout(i)
    <3> DEFINE new == [session[i] EXCEPT !.revoked = TRUE]
    <3>1. session' = [session EXCEPT ![i] = new]
      BY <2>2 DEF Logout
    <3>2. new \in SessionRow /\ new.u = session[i].u /\ new.reset = session[i].reset /\ new.revoked
      BY <2>1 DEF SessionRow
    <3> HIDE DEF new
    <3> QED
      BY <3>1, <3>2
  <2>3. CASE Expire(i)
    <3> DEFINE new == [session[i] EXCEPT !.expired = TRUE]
    <3>1. session' = [session EXCEPT ![i] = new]
      BY <2>3 DEF Expire
    <3>2. new \in SessionRow /\ new.u = session[i].u /\ new.reset = session[i].reset /\ new.revoked = session[i].revoked
      BY <2>1 DEF SessionRow
    <3> HIDE DEF new
    <3> QED
      BY <3>1, <3>2
  <2> QED
    BY <2>2, <2>3
<1>2. UNCHANGED <<user, guard, req, reset, boots>>
  BY DEF Logout, Expire
<1>3. session \in Seq(SessionRow) /\ session' \in Seq(SessionRow) /\ DOMAIN session' = DOMAIN session
      /\ session'[i] = s /\ \A j \in DOMAIN session \ {i} : session'[j] = session[j]
  BY <1>1, ExceptSeq DEF AccountsInv, Accounted, Tables
<1>4. Tables'
  BY <1>2, <1>3 DEF AccountsInv, Accounted, Tables
<1>5. SessionsCounted'
  BY <1>1, <1>2, <1>3 DEF AccountsInv, SessionsCounted
<1>6. Remain /\ Grows
  BY <1>2 DEF Remain, Grows, ActiveAdmins, Exists
<1>7. AdminRemains' /\ BootstrapOnce'
  BY <1>6, AdminsStay
<1>8. PICK Q : Q = req
  OBVIOUS
<1> QED
  BY <1>2, <1>4, <1>5, <1>6, <1>7, <1>8, StepKeeps DEF AccountsInv, Accounted

\* An account is enrolled: a new row, and nothing else of what requests know changes.
LEMMA EnrolKeeps ==
  ASSUME AccountsInv, NEW u \in Users, ~Exists(u), NEW role \in Roles,
         user' = [user EXCEPT ![u] = NewUser(role)], UNCHANGED <<session, reset, boots>>
  PROVE  Tables' /\ SessionsCounted' /\ Remain /\ Grows /\ AdminRemains' /\ BootstrapOnce'
<1>1. NewUser(role) \in AccountRow
  <2>1. NewUser(role) = [role |-> role, status |-> "active", pw |-> 0, removed |-> FALSE]
    BY DEF NewUser
  <2>2. 0 \in 0..1
    OBVIOUS
  <2> QED
    BY <2>1, <2>2 DEF AccountRow
<1>2. Tables' /\ SessionsCounted'
  BY <1>1, SameSessions DEF AccountsInv, Accounted, Tables
<1>3. \A v \in Users : v # u => user'[v] = user[v]
  BY DEF AccountsInv, Accounted, Tables
<1>4. user[u] = NoAccount /\ u \notin ActiveAdmins
  BY DEF Exists, ActiveAdmins, NoAccount
<1>5. Remain
  BY <1>3, <1>4 DEF Remain, Exists
<1>6. Grows
  BY <1>3, <1>4 DEF Grows, Exists, ActiveAdmins
<1> QED
  BY <1>2, <1>5, <1>6, AdminsStay

\* register: the member first, its session follows.
LEMMA RegisterStep == ASSUME AccountsInv, NEW r \in Requests, NEW u \in Users, Register(r, u) PROVE AccountsInv'
<1>1. PICK x : x = [Idle EXCEPT !.pc = "issue", !.op = "login", !.u = u]
  OBVIOUS
<1>2. PICK Q : Q = [req EXCEPT ![r] = x]
  OBVIOUS
<1>3. req' = Q /\ ~Exists(u) /\ user' = [user EXCEPT ![u] = NewUser("member")] /\ UNCHANGED <<session, guard, reset, boots>>
  BY <1>1, <1>2 DEF Register
<1>4. Tables' /\ SessionsCounted' /\ Remain /\ Grows /\ AdminRemains' /\ BootstrapOnce'
  BY <1>3, EnrolKeeps DEF Roles
<1>5. Moved(r, x)
  BY <1>1, WillIssue
<1>6. DOMAIN Q = Requests /\ Q[r] = x /\ \A t \in Requests \ {r} : Q[t] = req[t]
  BY <1>2 DEF AccountsInv, Accounted
<1>7. guard' \in Requests \cup {Free}
  BY <1>3 DEF AccountsInv, Accounted
<1>8. ASSUME NEW t \in Requests
      PROVE  \/ Q[t] = req[t] /\ (guard = t => guard' = t) /\ (Working(req[t]) => Grows)
             \/ Moved(t, Q[t])
  <2>1. CASE t = r
    BY <1>5, <1>6, <2>1
  <2>2. CASE t # r
    BY <1>3, <1>4, <1>6, <2>2
  <2> QED
    BY <2>1, <2>2
<1> QED
  BY <1>3, <1>4, <1>6, <1>7, <1>8, StepKeeps

\* An administrator enrols an account.
LEMMA CreateStep ==
  ASSUME AccountsInv, NEW r \in Requests, NEW u \in Users, NEW sid, NEW role \in Roles, Create(r, sid, u, role)
  PROVE  AccountsInv'
<1>1. ~Exists(u) /\ user' = [user EXCEPT ![u] = NewUser(role)] /\ UNCHANGED <<session, guard, req, reset, boots>>
  BY DEF Create
<1>2. Tables' /\ SessionsCounted' /\ Remain /\ Grows /\ AdminRemains' /\ BootstrapOnce'
  BY <1>1, EnrolKeeps
<1>3. PICK Q : Q = req
  OBVIOUS
<1>4. req' = Q /\ DOMAIN Q = Requests /\ guard' \in Requests \cup {Free} /\ guard' = guard
      /\ \A t \in Requests : Q[t] = req[t]
  BY <1>1, <1>3 DEF AccountsInv, Accounted
<1> QED
  BY <1>2, <1>4, StepKeeps

\* A lifecycle operation begins, on an account that exists.
LEMMA BeginStep ==
  ASSUME AccountsInv, NEW r \in Requests, NEW u \in Users, NEW sid, NEW op \in Lifecycle, Begin(r, op, sid, u)
  PROVE  AccountsInv'
<1>1. PICK x : x = [pc |-> IF op \in Guarded THEN "lock" ELSE "read", op |-> op, u |-> u, sid |-> sid,
                    admins |-> 0, row |-> NoAccount]
  OBVIOUS
<1>2. req' = [req EXCEPT ![r] = x] /\ UNCHANGED <<user, session, guard, reset, boots>> /\ (op = "bootstrap" \/ Exists(u))
  BY <1>1 DEF Begin
<1>3. x.u = u /\ x.op = op /\ x.pc = IF op \in Guarded THEN "lock" ELSE "read"
  BY <1>1
<1>4. Moved(r, x)
  <2>1. x.pc \in {"lock", "read"} /\ (x.pc = "lock" <=> op \in Guarded)
    BY <1>3
  <2>2. RequestOK(x)'
    <3>1. x = [pc |-> x.pc, op |-> x.op, u |-> x.u, sid |-> x.sid, admins |-> x.admins, row |-> x.row]
      BY <1>1
    <3> QED
      BY <1>2, <1>3, <2>1, <3>1 DEF RequestOK, Exists
  <2>3. Sheltered(x)' /\ FirstBoot(x)'
    BY <2>1 DEF Sheltered, FirstBoot
  <2> QED
    BY <1>3, <2>1, <2>2, <2>3 DEF Moved
<1>5. Tables' /\ SessionsCounted' /\ guard' \in Requests \cup {Free}
  BY <1>2, SameSessions DEF AccountsInv, Accounted, Tables
<1> QED
  BY <1>2, <1>4, <1>5, QuietStep

\* The guard row is taken by a request that has it to itself.
LEMMA LockStep == ASSUME AccountsInv, NEW r \in Requests, Lock(r) PROVE AccountsInv'
<1>1. PICK x : x = [req[r] EXCEPT !.pc = "read"]
  OBVIOUS
<1>2. req' = [req EXCEPT ![r] = x] /\ UNCHANGED <<user, session, reset, boots>> /\ guard' = r /\ guard = Free
      /\ req[r].pc = "lock"
  BY <1>1 DEF Lock
<1>3. RequestOK(req[r])
  BY DEF AccountsInv, Accounted
<1>4. /\ x.pc = "read" /\ x.u = req[r].u /\ x.op = req[r].op
      /\ x = [pc |-> x.pc, op |-> x.op, u |-> x.u, sid |-> x.sid, admins |-> x.admins, row |-> x.row]
  <2>1. PICK q : q = req[r]
    OBVIOUS
  <2>2. q = [pc |-> q.pc, op |-> q.op, u |-> q.u, sid |-> q.sid, admins |-> q.admins, row |-> q.row]
    BY <1>3, <2>1 DEF RequestOK
  <2> QED
    BY <1>1, <2>1, <2>2
<1>5. Moved(r, x)
  <2>1. RequestOK(x)'
    BY <1>2, <1>3, <1>4 DEF RequestOK, Exists
  <2>2. Sheltered(x)' /\ FirstBoot(x)'
    BY <1>4 DEF Sheltered, FirstBoot
  <2> QED
    BY <1>2, <2>1, <2>2 DEF Moved
<1>6. Tables' /\ SessionsCounted' /\ guard' \in Requests \cup {Free}
  BY <1>2, SameSessions DEF AccountsInv, Accounted, Tables
<1>7. \A t \in Requests \ {r} : guard = t => guard' = t
  BY <1>2, AccountsAssumed DEF AccountsAssumption, Free
<1> QED
  BY <1>2, <1>5, <1>6, <1>7, QuietStep

\* More than one active administrator: another one than u.
LEMMA SecondAdmin ==
  ASSUME NEW u, Cardinality(ActiveAdmins) > 1
  PROVE  \E a \in ActiveAdmins : a # u
<1> SUFFICES ASSUME \A a \in ActiveAdmins : a = u PROVE FALSE
  OBVIOUS
<1>1. ActiveAdmins = {} \/ ActiveAdmins = {u}
  OBVIOUS
<1>2. Cardinality({}) = 0 /\ Cardinality({u}) = 1
  BY FS_EmptySet, FS_Singleton
<1> QED
  BY <1>1, <1>2

\* What an operation reads under the lock protects the last active administrator.
LEMMA ReadShelters ==
  ASSUME NEW q, q.op \in Lowering, Allowed(q), q.row = user[q.u], q.admins = Cardinality(ActiveAdmins),
         ActiveAdmins # {}, q.u \in Users
  PROVE  user[q.u].role # "admin" \/ \E a \in ActiveAdmins : a # q.u
<1>1. CASE q.row.role # "admin"
  BY <1>1
<1>2. CASE q.admins > 1
  BY <1>2, SecondAdmin
<1>3. CASE q.row.status = "disabled"
  <2>1. q.u \notin ActiveAdmins
    BY <1>3 DEF ActiveAdmins
  <2> QED
    BY <2>1
<1>4. MayDisable(q) \/ (q.op = "member" /\ MayChangeRole(q))
  BY DEF Allowed, Lowering
<1> QED
  BY <1>1, <1>2, <1>3, <1>4 DEF MayDisable, MayChangeRole

\* What an operation reads before it writes.
LEMMA ReadStep == ASSUME AccountsInv, NEW r \in Requests, Read(r) PROVE AccountsInv'
<1>1. PICK q : q = req[r]
  OBVIOUS
<1>2. RequestOK(q) /\ q.pc = "read" /\ UNCHANGED <<user, session, reset, boots>>
  BY <1>1 DEF Read, AccountsInv, Accounted
<1>3. Tables' /\ SessionsCounted'
  BY <1>2, SameSessions DEF AccountsInv, Accounted, Tables
<1>4. CASE req' = [req EXCEPT ![r] = Idle] /\ guard' = IF guard = r THEN Free ELSE guard
  <2>1. guard' \in Requests \cup {Free} /\ \A t \in Requests \ {r} : guard = t => guard' = t
    BY <1>4 DEF AccountsInv, Accounted
  <2> QED
    BY <1>2, <1>3, <1>4, <2>1, Rests, QuietStep
<1>5. CASE /\ req' = [req EXCEPT ![r] = [q EXCEPT !.pc = "write", !.admins = Cardinality(ActiveAdmins), !.row = user[q.u]]]
           /\ guard' = guard
           /\ q.op = "bootstrap" => \A u \in Users : ~Exists(u)
  <2>1. PICK x : x = [q EXCEPT !.pc = "write", !.admins = Cardinality(ActiveAdmins), !.row = user[q.u]]
    OBVIOUS
  <2>2. /\ x = [pc |-> "write", op |-> q.op, u |-> q.u, sid |-> q.sid,
                admins |-> Cardinality(ActiveAdmins), row |-> user[q.u]]
    <3>1. q = [pc |-> q.pc, op |-> q.op, u |-> q.u, sid |-> q.sid, admins |-> q.admins, row |-> q.row]
      BY <1>2 DEF RequestOK
    <3> QED
      BY <2>1, <3>1
  <2>3. /\ x.pc = "write" /\ x.op = q.op /\ x.u = q.u /\ x.admins = Cardinality(ActiveAdmins) /\ x.row = user[x.u]
        /\ x = [pc |-> x.pc, op |-> x.op, u |-> x.u, sid |-> x.sid, admins |-> x.admins, row |-> x.row]
    BY <2>2
  <2>4. RequestOK(x)'
    BY <1>2, <2>3 DEF RequestOK, Exists
  <2>5. Sheltered(x)
    <3> SUFFICES ASSUME x.op \in Lowering, Allowed(x), boots > 0
                 PROVE  user[x.u].role # "admin" \/ \E a \in ActiveAdmins : a # x.u
      BY DEF Sheltered
    <3>1. ActiveAdmins # {} /\ x.u \in Users
      BY <1>2, <2>3 DEF AccountsInv, AdminRemains, RequestOK
    <3> QED
      BY <2>3, <3>1, ReadShelters
  <2>6. FirstBoot(x)
    <3>1. ASSUME x.op = "bootstrap", boots > 0 PROVE FALSE
      <4>1. PICK a \in Users : user[a].role = "admin"
        BY <3>1 DEF AccountsInv, AdminRemains, ActiveAdmins
      <4> QED
        BY <1>5, <2>3, <3>1, <4>1 DEF Exists, NoAccount
    <3> QED
      BY <3>1 DEF FirstBoot, AccountsInv, Accounted, Tables
  <2>7. Sheltered(x)' /\ FirstBoot(x)'
    BY <1>2, <2>5, <2>6 DEF Sheltered, FirstBoot, ActiveAdmins
  <2>8. x.op \in Guarded => guard' = r
    BY <1>1, <1>2, <1>5, <2>3 DEF AccountsInv, LockHeld
  <2>9. Moved(r, x)
    BY <2>3, <2>4, <2>7, <2>8 DEF Moved
  <2> QED
    BY <1>2, <1>3, <1>5, <2>1, <2>9, QuietStep DEF AccountsInv, Accounted
<1> QED
  BY <1>1, <1>4, <1>5 DEF Read

\* The row an operation leaves is a row; what it does not say it does not do.
LEMMA ChangedIs ==
  ASSUME NEW q, NEW x \in AccountRow, q.op \in Lifecycle, q.op # "bootstrap"
  PROVE  /\ Changed(q, x) \in AccountRow
         /\ q.op \notin Lowering /\ x.role = "admin" => Changed(q, x).role = "admin"
         /\ q.op \notin Lowering /\ x.status = "active" => Changed(q, x).status = "active"
         /\ q.op \notin Guarded => Changed(q, x).role = x.role
<1> DEFINE y == Changed(q, x)
<1>1. x = [role |-> x.role, status |-> x.status, pw |-> x.pw, removed |-> x.removed]
      /\ x.role \in Roles /\ x.status \in {"active", "disabled"} /\ x.pw \in 0..1 /\ x.removed \in BOOLEAN
  BY DEF AccountRow
<1>2. CASE q.op \in {"disable", "off", "close"}
  <2>1. y = [role |-> x.role, status |-> "disabled", pw |-> x.pw, removed |-> x.removed]
    BY <1>1, <1>2 DEF Changed
  <2> HIDE DEF y
  <2> QED
    BY <1>1, <1>2, <2>1 DEF AccountRow, Lowering, Guarded, y
<1>3. CASE q.op = "remove"
  <2>1. y = [role |-> x.role, status |-> "disabled", pw |-> x.pw, removed |-> TRUE]
    BY <1>1, <1>3 DEF Changed
  <2> HIDE DEF y
  <2> QED
    BY <1>1, <1>3, <2>1 DEF AccountRow, Lowering, Guarded, MemberOps, y
<1>4. CASE q.op \in {"member", "admin"}
  <2>1. y = [role |-> q.op, status |-> x.status, pw |-> x.pw, removed |-> x.removed]
    BY <1>1, <1>4 DEF Changed
  <2> HIDE DEF y
  <2> QED
    BY <1>1, <1>4, <2>1 DEF AccountRow, Lowering, Guarded, MemberOps, Roles, y
<1>5. CASE q.op = "promote"
  <2>1. y = [role |-> "admin", status |-> x.status, pw |-> x.pw, removed |-> x.removed]
    BY <1>1, <1>5 DEF Changed
  <2> HIDE DEF y
  <2> QED
    BY <1>1, <1>5, <2>1 DEF AccountRow, Guarded, Roles, y
<1>6. CASE q.op = "reactivate"
  <2>1. y = [role |-> x.role, status |-> "active", pw |-> x.pw, removed |-> x.removed]
    BY <1>1, <1>6 DEF Changed
  <2> HIDE DEF y
  <2> QED
    BY <1>1, <2>1 DEF AccountRow, y
<1>7. CASE q.op \in {"on", "restore"}
  <2>1. y = [role |-> x.role, status |-> "active", pw |-> x.pw, removed |-> FALSE]
    BY <1>1, <1>7 DEF Changed
  <2> HIDE DEF y
  <2> QED
    BY <1>1, <2>1 DEF AccountRow, y
<1>8. CASE q.op \in {"reset", "password"}
  <2>1. y = [role |-> x.role, status |-> x.status, pw |-> 1 - x.pw, removed |-> x.removed]
    BY <1>1, <1>8 DEF Changed
  <2>2. 1 - x.pw \in 0..1
    BY <1>1
  <2> HIDE DEF y
  <2> QED
    BY <1>1, <2>1, <2>2 DEF AccountRow, y
<1>9. q.op \in {"disable", "off", "close", "remove", "member", "admin", "promote", "reactivate", "on", "restore",
                "reset", "password"}
  BY DEF Lifecycle, AdminOps, MemberOps, OwnOps, CliOps
<1> QED
  BY <1>2, <1>3, <1>4, <1>5, <1>6, <1>7, <1>8, <1>9

\* Sessions of the account are revoked and the revocation is counted, or neither.
LEMMA RevocationCounts ==
  ASSUME AccountsInv, NEW u \in Users,
         \/ session' = Revoked(session, u) /\ reset' = [reset EXCEPT ![u] = @ + 1]
         \/ UNCHANGED <<session, reset>>
  PROVE  SessionsCounted' /\ session' \in Seq(SessionRow) /\ reset' \in [Users -> Nat]
<1>1. CASE UNCHANGED <<session, reset>>
  BY <1>1, SameSessions
<1>2. CASE session' = Revoked(session, u) /\ reset' = [reset EXCEPT ![u] = @ + 1]
  <2>1. session \in Seq(SessionRow) /\ reset \in [Users -> Nat] /\ DOMAIN session = 1..Len(session) /\ Len(session) \in Nat
    BY DEF AccountsInv, Accounted, Tables
  <2>2. DOMAIN session' = DOMAIN session
    BY <1>2 DEF Revoked
  <2>3. ASSUME NEW i \in DOMAIN session
        PROVE  /\ session'[i] \in SessionRow /\ session'[i].u = session[i].u /\ session'[i].reset = session[i].reset
               /\ session[i].u = u => session'[i].revoked
               /\ session[i].u # u => session'[i] = session[i]
    <3>1. PICK s \in SessionRow : s = session[i]
      BY <2>1
    <3>2. session'[i] = IF s.u = u THEN [s EXCEPT !.revoked = TRUE] ELSE s
      BY <1>2, <3>1 DEF Revoked
    <3>3. CASE s.u = u
      <4>1. session'[i] = [u |-> s.u, revoked |-> TRUE, expired |-> s.expired, reset |-> s.reset]
        BY <3>2, <3>3 DEF SessionRow
      <4> QED
        BY <3>1, <3>3, <4>1 DEF SessionRow
    <3>4. CASE s.u # u
      BY <3>1, <3>2, <3>4
    <3> QED
      BY <3>3, <3>4
  <2>4. session' \in Seq(SessionRow)
    <3>1. session' = [i \in 1..Len(session) |-> session'[i]]
      BY <1>2, <2>1 DEF Revoked
    <3>2. session' \in [1..Len(session) -> SessionRow]
      BY <2>1, <2>3, <3>1
    <3> QED
      BY <2>1, <3>2, SeqDef
  <2>5. reset' \in [Users -> Nat] /\ reset'[u] = reset[u] + 1 /\ \A v \in Users : v # u => reset'[v] = reset[v]
    BY <1>2, <2>1
  <2>6. SessionsCounted'
    <3> SUFFICES ASSUME NEW i \in DOMAIN session
                 PROVE  /\ session'[i].reset <= reset'[session'[i].u]
                        /\ ~session'[i].revoked => session'[i].reset = reset'[session'[i].u]
      BY <2>2 DEF SessionsCounted
    <3>1. /\ session[i].reset <= reset[session[i].u]
          /\ ~session[i].revoked => session[i].reset = reset[session[i].u]
      BY DEF AccountsInv, SessionsCounted
    <3>2. session[i].u \in Users /\ session[i].reset \in Nat /\ reset[session[i].u] \in Nat
      <4>1. session[i] \in SessionRow
        BY <2>1
      <4>2. session[i].u \in Users /\ session[i].reset \in Nat
        BY <4>1 DEF SessionRow
      <4> QED
        BY <2>1, <4>2
    <3>3. CASE session[i].u = u
      BY <2>3, <2>5, <3>1, <3>2, <3>3
    <3>4. CASE session[i].u # u
      BY <2>3, <2>5, <3>1, <3>2, <3>4
    <3> QED
      BY <3>3, <3>4
  <2> QED
    BY <2>4, <2>5, <2>6
<1> QED
  BY <1>1, <1>2

\* An operation commits.
LEMMA WriteStep == ASSUME AccountsInv, NEW r \in Requests, Write(r) PROVE AccountsInv'
<1>1. PICK q : q = req[r]
  OBVIOUS
<1>2. RequestOK(q) /\ q.pc = "write" /\ q.u \in Users /\ q.op \in Lifecycle /\ Sheltered(q) /\ FirstBoot(q)
  BY <1>1 DEF Write, AccountsInv, Accounted, RequestOK, Checked
<1>3. req' = [req EXCEPT ![r] = Idle] /\ guard' = IF guard = r THEN Free ELSE guard
  BY DEF Write
<1>4. guard' \in Requests \cup {Free} /\ \A t \in Requests \ {r} : guard = t => guard' = t
  BY <1>3 DEF AccountsInv, Accounted
<1>5. CASE UNCHANGED <<user, session, reset, boots>>
  <2>1. Tables' /\ SessionsCounted'
    BY <1>5, SameSessions DEF AccountsInv, Accounted, Tables
  <2> QED
    BY <1>3, <1>4, <1>5, <2>1, Rests, QuietStep
<1>6. CASE Allowed(q) /\ (q.op = "bootstrap" => ~Exists(q.u)) /\ ~UNCHANGED <<user, session, reset, boots>>
  <2> DEFINE y == Changed(q, user[q.u])
  <2>1. /\ user' = [user EXCEPT ![q.u] = y]
        /\ \/ session' = Revoked(session, q.u) /\ reset' = [reset EXCEPT ![q.u] = @ + 1]
           \/ UNCHANGED <<session, reset>>
        /\ boots' = IF q.op = "bootstrap" THEN boots + 1 ELSE boots
    BY <1>1, <1>6 DEF Write
  <2>2. SessionsCounted' /\ session' \in Seq(SessionRow) /\ reset' \in [Users -> Nat]
    BY <1>2, <2>1, RevocationCounts
  <2>3. /\ y \in AccountRow
        /\ q.op = "bootstrap" => y.role = "admin" /\ y.status = "active"
        /\ q.op \notin Lowering /\ user[q.u].role = "admin" => y.role = "admin"
        /\ q.op \notin Lowering /\ user[q.u].status = "active" => y.status = "active"
        /\ q.op \notin Guarded => y.role = user[q.u].role
    <3>1. CASE q.op = "bootstrap"
      <4>1. y = [role |-> "admin", status |-> "active", pw |-> 0, removed |-> FALSE]
        BY <3>1 DEF Changed, NewUser
      <4>2. 0 \in 0..1
        OBVIOUS
      <4>3. y \in AccountRow
        BY <4>1, <4>2 DEF AccountRow, Roles
      <4> HIDE DEF y
      <4> QED
        BY <3>1, <4>1, <4>3, LoweringGuarded
    <3>2. CASE q.op # "bootstrap"
      <4>1. user[q.u] \in AccountRow
        BY <1>2, <3>2 DEF AccountsInv, Accounted, Tables, RequestOK, Exists
      <4>2. /\ y \in AccountRow
            /\ q.op \notin Lowering /\ user[q.u].role = "admin" => y.role = "admin"
            /\ q.op \notin Lowering /\ user[q.u].status = "active" => y.status = "active"
            /\ q.op \notin Guarded => y.role = user[q.u].role
        BY <1>2, <3>2, <4>1, ChangedIs
      <4> QED
        BY <3>2, <4>2
    <3> QED
      BY <3>1, <3>2
  <2> HIDE DEF y
  <2>4. user'[q.u] = y /\ \A v \in Users : v # q.u => user'[v] = user[v]
    BY <1>2, <2>1 DEF AccountsInv, Accounted, Tables
  <2>5. Tables'
    <3>1. user' \in [Users -> AccountRow \cup {NoAccount}]
      BY <2>1, <2>3 DEF AccountsInv, Accounted, Tables
    <3>2. boots' \in Nat
      BY <2>1 DEF AccountsInv, Accounted, Tables
    <3> QED
      BY <2>2, <3>1, <3>2 DEF Tables
  <2>6. Remain
    <3>1. y # NoAccount
      BY <2>3 DEF AccountRow, NoAccount, Roles
    <3> QED
      BY <2>4, <3>1 DEF Remain, Exists
  <2>7. q.op \notin Lowering => \A a \in ActiveAdmins : user'[a].role = "admin" /\ user'[a].status = "active"
    BY <2>3, <2>4 DEF ActiveAdmins
  <2>8. q.op \notin Guarded => Grows
    <3>1. SUFFICES ASSUME q.op \notin Guarded PROVE Grows
      OBVIOUS
    <3>2. q.op \notin Lowering /\ q.op # "bootstrap"
      BY <3>1, LoweringGuarded
    <3>3. boots' = boots /\ \A v \in Users : user'[v].role = user[v].role
      BY <2>1, <2>3, <2>4, <3>1, <3>2
    <3> QED
      BY <2>7, <3>2, <3>3 DEF Grows
  <2>9. BootstrapOnce'
    BY <1>2, <2>1 DEF FirstBoot, AccountsInv, BootstrapOnce, Accounted, Tables
  <2>10. AdminRemains'
    <3>1. CASE q.op = "bootstrap"
      <4>1. q.u \in ActiveAdmins'
        BY <1>2, <2>3, <2>4, <3>1 DEF ActiveAdmins
      <4> QED
        BY <4>1 DEF AdminRemains
    <3>2. CASE q.op # "bootstrap" /\ boots > 0
      <4>1. PICK a : a \in ActiveAdmins /\ (q.op \in Lowering => a # q.u)
        <5>1. ActiveAdmins # {}
          BY <3>2 DEF AccountsInv, AdminRemains
        <5>2. CASE q.op \in Lowering /\ user[q.u].role # "admin"
          BY <5>1, <5>2 DEF ActiveAdmins
        <5>3. CASE q.op \in Lowering /\ \E b \in ActiveAdmins : b # q.u
          BY <5>3
        <5>4. CASE q.op \notin Lowering
          BY <5>1, <5>4
        <5> QED
          BY <1>2, <1>6, <3>2, <5>2, <5>3, <5>4 DEF Sheltered
      <4>2. user'[a].role = "admin" /\ user'[a].status = "active" /\ a \in Users
        BY <2>4, <2>7, <4>1 DEF ActiveAdmins
      <4>3. a \in ActiveAdmins'
        BY <4>2 DEF ActiveAdmins
      <4> QED
        BY <4>3 DEF AdminRemains
    <3>3. CASE q.op # "bootstrap" /\ ~(boots > 0)
      BY <2>1, <3>3 DEF AdminRemains
    <3> QED
      BY <3>1, <3>2, <3>3
  <2>11. PICK Q : Q = [req EXCEPT ![r] = Idle]
    OBVIOUS
  <2>12. DOMAIN Q = Requests /\ req' = Q /\ Q[r] = Idle /\ \A t \in Requests \ {r} : Q[t] = req[t]
    BY <1>3, <2>11 DEF AccountsInv, Accounted
  <2>13. ASSUME NEW t \in Requests
         PROVE  \/ Q[t] = req[t] /\ (guard = t => guard' = t) /\ (Working(req[t]) => Grows)
                \/ Moved(t, Q[t])
    <3>1. CASE t = r
      BY <2>12, <3>1, Rests
    <3>2. CASE t # r
      <4>1. q.op \in Guarded => guard = r
        BY <1>1, <1>2 DEF AccountsInv, LockHeld
      <4>2. Working(req[t]) => guard = t
        BY DEF Working, AccountsInv, LockHeld
      <4>3. Working(req[t]) => Grows
        BY <2>8, <3>2, <4>1, <4>2
      <4> QED
        BY <1>4, <2>12, <3>2, <4>3
    <3> QED
      BY <3>1, <3>2
  <2> QED
    BY <1>4, <2>2, <2>5, <2>6, <2>9, <2>10, <2>12, <2>13, StepKeeps
<1> QED
  BY <1>1, <1>5, <1>6 DEF Write

\* Initially nobody is enrolled.
LEMMA AccountsInitInv == Init => AccountsInv
<1> SUFFICES ASSUME Init PROVE AccountsInv
  OBVIOUS
<1>1. Tables
  BY DEF Init, Tables, AccountsAssumption
<1>2. \A r \in Requests : RequestOK(Idle) /\ Sheltered(Idle) /\ FirstBoot(Idle)
  BY DEF RequestOK, Sheltered, FirstBoot, Idle
<1>3. req = [r \in Requests |-> Idle] /\ boots = 0 /\ session = <<>> /\ guard = Free
  BY DEF Init
<1>4. Accounted /\ Checked
  BY <1>1, <1>2, <1>3 DEF Accounted, Checked
<1>5. LockHeld
  BY <1>3 DEF LockHeld, Idle
<1>6. SessionsCounted
  BY <1>3 DEF SessionsCounted
<1> QED
  BY <1>3, <1>4, <1>5, <1>6 DEF AccountsInv, AdminRemains, BootstrapOnce

\* Every step preserves the invariant, one action at a time.
LEMMA AccountsNextInv == AccountsInv /\ [Next]_vars => AccountsInv'
<1> SUFFICES ASSUME AccountsInv, [Next]_vars PROVE AccountsInv'
  OBVIOUS
<1>1. CASE UNCHANGED vars
  BY <1>1 DEF vars, AccountsInv, Accounted, Tables, RequestOK, Exists, LockHeld, SessionsCounted, Checked,
              Sheltered, FirstBoot, AdminRemains, BootstrapOnce, ActiveAdmins
<1>2. ASSUME NEW r \in Requests, Issue(r) \/ Lock(r) \/ Read(r) \/ Write(r) PROVE AccountsInv'
  BY <1>2, IssueStep, LockStep, ReadStep, WriteStep
<1>3. ASSUME NEW r \in Requests, NEW u \in Users, LoginRead(r, u) \/ Register(r, u) PROVE AccountsInv'
  BY <1>3, LoginReadStep, RegisterStep
<1>4. ASSUME NEW r \in Requests, NEW u \in Users, NEW sid, NEW op \in Lifecycle, Begin(r, op, sid, u) PROVE AccountsInv'
  BY <1>4, BeginStep
<1>5. ASSUME NEW r \in Requests, NEW u \in Users, NEW sid, NEW role \in Roles, Create(r, sid, u, role) PROVE AccountsInv'
  BY <1>5, CreateStep
<1>6. ASSUME NEW i \in DOMAIN session, Logout(i) \/ Expire(i) PROVE AccountsInv'
  BY <1>6, SessionEnds
<1> QED
  BY <1>1, <1>2, <1>3, <1>4, <1>5, <1>6 DEF Next, Lifecycle, Roles

\* The accounts keep the inductive invariant.
THEOREM AccountsInvariant == Spec => []AccountsInv
  BY AccountsInitInv, AccountsNextInv, PTL DEF Spec

\* A session that may authenticate is not revoked, hence newer than every revocation.
LEMMA InvIsSafe == AccountsInv => AccountsSafe
<1> SUFFICES ASSUME AccountsInv PROVE AccountsSafe
  OBVIOUS
<1>1. OldSessionsStayDead
  BY DEF AccountsInv, OldSessionsStayDead, SessionsCounted, Current
<1>2. AccountsTypeOK
  <2>1. \A u \in Users : \/ user[u] = NoAccount
                         \/ /\ user[u].role \in Roles /\ user[u].status \in {"active", "disabled"}
                            /\ user[u].pw \in 0..1 /\ user[u].removed \in BOOLEAN
    BY DEF AccountsInv, Accounted, Tables, AccountRow
  <2>2. ASSUME NEW i \in DOMAIN session
        PROVE  session[i].u \in Users /\ session[i].reset \in 0..reset[session[i].u]
    <3>1. session[i] \in SessionRow /\ session[i].reset <= reset[session[i].u]
      BY DEF AccountsInv, Accounted, Tables, SessionsCounted
    <3>2. session[i].u \in Users /\ session[i].reset \in Nat /\ reset[session[i].u] \in Nat
      BY <3>1 DEF SessionRow, AccountsInv, Accounted, Tables
    <3> QED
      BY <3>1, <3>2
  <2>3. guard \in Requests \cup {Free} /\ \A r \in Requests : req[r].pc \in {"idle", "issue", "lock", "read", "write"}
    BY DEF AccountsInv, Accounted, RequestOK
  <2> QED
    BY <2>1, <2>2, <2>3 DEF AccountsTypeOK, Roles
<1> QED
  BY <1>1, <1>2 DEF AccountsInv, AccountsSafe

\* Whatever requests overlap, an administrator remains, the bootstrap happens at
\* most once and old sessions stay dead (LastActiveAdminError, auth_bootstrap_guard).
THEOREM AccountsAreSafe == Spec => []AccountsSafe
  BY AccountsInvariant, InvIsSafe, PTL

(***************************************************************************)
(* The screenshot import.  The importing request, the confirming workers   *)
(* and the cleanup meet in the status of the row.  The invariant says what *)
(* each of them may still rely on between its own steps: an importer that  *)
(* has not written its image has a fresh row with its key, a claimed row   *)
(* stays ready, and the cleanup works on rows whose importer is past the   *)
(* write.                                                                  *)
(***************************************************************************)

Statuses == {"absent", "processing", "ready"} \cup Terminal
Matches == {"none", "low_confidence", "duplicate", "matched", "ambiguous", "unmatched"}
Reviews == {"none", "pending", "reviewed", "rejected", "confirmed"}
CandRow == [match : Matches, code : BOOLEAN, state : Reviews, sel : BOOLEAN, val : Nat]
ConfRow == [at : {"read", "claimed"}, sess : Imports, active : BOOLEAN]
CleanRow == [at : {"idle", "selected", "expired"}, rows : SUBSET Imports, expiring : SUBSET Imports]

Kinds ==
  /\ status \in [Imports -> Statuses] /\ key \in [Imports -> BOOLEAN]
  /\ image \in [Imports -> BOOLEAN] /\ late \in [Imports -> BOOLEAN]
  /\ cand \in [Imports -> CandRow] /\ importer \in [Imports -> {"none", "committed", "written", "done"}]
  /\ conf \in [Confirmers -> ConfRow \cup {IdleConf}] /\ clean \in CleanRow
  /\ wrote \in [Imports -> Nat] /\ reviewed \in [Imports -> BOOLEAN]
  /\ held \in [Imports -> Nat]

\* What holds of every row: it stands where its importing request stands, its image
\* is owned, a selected code was selected by the owner, and a holding was written, with
\* the row's numbers, exactly if its candidate is confirmed.
RowOK(s) ==
  /\ importer[s] = "none" <=> status[s] = "absent"
  /\ status[s] = "absent" => ~late[s]
  /\ importer[s] = "committed" => status[s] = "processing" /\ key[s] /\ ~late[s]
  /\ importer[s] = "written" => status[s] \in {"processing", "expired"}
  /\ image[s] => key[s]
  /\ cand[s].sel => reviewed[s] /\ cand[s].state \in {"reviewed", "confirmed"}
  /\ cand[s].state = "confirmed" => status[s] = "confirmed"
  /\ wrote[s] = IF cand[s].state = "confirmed" THEN 1 ELSE 0
  /\ cand[s].state = "confirmed" => reviewed[s] /\ held[s] = cand[s].val

\* The cleanup has selected only rows whose image is written or will never be.
CleansBehind == \A s \in clean.rows \cup clean.expiring : importer[s] \in {"written", "done"}

\* A claimed row is ready and claimed by one worker.
ClaimsHold ==
  /\ \A w \in Confirmers : conf[w].at = "claimed" => status[conf[w].sess] = "ready"
  /\ \A v, w \in Confirmers : conf[v].at = "claimed" /\ conf[w].at = "claimed" /\ conf[v].sess = conf[w].sess => v = w

\* The inductive invariant.
ImportInv == Kinds /\ (\A s \in Imports : RowOK(s)) /\ CleansBehind /\ ClaimsHold

-----------------------------------------------------------------------------
(* What a step leaves alone.                                                *)

SameRow(t) ==
  /\ status'[t] = status[t] /\ key'[t] = key[t] /\ image'[t] = image[t] /\ late'[t] = late[t]
  /\ cand'[t] = cand[t] /\ importer'[t] = importer[t] /\ wrote'[t] = wrote[t] /\ reviewed'[t] = reviewed[t]
  /\ held'[t] = held[t]

\* A step on one row keeps the others.
LEMMA OthersKeep ==
  ASSUME ImportInv, NEW s \in Imports, \A t \in Imports \ {s} : SameRow(t), RowOK(s)'
  PROVE  \A t \in Imports : RowOK(t)'
  BY DEF ImportInv, RowOK, SameRow

\* A step that touches no claimed row keeps the claims.
LEMMA ClaimsStay ==
  ASSUME ImportInv, conf' = conf, \A s \in Imports : RowHeld(s) => status'[s] = status[s]
  PROVE  ClaimsHold'
<1>1. ASSUME NEW w \in Confirmers, conf[w].at = "claimed" PROVE status'[conf[w].sess] = "ready"
  <2>1. conf[w].sess \in Imports /\ RowHeld(conf[w].sess) /\ status[conf[w].sess] = "ready"
    BY <1>1 DEF ImportInv, Kinds, ConfRow, IdleConf, RowHeld, ClaimsHold
  <2> QED
    BY <2>1
<1> QED
  BY <1>1 DEF ImportInv, ClaimsHold

\* A step that starts no importer keeps the selection of the cleanup.
LEMMA CleansStay ==
  ASSUME ImportInv, clean' = clean,
         \A s \in Imports : importer[s] \in {"written", "done"} => importer'[s] \in {"written", "done"}
  PROVE  CleansBehind'
  BY DEF ImportInv, CleansBehind, Kinds, CleanRow

\* A row whose importer is still at work is not ready, hence claimed by nobody.
LEMMA Unclaimed ==
  ASSUME ImportInv, NEW s \in Imports, status[s] # "ready"
  PROVE  ~RowHeld(s)
  BY DEF ImportInv, RowHeld, ClaimsHold

\* A step on one row that neither worker nor cleanup takes.
LEMMA RowStep ==
  ASSUME ImportInv, NEW s \in Imports, \A t \in Imports \ {s} : SameRow(t), RowOK(s)', Kinds',
         conf' = conf, clean' = clean, RowHeld(s) => status'[s] = status[s],
         importer[s] \in {"written", "done"} => importer'[s] \in {"written", "done"}
  PROVE  ImportInv'
<1>1. \A t \in Imports : RowOK(t)'
  BY OthersKeep
<1>2. ClaimsHold'
  BY ClaimsStay DEF SameRow
<1>3. CleansBehind'
  BY CleansStay DEF SameRow
<1> QED
  BY <1>1, <1>2, <1>3 DEF ImportInv

-----------------------------------------------------------------------------
(* The importing request.                                                   *)

\* The row is committed with its key.
LEMMA CreateImportStep == ASSUME ImportInv, NEW s \in Imports, CreateImport(s) PROVE ImportInv'
<1>1. Kinds' /\ \A t \in Imports \ {s} : SameRow(t)
  BY DEF CreateImport, ImportInv, Kinds, Statuses, SameRow
<1>2. RowOK(s) /\ status[s] = "absent" /\ importer[s] = "none"
  BY DEF CreateImport, ImportInv
<1>3. /\ status'[s] = "processing" /\ key'[s] /\ importer'[s] = "committed"
      /\ image'[s] = image[s] /\ late'[s] = late[s] /\ cand'[s] = cand[s] /\ wrote'[s] = wrote[s]
      /\ reviewed'[s] = reviewed[s] /\ held'[s] = held[s] /\ conf' = conf /\ clean' = clean
  BY DEF CreateImport, ImportInv, Kinds
<1>4. RowOK(s)'
  BY <1>2, <1>3 DEF RowOK
<1> QED
  BY <1>1, <1>2, <1>3, <1>4, Unclaimed, RowStep

\* The image is written under a key that is still there.
LEMMA WritePayloadStep == ASSUME ImportInv, NEW s \in Imports, WritePayload(s) PROVE ImportInv'
<1>1. Kinds' /\ \A t \in Imports \ {s} : SameRow(t)
  BY DEF WritePayload, ImportInv, Kinds, SameRow
<1>2. RowOK(s) /\ importer[s] = "committed"
  BY DEF WritePayload, ImportInv
<1>3. /\ image'[s] /\ importer'[s] = "written" /\ status' = status /\ key' = key /\ late' = late /\ cand' = cand
      /\ wrote' = wrote /\ reviewed' = reviewed /\ held' = held /\ conf' = conf /\ clean' = clean
  BY DEF WritePayload, ImportInv, Kinds
<1>4. RowOK(s)'
  BY <1>2, <1>3 DEF RowOK
<1> QED
  BY <1>1, <1>2, <1>3, <1>4, RowStep

\* A failing import gives up the image with its key, or neither.
LEMMA ImportFailsStep == ASSUME ImportInv, NEW s \in Imports, ImportFails(s) PROVE ImportInv'
<1>1. Kinds' /\ \A t \in Imports \ {s} : SameRow(t)
  BY DEF ImportFails, ImportInv, Kinds, SameRow, Statuses, Terminal
<1>2. RowOK(s) /\ importer[s] \in {"committed", "written"}
  BY DEF ImportFails, ImportInv
<1>3. /\ importer'[s] = "done" /\ status'[s] = "failed" /\ (image'[s] => image[s] /\ key'[s] = key[s])
      /\ late' = late /\ cand' = cand /\ wrote' = wrote /\ reviewed' = reviewed /\ held' = held /\ conf' = conf /\ clean' = clean
  BY DEF ImportFails, ImportInv, Kinds
<1>4. RowOK(s)' /\ status[s] # "ready"
  BY <1>2, <1>3 DEF RowOK
<1> QED
  BY <1>1, <1>3, <1>4, Unclaimed, RowStep

\* The candidates the OCR stores are not selected.
LEMMA RecognizeStep == ASSUME ImportInv, NEW s \in Imports, Recognize(s) PROVE ImportInv'
<1>1. PICK c \in CandRow : cand' = [cand EXCEPT ![s] = c] /\ c.state = "pending" /\ ~c.sel
  <2>1. PICK l \in Lines : cand' = [cand EXCEPT ![s] =
          [match |-> MatchStatus(l), code |-> Instrument(l), state |-> "pending", sel |-> FALSE, val |-> 1]]
    BY DEF Recognize
  <2>2. MatchStatus(l) \in Matches
    BY DEF MatchStatus, Matches
  <2>3. Instrument(l) \in BOOLEAN
    BY DEF Lines, Instrument
  <2>4. PICK c : c = [match |-> MatchStatus(l), code |-> Instrument(l), state |-> "pending", sel |-> FALSE, val |-> 1]
    OBVIOUS
  <2>5. c \in CandRow
    BY <2>2, <2>3, <2>4 DEF CandRow, Reviews
  <2> QED
    BY <2>1, <2>4, <2>5
<1>2. Kinds' /\ \A t \in Imports \ {s} : SameRow(t)
  BY <1>1 DEF Recognize, ImportInv, Kinds, SameRow, Statuses
<1>3. RowOK(s) /\ importer[s] = "written" /\ status[s] \in {"processing", "expired"}
  BY DEF Recognize, ImportInv
<1>4. /\ importer'[s] = "done" /\ status'[s] = "ready" /\ cand'[s] = c /\ key' = key /\ image' = image
      /\ late' = late /\ wrote' = wrote /\ reviewed' = reviewed /\ held' = held /\ conf' = conf /\ clean' = clean
  BY <1>1 DEF Recognize, ImportInv, Kinds
<1>5. RowOK(s)'
  BY <1>1, <1>3, <1>4 DEF RowOK
<1> QED
  BY <1>2, <1>3, <1>4, <1>5, Unclaimed, RowStep

\* A dead importer leaves the row to the cleanup.
LEMMA ImporterDiesStep == ASSUME ImportInv, NEW s \in Imports, ImporterDies(s) PROVE ImportInv'
<1>1. Kinds' /\ \A t \in Imports \ {s} : SameRow(t)
  BY DEF ImporterDies, ImportInv, Kinds, SameRow
<1>2. RowOK(s) /\ importer[s] \in {"committed", "written"}
  BY DEF ImporterDies, ImportInv
<1>3. /\ importer'[s] = "done" /\ status' = status /\ key' = key /\ image' = image
      /\ late' = late /\ cand' = cand /\ wrote' = wrote /\ reviewed' = reviewed /\ held' = held /\ conf' = conf /\ clean' = clean
  BY DEF ImporterDies, ImportInv, Kinds
<1>4. RowOK(s)'
  BY <1>2, <1>3 DEF RowOK
<1> QED
  BY <1>1, <1>3, <1>4, RowStep

-----------------------------------------------------------------------------
(* Review, expiry and cancellation.                                         *)

\* An edit selects a code only together with the review it records.
LEMMA EditStep == ASSUME ImportInv, NEW s \in Imports, EditRow(s) PROVE ImportInv'
<1>1. PICK x \in CandRow : x = cand[s]
  BY DEF ImportInv, Kinds
<1>2. RowOK(s) /\ status[s] = "ready" /\ ~RowHeld(s)
  BY DEF EditRow, ImportInv
<1>3. x.sel => x.state = "reviewed"
  BY <1>1, <1>2 DEF RowOK
<1>4. PICK c : /\ cand' = [cand EXCEPT ![s] = c] /\ reviewed' = [reviewed EXCEPT ![s] = c.state = "reviewed"]
               /\ \/ c = [x EXCEPT !.state = "rejected", !.sel = FALSE]
                  \/ c = [x EXCEPT !.state = "reviewed", !.sel = TRUE, !.match = "matched", !.code = TRUE]
                  \/ \E v \in 1..MaxVal : c = [x EXCEPT !.val = v, !.state = IF @ = "rejected" THEN "pending" ELSE @]
  BY <1>1, ZenonT(60) DEF EditRow
<1>5. c \in CandRow /\ (c.sel => c.state = "reviewed") /\ c.state # "confirmed"
  <2>1. x = [match |-> x.match, code |-> x.code, state |-> x.state, sel |-> x.sel, val |-> x.val]
        /\ x.match \in Matches /\ x.code \in BOOLEAN /\ x.state \in Reviews /\ x.sel \in BOOLEAN /\ x.val \in Nat
        /\ x.state # "confirmed"
    BY <1>1, <1>2 DEF CandRow, RowOK
  <2>2. CASE c = [x EXCEPT !.state = "rejected", !.sel = FALSE]
    <3>1. c = [match |-> x.match, code |-> x.code, state |-> "rejected", sel |-> FALSE, val |-> x.val]
      BY <2>1, <2>2
    <3> QED
      BY <2>1, <3>1 DEF CandRow, Reviews
  <2>3. CASE c = [x EXCEPT !.state = "reviewed", !.sel = TRUE, !.match = "matched", !.code = TRUE]
    <3>1. c = [match |-> "matched", code |-> TRUE, state |-> "reviewed", sel |-> TRUE, val |-> x.val]
      BY <2>1, <2>3
    <3> QED
      BY <2>1, <3>1 DEF CandRow, Reviews, Matches
  <2>4. CASE \E v \in 1..MaxVal : c = [x EXCEPT !.val = v, !.state = IF @ = "rejected" THEN "pending" ELSE @]
    <3>1. PICK v \in 1..MaxVal : c = [x EXCEPT !.val = v, !.state = IF @ = "rejected" THEN "pending" ELSE @]
      BY <2>4
    <3>2. c = [match |-> x.match, code |-> x.code, state |-> IF x.state = "rejected" THEN "pending" ELSE x.state,
               sel |-> x.sel, val |-> v]
      BY <2>1, <3>1
    <3>3. v \in Nat
      OBVIOUS
    <3> QED
      BY <1>3, <2>1, <3>2, <3>3 DEF CandRow, Reviews
  <2> QED
    BY <1>4, <2>2, <2>3, <2>4
<1>6. Kinds' /\ \A t \in Imports \ {s} : SameRow(t)
  <2>1. cand \in [Imports -> CandRow] /\ reviewed \in [Imports -> BOOLEAN]
    BY DEF ImportInv, Kinds
  <2>2. cand' \in [Imports -> CandRow] /\ \A t \in Imports \ {s} : cand'[t] = cand[t]
    BY <1>4, <1>5, <2>1
  <2>3. reviewed' \in [Imports -> BOOLEAN] /\ \A t \in Imports \ {s} : reviewed'[t] = reviewed[t]
    BY <1>4, <2>1
  <2>4. UNCHANGED <<status, key, image, late, importer, conf, clean, wrote, held>>
    BY DEF EditRow
  <2>5. Kinds'
    BY <2>2, <2>3, <2>4 DEF ImportInv, Kinds
  <2> QED
    BY <2>2, <2>3, <2>4, <2>5 DEF SameRow
<1>7. /\ cand'[s] = c /\ (c.state = "reviewed" => reviewed'[s]) /\ status' = status /\ key' = key /\ image' = image
      /\ late' = late /\ importer' = importer /\ wrote' = wrote /\ conf' = conf /\ clean' = clean
  BY <1>4 DEF EditRow, ImportInv, Kinds
<1>8. RowOK(s)'
  BY <1>2, <1>5, <1>7 DEF RowOK
<1> QED
  BY <1>6, <1>7, <1>8, RowStep

\* A cancelled row was ready and claimed by nobody.
LEMMA CancelStep == ASSUME ImportInv, NEW s \in Imports, CancelImport(s) PROVE ImportInv'
<1>1. Kinds' /\ \A t \in Imports \ {s} : SameRow(t)
  BY DEF CancelImport, Finalize, ImportInv, Kinds, SameRow, Statuses, Terminal
<1>2. RowOK(s) /\ status[s] = "ready" /\ ~RowHeld(s)
  BY DEF CancelImport, ImportInv
<1>3. /\ status'[s] \in {"expired", "cancelled"} /\ (image'[s] => image[s] /\ key'[s] = key[s])
      /\ late' = late /\ cand' = cand /\ importer' = importer /\ wrote' = wrote /\ reviewed' = reviewed /\ held' = held
      /\ conf' = conf /\ clean' = clean
  BY DEF CancelImport, Finalize, ImportInv, Kinds
<1>4. RowOK(s)'
  BY <1>2, <1>3 DEF RowOK
<1> QED
  BY <1>1, <1>2, <1>3, <1>4, RowStep

\* The lifetime of a session ends.
LEMMA ExpireStep == ASSUME ImportInv, NEW s \in Imports, ExpireImport(s) PROVE ImportInv'
<1>1. Kinds' /\ \A t \in Imports \ {s} : SameRow(t)
  BY DEF ExpireImport, ImportInv, Kinds, SameRow
<1>2. RowOK(s) /\ status[s] # "absent" /\ importer[s] # "committed"
  BY DEF ExpireImport, ImportInv
<1>3. /\ status' = status /\ key' = key /\ image' = image /\ cand' = cand /\ importer' = importer
      /\ wrote' = wrote /\ reviewed' = reviewed /\ held' = held /\ conf' = conf /\ clean' = clean
  BY DEF ExpireImport
<1>4. RowOK(s)'
  BY <1>2, <1>3 DEF RowOK
<1> QED
  BY <1>1, <1>3, <1>4, RowStep

-----------------------------------------------------------------------------
(* Confirmation.                                                            *)

\* A worker reads what it is to write.
LEMMA ConfirmReadStep ==
  ASSUME ImportInv, NEW w \in Confirmers, NEW s \in Imports, ConfirmReadRow(w, s)
  PROVE  ImportInv'
<1>1. PICK q : q = [at |-> "read", sess |-> s, active |-> cand[s].state # "rejected"]
  OBVIOUS
<1>2. q \in ConfRow /\ q.at = "read"
  BY <1>1 DEF ConfRow
<1>3. conf' = [conf EXCEPT ![w] = q] /\ UNCHANGED <<status, key, image, late, cand, importer, clean, wrote, reviewed, held>>
  BY <1>1 DEF ConfirmReadRow
<1>4. Kinds'
  BY <1>2, <1>3 DEF ImportInv, Kinds
<1>5. ClaimsHold'
  <2>1. \A v \in Confirmers : conf'[v] = IF v = w THEN q ELSE conf[v]
    BY <1>3 DEF ImportInv, Kinds
  <2>2. \A v \in Confirmers : conf'[v].at = "claimed" => conf'[v] = conf[v] /\ conf[v].at = "claimed"
    BY <1>2, <2>1
  <2> QED
    BY <1>3, <2>2 DEF ImportInv, ClaimsHold
<1> QED
  BY <1>3, <1>4, <1>5 DEF ImportInv, RowOK, CleansBehind

\* The claim finds the row ready and unclaimed, or expires it.
LEMMA ConfirmClaimStep == ASSUME ImportInv, NEW w \in Confirmers, ConfirmClaim(w) PROVE ImportInv'
<1>1. PICK q : q = conf[w]
  OBVIOUS
<1>2. PICK s \in Imports : s = q.sess /\ q \in ConfRow /\ ~RowHeld(s)
  BY <1>1 DEF ConfirmClaim, ImportInv, Kinds, IdleConf, ConfRow
<1>3. UNCHANGED <<key, image, late, cand, importer, clean, wrote, reviewed, held>>
  BY DEF ConfirmClaim
<1>4. CASE status[s] = "ready" /\ conf' = [conf EXCEPT ![w].at = "claimed"] /\ status' = status
  <2>1. PICK x \in ConfRow : conf' = [conf EXCEPT ![w] = x] /\ x.at = "claimed" /\ x.sess = s
    <3>1. PICK x : x = [q EXCEPT !.at = "claimed"]
      OBVIOUS
    <3>2. x = [at |-> "claimed", sess |-> s, active |-> q.active] /\ q.active \in BOOLEAN
      BY <1>2, <3>1 DEF ConfRow
    <3>3. x \in ConfRow /\ x.at = "claimed" /\ x.sess = s
      BY <3>2 DEF ConfRow
    <3> QED
      BY <1>1, <1>4, <3>1, <3>3
  <2>2. Kinds'
    BY <1>3, <1>4, <2>1 DEF ImportInv, Kinds
  <2>3. \A v \in Confirmers : conf'[v] = IF v = w THEN x ELSE conf[v]
    BY <2>1 DEF ImportInv, Kinds
  <2>4. ClaimsHold'
    <3>1. \A v \in Confirmers : v # w /\ conf[v].at = "claimed" => conf[v].sess # s
      BY <1>2 DEF RowHeld
    <3>2. \A v \in Confirmers : conf'[v].at = "claimed" => status'[conf'[v].sess] = "ready"
      BY <1>4, <2>1, <2>3 DEF ImportInv, ClaimsHold
    <3>3. \A u, v \in Confirmers : conf'[u].at = "claimed" /\ conf'[v].at = "claimed" /\ conf'[u].sess = conf'[v].sess => u = v
      BY <2>1, <2>3, <3>1 DEF ImportInv, ClaimsHold
    <3> QED
      BY <3>2, <3>3 DEF ClaimsHold
  <2> QED
    BY <1>3, <1>4, <2>2, <2>4 DEF ImportInv, RowOK, CleansBehind
<1>5. CASE conf' = [conf EXCEPT ![w] = IdleConf] /\ status' = IF status[s] = "ready" THEN [status EXCEPT ![s] = "expired"] ELSE status
  <2>1. Kinds' /\ \A t \in Imports \ {s} : SameRow(t)
    BY <1>3, <1>5 DEF ImportInv, Kinds, SameRow, Statuses, Terminal
  <2>2. RowOK(s)'
    <3>1. RowOK(s) /\ status'[s] = IF status[s] = "ready" THEN "expired" ELSE status[s]
      BY <1>5 DEF ImportInv, Kinds
    <3> QED
      BY <1>3, <3>1 DEF RowOK
  <2>3. \A t \in Imports : RowOK(t)'
    BY <2>1, <2>2, OthersKeep
  <2>4. ClaimsHold'
    <3>1. \A v \in Confirmers : conf'[v] = IF v = w THEN IdleConf ELSE conf[v]
      BY <1>5 DEF ImportInv, Kinds
    <3>2. \A v \in Confirmers : conf'[v].at = "claimed" => conf'[v] = conf[v] /\ conf[v].at = "claimed"
      BY <3>1 DEF IdleConf
    <3>3. ASSUME NEW v \in Confirmers, conf[v].at = "claimed" PROVE status'[conf[v].sess] = "ready"
      <4>1. conf[v].sess \in Imports /\ conf[v].sess # s /\ status[conf[v].sess] = "ready"
        BY <1>2, <3>3 DEF ImportInv, Kinds, ConfRow, IdleConf, RowHeld, ClaimsHold
      <4> QED
        BY <2>1, <4>1 DEF SameRow
    <3> QED
      BY <3>2, <3>3 DEF ImportInv, ClaimsHold
  <2> QED
    BY <1>3, <2>1, <2>3, <2>4 DEF ImportInv, CleansBehind
<1> QED
  BY <1>1, <1>2, <1>4, <1>5 DEF ConfirmClaim

\* A worker that gives up its claim, whatever becomes of the row it held.
LEMMA ClaimEnds ==
  ASSUME ImportInv, NEW w \in Confirmers, conf[w].at = "claimed", conf' = [conf EXCEPT ![w] = IdleConf],
         \A t \in Imports \ {conf[w].sess} : status'[t] = status[t]
  PROVE  ClaimsHold'
<1>1. \A v \in Confirmers : conf'[v] = IF v = w THEN IdleConf ELSE conf[v]
  BY DEF ImportInv, Kinds
<1>2. \A v \in Confirmers : conf'[v].at = "claimed" => conf'[v] = conf[v] /\ conf[v].at = "claimed" /\ v # w
  BY <1>1 DEF IdleConf
<1>3. ASSUME NEW v \in Confirmers, conf[v].at = "claimed", v # w PROVE status'[conf[v].sess] = "ready"
  BY <1>3 DEF ImportInv, Kinds, ConfRow, IdleConf, ClaimsHold
<1> QED
  BY <1>2, <1>3 DEF ImportInv, ClaimsHold

\* What is written is what the owner selected, as the row shows it; the row was not written
\* before.
LEMMA ConfirmCommitStep == ASSUME ImportInv, NEW w \in Confirmers, ConfirmCommit(w) PROVE ImportInv'
<1>1. PICK s : s = conf[w].sess
  OBVIOUS
<1>2. s \in Imports /\ conf[w].at = "claimed" /\ status[s] = "ready" /\ RowOK(s)
  BY <1>1 DEF ConfirmCommit, ImportInv, Kinds, IdleConf, ConfRow, ClaimsHold
<1>3. conf' = [conf EXCEPT ![w] = IdleConf] /\ UNCHANGED <<late, importer, clean, reviewed>>
  BY DEF ConfirmCommit
<1>4. conf' \in [Confirmers -> ConfRow \cup {IdleConf}]
  BY <1>3 DEF ImportInv, Kinds
<1>5. CASE UNCHANGED <<status, cand, wrote, held, key, image>>
  <2>1. Kinds'
    BY <1>3, <1>4, <1>5 DEF ImportInv, Kinds
  <2>2. ClaimsHold'
    BY <1>2, <1>3, <1>5, ClaimEnds
  <2> QED
    BY <1>3, <1>5, <2>1, <2>2 DEF ImportInv, RowOK, CleansBehind
<1>6. ASSUME status' = [status EXCEPT ![s] = "confirmed"], \E ok \in BOOLEAN : Finalize(s, ok),
             cand' \in [Imports -> CandRow], wrote' \in [Imports -> Nat], held' \in [Imports -> Nat],
             \A t \in Imports \ {s} : cand'[t] = cand[t] /\ wrote'[t] = wrote[t] /\ held'[t] = held[t],
             RowOK(s)'
      PROVE  ImportInv'
  <2>1. /\ status' \in [Imports -> Statuses] /\ key' \in [Imports -> BOOLEAN]
        /\ image' \in [Imports -> BOOLEAN]
    BY <1>6 DEF Finalize, ImportInv, Kinds, Statuses, Terminal
  <2>2. Kinds'
    BY <1>3, <1>4, <1>6, <2>1 DEF ImportInv, Kinds
  <2>3. \A t \in Imports \ {s} : SameRow(t)
    BY <1>2, <1>3, <1>6 DEF Finalize, ImportInv, Kinds, SameRow
  <2>4. \A t \in Imports : RowOK(t)'
    BY <1>2, <1>6, <2>3, OthersKeep
  <2>5. ClaimsHold'
    BY <1>1, <1>2, <1>3, <2>3, ClaimEnds DEF SameRow
  <2> QED
    BY <1>3, <2>2, <2>4, <2>5 DEF ImportInv, CleansBehind
<1>7. ASSUME status' = [status EXCEPT ![s] = "confirmed"], \E ok \in BOOLEAN : Finalize(s, ok)
      PROVE  status'[s] = "confirmed" /\ (image'[s] => image[s] /\ key'[s] = key[s])
  BY <1>2, <1>7 DEF Finalize, ImportInv, Kinds
<1>8. CASE /\ status' = [status EXCEPT ![s] = "confirmed"] /\ \E ok \in BOOLEAN : Finalize(s, ok)
           /\ UNCHANGED <<cand, wrote, held>>
  <2>1. RowOK(s)'
    BY <1>2, <1>3, <1>7, <1>8 DEF RowOK
  <2> QED
    BY <1>6, <1>8, <2>1 DEF ImportInv, Kinds
<1>9. CASE /\ cand[s].sel /\ status' = [status EXCEPT ![s] = "confirmed"]
           /\ cand' = [cand EXCEPT ![s].state = "confirmed"]
           /\ wrote' = [wrote EXCEPT ![s] = @ + 1]
           /\ held' = [held EXCEPT ![s] = cand[s].val]
           /\ \E ok \in BOOLEAN : Finalize(s, ok)
  <2>1. PICK c \in CandRow : cand' = [cand EXCEPT ![s] = c] /\ c.state = "confirmed" /\ c.val = cand[s].val
    <3>1. PICK x \in CandRow : x = cand[s]
      BY <1>2 DEF ImportInv, Kinds
    <3>2. PICK c : c = [x EXCEPT !.state = "confirmed"]
      OBVIOUS
    <3>3. c = [match |-> x.match, code |-> x.code, state |-> "confirmed", sel |-> x.sel, val |-> x.val]
      BY <3>1, <3>2 DEF CandRow
    <3>4. c \in CandRow /\ c.state = "confirmed" /\ c.val = x.val
      BY <3>1, <3>3 DEF CandRow, Reviews
    <3> QED
      BY <1>9, <3>1, <3>2, <3>4
  <2>2. wrote' = [wrote EXCEPT ![s] = wrote[s] + 1] /\ wrote[s] + 1 \in Nat
    BY <1>2, <1>9 DEF ImportInv, Kinds
  <2>3. cand' \in [Imports -> CandRow] /\ wrote' \in [Imports -> Nat] /\ held' \in [Imports -> Nat]
    <3>1. cand[s] \in CandRow
      BY <1>2 DEF ImportInv, Kinds
    <3>2. cand[s].val \in Nat
      BY <3>1 DEF CandRow
    <3>3. held' \in [Imports -> Nat]
      BY <1>9, <3>2 DEF ImportInv, Kinds
    <3> QED
      BY <2>1, <2>2, <3>3 DEF ImportInv, Kinds
  <2>4. /\ cand'[s] = c /\ wrote'[s] = wrote[s] + 1 /\ held'[s] = c.val
        /\ \A t \in Imports \ {s} : cand'[t] = cand[t] /\ wrote'[t] = wrote[t] /\ held'[t] = held[t]
    BY <1>2, <1>9, <2>1 DEF ImportInv, Kinds
  <2>5. RowOK(s)'
    BY <1>2, <1>3, <1>7, <1>9, <2>1, <2>4 DEF RowOK
  <2> QED
    BY <1>6, <1>9, <2>3, <2>4, <2>5
<1> QED
  BY <1>1, <1>5, <1>8, <1>9 DEF ConfirmCommit

\* A dead worker's transaction is rolled back.
LEMMA ConfirmDiesStep == ASSUME ImportInv, NEW w \in Confirmers, ConfirmDies(w) PROVE ImportInv'
<1>1. conf' = [conf EXCEPT ![w] = IdleConf] /\ UNCHANGED <<status, key, image, late, cand, importer, clean, wrote, reviewed, held>>
  BY DEF ConfirmDies
<1>2. Kinds'
  BY <1>1 DEF ImportInv, Kinds
<1>3. ClaimsHold'
  <2>1. \A v \in Confirmers : conf'[v] = IF v = w THEN IdleConf ELSE conf[v]
    BY <1>1 DEF ImportInv, Kinds
  <2>2. \A v \in Confirmers : conf'[v].at = "claimed" => conf'[v] = conf[v] /\ conf[v].at = "claimed"
    BY <2>1 DEF IdleConf
  <2> QED
    BY <1>1, <2>2 DEF ImportInv, ClaimsHold
<1> QED
  BY <1>1, <1>2, <1>3 DEF ImportInv, RowOK, CleansBehind

-----------------------------------------------------------------------------
(* Cleanup.                                                                 *)

\* Rows that are late or final have an importer past its write.
LEMMA CleanSelectStep == ASSUME ImportInv, CleanSelect PROVE ImportInv'
<1>1. PICK E, R : /\ E = {s \in Imports : late[s] /\ status[s] \in {"processing", "ready"}}
                  /\ R = E \cup {s \in Imports : status[s] \in Terminal /\ key[s]}
                  /\ clean' = [at |-> "selected", rows |-> R, expiring |-> E]
  BY DEF CleanSelect
<1>2. UNCHANGED <<status, key, image, late, cand, importer, conf, wrote, reviewed, held>>
  BY DEF CleanSelect
<1>3. clean' \in CleanRow
  BY <1>1 DEF CleanRow
<1>4. CleansBehind'
  <2>1. ASSUME NEW s \in R \cup E PROVE importer[s] \in {"written", "done"}
    <3>1. s \in Imports /\ RowOK(s) /\ status[s] # "absent" /\ (late[s] \/ status[s] \in Terminal)
      BY <1>1, <2>1 DEF ImportInv, Terminal
    <3>2. importer[s] \notin {"none", "committed"}
      BY <3>1 DEF RowOK, Terminal
    <3> QED
      BY <3>1, <3>2 DEF ImportInv, Kinds
  <2> QED
    BY <1>1, <1>2, <2>1 DEF CleansBehind
<1>5. Kinds'
  BY <1>2, <1>3 DEF ImportInv, Kinds
<1> QED
  BY <1>2, <1>4, <1>5 DEF ImportInv, RowOK, ClaimsHold

\* Nothing confirmed is expired, and nothing claimed.
LEMMA CleanExpireStep == ASSUME ImportInv, CleanExpire PROVE ImportInv'
<1>1. UNCHANGED <<key, image, late, cand, importer, conf, wrote, reviewed, held>> /\ clean \in CleanRow
  BY DEF CleanExpire, ImportInv, Kinds
<1>2. CASE clean' = IdleClean /\ status' = status
  <2>1. clean' \in CleanRow /\ CleansBehind'
    BY <1>2 DEF IdleClean, CleanRow, CleansBehind
  <2> QED
    BY <1>1, <1>2, <2>1 DEF ImportInv, Kinds, RowOK, ClaimsHold
<1>3. CASE /\ \A s \in clean.expiring : ~RowHeld(s) /\ status[s] \notin {"confirmed", "cancelled"}
           /\ status' = [s \in Imports |-> IF s \in clean.expiring THEN "expired" ELSE status[s]]
           /\ clean' = [clean EXCEPT !.at = "expired"]
  <2>1. clean' = [at |-> "expired", rows |-> clean.rows, expiring |-> clean.expiring]
    BY <1>1, <1>3 DEF CleanRow
  <2>2. clean' \in CleanRow /\ clean'.rows = clean.rows /\ clean'.expiring = clean.expiring
    BY <1>1, <2>1 DEF CleanRow
  <2>3. Kinds'
    BY <1>1, <1>3, <2>2 DEF ImportInv, Kinds, Statuses, Terminal
  <2>4. ASSUME NEW s \in Imports PROVE RowOK(s)'
    <3>1. RowOK(s) /\ status'[s] = IF s \in clean.expiring THEN "expired" ELSE status[s]
      BY <1>3 DEF ImportInv
    <3>2. s \in clean.expiring => importer[s] \in {"written", "done"} /\ status[s] # "confirmed"
      BY <1>3 DEF ImportInv, CleansBehind
    <3> QED
      BY <1>1, <3>1, <3>2 DEF RowOK
  <2>5. ClaimsHold'
    BY <1>1, <1>3, ClaimsStay
  <2>6. CleansBehind'
    BY <1>1, <2>2 DEF ImportInv, CleansBehind
  <2> QED
    BY <2>3, <2>4, <2>5, <2>6 DEF ImportInv
<1> QED
  BY <1>2, <1>3 DEF CleanExpire

\* An image is removed together with its key, or stays with it.
LEMMA CleanFinalizeStep == ASSUME ImportInv, CleanFinalize PROVE ImportInv'
<1>1. PICK s \in clean.rows, ok \in BOOLEAN :
        /\ Finalize(s, ok)
        /\ clean' = IF clean.rows = {s} THEN IdleClean ELSE [clean EXCEPT !.rows = @ \ {s}]
  BY DEF CleanFinalize
<1>2. UNCHANGED <<status, late, cand, importer, conf, wrote, reviewed, held>> /\ clean \in CleanRow /\ s \in Imports
  BY <1>1 DEF CleanFinalize, ImportInv, Kinds, CleanRow
<1>3. clean' \in CleanRow /\ CleansBehind'
  <2>1. CASE clean.rows = {s}
    BY <1>1, <2>1 DEF IdleClean, CleanRow, CleansBehind
  <2>2. CASE clean.rows # {s}
    <3>1. clean' = [at |-> clean.at, rows |-> clean.rows \ {s}, expiring |-> clean.expiring]
      BY <1>1, <1>2, <2>2 DEF CleanRow
    <3>2. clean'.rows = clean.rows \ {s} /\ clean'.expiring = clean.expiring /\ clean' \in CleanRow
      BY <1>2, <3>1 DEF CleanRow
    <3> QED
      BY <1>2, <3>2 DEF ImportInv, CleansBehind
  <2> QED
    BY <2>1, <2>2
<1>4. Kinds' /\ \A t \in Imports : image'[t] => image[t] /\ key'[t] = key[t]
  BY <1>1, <1>2, <1>3 DEF Finalize, ImportInv, Kinds
<1>5. importer[s] # "committed"
  BY <1>1 DEF ImportInv, CleansBehind
<1>6. \A t \in Imports : importer[t] = "committed" => key'[t] = key[t]
  BY <1>1, <1>2, <1>5 DEF Finalize, ImportInv, Kinds
<1>7. \A t \in Imports : RowOK(t)'
  BY <1>2, <1>4, <1>6 DEF ImportInv, RowOK
<1>8. ClaimsHold'
  BY <1>2 DEF ImportInv, ClaimsHold
<1> QED
  BY <1>3, <1>4, <1>7, <1>8 DEF ImportInv

-----------------------------------------------------------------------------
\* Initially there is no session.
LEMMA ScreenshotInit == ImportInit => ImportInv
<1> SUFFICES ASSUME ImportInit PROVE ImportInv
  OBVIOUS
<1>1. NoCand \in CandRow /\ IdleClean \in CleanRow
  BY DEF NoCand, CandRow, Matches, Reviews, IdleClean, CleanRow
<1>2. Kinds
  BY <1>1 DEF ImportInit, Kinds, Statuses
<1>3. \A s \in Imports : RowOK(s)
  BY DEF ImportInit, RowOK, NoCand
<1>4. CleansBehind /\ ClaimsHold
  BY DEF ImportInit, CleansBehind, ClaimsHold, IdleClean, IdleConf
<1> QED
  BY <1>2, <1>3, <1>4 DEF ImportInv

\* Every step preserves the invariant, one action at a time.
LEMMA ScreenshotNext == ImportInv /\ [ImportNext]_importVars => ImportInv'
<1> SUFFICES ASSUME ImportInv, [ImportNext]_importVars PROVE ImportInv'
  OBVIOUS
<1>1. CASE UNCHANGED importVars
  BY <1>1 DEF importVars, ImportInv, Kinds, RowOK, CleansBehind, ClaimsHold
<1>2. ASSUME NEW s \in Imports, CreateImport(s) \/ Importer(s) \/ ImporterDies(s) \/ EditRow(s) \/ CancelImport(s) \/ ExpireImport(s)
      PROVE  ImportInv'
  BY <1>2, CreateImportStep, WritePayloadStep, RecognizeStep, ImportFailsStep, ImporterDiesStep, EditStep, CancelStep,
     ExpireStep DEF Importer
<1>3. ASSUME NEW w \in Confirmers,
             (\E s \in Imports : ConfirmReadRow(w, s)) \/ ConfirmClaim(w) \/ ConfirmCommit(w) \/ ConfirmDies(w)
      PROVE  ImportInv'
  BY <1>3, ConfirmReadStep, ConfirmClaimStep, ConfirmCommitStep, ConfirmDiesStep
<1>4. CASE Cleanup
  BY <1>4, CleanSelectStep, CleanExpireStep, CleanFinalizeStep DEF Cleanup
<1> QED
  BY <1>1, <1>2, <1>3, <1>4 DEF ImportNext

\* The sessions keep the inductive invariant.
THEOREM ImportInvariant == ImportSpec => []ImportInv
  BY ScreenshotInit, ScreenshotNext, PTL DEF ImportSpec

\* Rows in order have owned images and reviewed holdings.
LEMMA RowsAreSafe == ImportInv => ImportSafe
  BY DEF ImportInv, RowOK, ImportSafe, ImageOwned, WrittenIffConfirmed, ConfirmedWasReviewed, ConfirmedAsShown

\* Every image is owned by its row, and a holding is written once for a confirmed row, of the
\* code the owner selected and with the numbers the row shows, and never for a session whose rows
\* are all rejected: for any number of sessions, workers and faults.
THEOREM ImportIsSafe == ImportSpec => []ImportSafe
  BY ImportInvariant, RowsAreSafe, PTL

(***************************************************************************)
(* The stored daily bars.  The two facts about a step that need more than  *)
(* the action are that a refresh whose window follows old units reaches    *)
(* all of them, and that a history is usable exactly when some held        *)
(* session divides it: documented rows with a volume up to it, unverified  *)
(* rows after it.                                                          *)
(***************************************************************************)

Bars == {NoBar} \cup [src : {"doc", "sina", "legacy"}, volume : BOOLEAN]

HistoryInv == /\ dailyBars \in [Settled -> Bars]
              /\ lookback \in 0..MaxSession
              /\ HistoryTypeOK

\* What divides a usable history.
Divides(n, b) == \A d \in HeldOf(b) : IF d <= n THEN Verified(b, d) /\ b[d].volume ELSE ~Verified(b, d)

\* A set of sessions has a first and a last one.
LEMMA FirstSession ==
  ASSUME NEW Q, Q \subseteq Nat, Q # {}
  PROVE  Min(Q) \in Q /\ \A y \in Q : Min(Q) <= y
<1> DEFINE L == OpToRel(<, Nat)
<1>1. IsWellFoundedOn(L, Nat)
  BY NatLessThanWellFounded
<1>2. \A i, j \in Nat : i < j => <<i, j>> \in L
  BY DEF OpToRel
<1> HIDE DEF L
<1>3. PICK x \in Q : \A y \in Q : <<y, x>> \notin L
  BY <1>1, WFMin
<1>4. \A y \in Q : x <= y
  <2> TAKE y \in Q
  <2>1. x \in Nat /\ y \in Nat
    OBVIOUS
  <2>2. ~(y < x)
    BY <1>2, <1>3, <2>1
  <2> QED
    BY <2>1, <2>2
<1> QED
  BY <1>4 DEF Min

\* The greatest session of a bounded, non-empty set.
LEMMA LastSession ==
  ASSUME NEW n \in Nat, NEW Q, Q \subseteq 0..n, Q # {}
  PROVE  Max(Q) \in Q /\ \A y \in Q : Max(Q) >= y
<1> DEFINE back == {n - d : d \in Q}
<1>1. back \subseteq Nat /\ back # {}
  <2>1. \A d \in Q : n - d \in Nat
    OBVIOUS
  <2> QED
    BY <2>1
<1>2. \A b \in back : \E d \in Q : b = n - d
  OBVIOUS
<1>3. \A d \in Q : n - d \in back
  OBVIOUS
<1> HIDE DEF back
<1>4. Min(back) \in back /\ \A y \in back : Min(back) <= y
  BY <1>1, FirstSession
<1>5. PICK x \in Q : Min(back) = n - x
  BY <1>2, <1>4
<1>6. \A d \in Q : x >= d
  <2> TAKE d \in Q
  <2>1. x \in 0..n /\ d \in 0..n
    OBVIOUS
  <2>2. n - x <= n - d
    BY <1>3, <1>4, <1>5
  <2> QED
    BY <2>1, <2>2
<1> QED
  BY <1>6 DEF Max

\* The window a refresh asks for, and what it follows while old units remain.
LEMMA WindowReachesOldUnits ==
  ASSUME HistoryInv
  PROVE  /\ WindowStart \in Nat
         /\ OldKeys # {} => \A d \in HeldDays : WindowStart <= d
<1> DEFINE begin == IF settledDay > lookback THEN settledDay - lookback ELSE 1
           recent == IF Max(HeldDays) > Overlap THEN Max(HeldDays) - Overlap ELSE 1
<1>0. MaxSession \in Nat /\ Overlap \in Nat
  BY HistoryAssumed DEF HistoryAssumption
<1>1. begin \in Nat
  BY <1>0 DEF HistoryInv, HistoryTypeOK, Settled
<1>2. HeldDays \subseteq Nat /\ HeldDays \subseteq 0..MaxSession
  BY <1>0 DEF HeldDays, Settled
<1>3. HeldDays # {} => Min(HeldDays) \in Nat /\ \A d \in HeldDays : Min(HeldDays) <= d
  BY <1>2, FirstSession
<1>4. HeldDays # {} => recent \in Nat
  <2>1. HeldDays # {} => Max(HeldDays) \in Nat
    BY <1>0, <1>2, LastSession
  <2> QED
    BY <1>0, <2>1
<1>5. OldKeys # {} => HeldDays # {}
  BY DEF OldKeys
<1>6. WindowStart = CASE OldKeys # {} -> Min({begin, Min(HeldDays)})
                      [] OldKeys = {} /\ HeldDays # {} /\ Min(HeldDays) <= begin -> Max({begin, recent})
                      [] OTHER -> begin
  BY DEF WindowStart
<1> HIDE DEF begin, recent
<1>7. CASE OldKeys # {}
  <2>1. WindowStart = Min({begin, Min(HeldDays)})
    BY <1>6, <1>7
  <2>2. {begin, Min(HeldDays)} \subseteq Nat
    BY <1>1, <1>3, <1>5, <1>7
  <2>3. WindowStart \in Nat /\ WindowStart <= Min(HeldDays)
    BY <2>1, <2>2, FirstSession
  <2> QED
    BY <1>2, <1>3, <1>5, <1>7, <2>3
<1>8. CASE OldKeys = {} /\ HeldDays # {} /\ Min(HeldDays) <= begin
  <2>1. WindowStart = Max({begin, recent})
    BY <1>6, <1>8
  <2>2. begin <= recent \/ recent <= begin
    BY <1>1, <1>4, <1>8
  <2>3. PICK n \in Nat : begin <= n /\ recent <= n
    BY <1>1, <1>4, <1>8
  <2>4. {begin, recent} \subseteq 0..n
    BY <1>1, <1>4, <1>8, <2>3
  <2>5. WindowStart \in {begin, recent}
    BY <2>1, <2>4, LastSession
  <2> QED
    BY <1>1, <1>4, <1>8, <2>5
<1>9. CASE OldKeys = {} /\ ~(HeldDays # {} /\ Min(HeldDays) <= begin)
  <2>1. WindowStart = begin
    BY <1>6, <1>9
  <2> QED
    BY <1>1, <1>9, <2>1
<1> QED
  BY <1>7, <1>8, <1>9

\* Every step keeps the shape of the rows and stores no session that has not settled.
LEMMA HistoryStep == HistoryInv /\ [HistoryNext]_historyVars => HistoryInv'
<1> SUFFICES ASSUME HistoryInv, [HistoryNext]_historyVars PROVE HistoryInv'
  OBVIOUS
<1>0. MaxSession \in Nat \ {0}
  BY HistoryAssumed DEF HistoryAssumption
<1>1. CASE StoreLegacy
  <2>1. settledDay \in Settled /\ settledDay \in 1..settledDay
    BY <1>0 DEF HistoryInv, HistoryTypeOK, Settled
  <2>2. \E row \in Bars : row.src = "legacy" /\ dailyBars' = [dailyBars EXCEPT ![settledDay] = row]
    BY <1>1 DEF StoreLegacy, Bars
  <2>3. /\ dailyBars' \in [Settled -> Bars]
        /\ \A d \in Settled : dailyBars'[d].src \in {"none", "doc", "sina", "legacy"}
        /\ HeldDays' \subseteq 1..settledDay
    BY <2>1, <2>2 DEF HistoryInv, HistoryTypeOK, HeldDays
  <2> QED
    BY <1>1, <2>3 DEF StoreLegacy, HistoryInv, HistoryTypeOK
<1>2. CASE NextSession
  <2>1. settledDay \in Settled /\ settledDay' \in Settled /\ settledDay' = settledDay + 1
    BY <1>0, <1>2 DEF NextSession, HistoryInv, HistoryTypeOK, Settled
  <2>2. HeldDays' = HeldDays /\ HeldDays \subseteq 1..settledDay
    BY <1>2 DEF NextSession, HistoryInv, HistoryTypeOK, HeldDays
  <2>3. HeldDays' \subseteq 1..settledDay'
    BY <2>1, <2>2 DEF Settled
  <2> QED
    BY <1>2, <2>1, <2>3 DEF NextSession, HistoryInv, HistoryTypeOK
<1>3. CASE RefreshFails \/ UNCHANGED historyVars
  BY <1>3 DEF RefreshFails, historyVars, HistoryInv, HistoryTypeOK, HeldDays, Bars, NoBar, Settled
<1>4. CASE \E n \in 0..MaxSession : ChangeLookback(n)
  BY <1>4 DEF ChangeLookback, HistoryInv, HistoryTypeOK, HeldDays, Bars, NoBar, Settled
<1>5. ASSUME NEW src \in {"doc", "sina"}, NEW quantities \in BOOLEAN, NEW answered, Refresh(src, answered, quantities)
      PROVE  HistoryInv'
  <2>1. WindowStart \in Nat /\ answered \subseteq WindowStart..settledDay
    BY <1>5, WindowReachesOldUnits DEF Refresh
  <2>2. settledDay \in Nat
    BY DEF HistoryInv, HistoryTypeOK, Settled
  <2>3. \A d \in answered : d <= settledDay
    BY <2>1, <2>2
  <2>4. \A v \in BOOLEAN : [src |-> src, volume |-> v] \in Bars /\ [src |-> src, volume |-> v].src = src
    BY DEF Bars
  <2>5. (src = "doc" /\ quantities) \in BOOLEAN
    OBVIOUS
  <2>6. UNCHANGED <<settledDay, lookback>> /\ last' \in {"complete", "partial", "refused"}
    BY <1>5 DEF Refresh
  <2>7. dailyBars' \in [Settled -> Bars] /\ \A d \in Settled : dailyBars'[d] # dailyBars[d] => d \in answered
    <3>1. CASE UpgradeComplete(answered)
      BY <1>5, <2>4, <2>5, <3>1 DEF Refresh, HistoryInv
    <3>2. CASE ~UpgradeComplete(answered)
      BY <1>5, <3>2 DEF Refresh, HistoryInv
    <3> QED
      BY <3>1, <3>2
  <2>8. \A d \in Settled : dailyBars'[d].src \in {"none", "doc", "sina", "legacy"}
    BY <2>7 DEF Bars, NoBar
  <2>9. HeldDays' \subseteq 1..settledDay
    BY <2>2, <2>3, <2>7 DEF HeldDays, Settled, HistoryInv, HistoryTypeOK
  <2> QED
    BY <2>6, <2>7, <2>8, <2>9 DEF HistoryInv, HistoryTypeOK
<1> QED
  BY <1>1, <1>2, <1>3, <1>4, <1>5 DEF HistoryNext

\* The rows of a history are usable exactly up to a session that divides it.
LEMMA UsableIsDivided ==
  ASSUME NEW b \in [Settled -> Bars]
  PROVE  /\ Usable(b) <=> \E n \in HeldOf(b) : Divides(n, b)
         /\ Usable(b) => \A d \in HeldOf(b) : d <= Through(b) => Verified(b, d) /\ b[d].volume
<1> DEFINE bad == {d \in HeldOf(b) : ~Verified(b, d)}
           prefix == {d \in HeldOf(b) : d < Min(bad)}
           tail == HeldOf(b) \ prefix
           blocked == bad = {} \/ prefix = {} \/ (\E d \in tail : Verified(b, d)) \/ (\E d \in prefix : ~b[d].volume)
<1>0. MaxSession \in Nat
  BY HistoryAssumed DEF HistoryAssumption
<1>1. HeldOf(b) \subseteq Nat /\ HeldOf(b) \subseteq 0..MaxSession /\ \A d \in HeldOf(b) : d > 0
  BY <1>0 DEF HeldOf, Settled
<1>2. HeldOf(b) # {} => Max(HeldOf(b)) \in HeldOf(b) /\ \A d \in HeldOf(b) : d <= Max(HeldOf(b))
  BY <1>0, <1>1, LastSession
<1>3. prefix # {} => Max(prefix) \in prefix /\ \A d \in prefix : d <= Max(prefix)
  <2>1. prefix \subseteq 0..MaxSession
    BY <1>1
  <2> HIDE DEF prefix
  <2>2. prefix # {} => Max(prefix) \in prefix /\ \A d \in prefix : Max(prefix) >= d
    BY <1>0, <2>1, LastSession
  <2> QED
    BY <1>0, <2>1, <2>2
<1>4. bad # {} => Min(bad) \in bad /\ \A d \in bad : Min(bad) <= d
  <2>1. bad \subseteq Nat
    BY <1>1
  <2> HIDE DEF bad
  <2> QED
    BY <2>1, FirstSession
<1>5. QualifiedThrough(b) = IF blocked THEN 0 ELSE Max(prefix)
  BY DEF QualifiedThrough
<1>6. \A d \in HeldOf(b) : d \in bad <=> ~Verified(b, d)
  OBVIOUS
<1>7. \A d : d \in prefix <=> d \in HeldOf(b) /\ d < Min(bad)
  OBVIOUS
<1>8. bad \subseteq HeldOf(b)
  OBVIOUS
<1>9. \A d : d \in tail <=> d \in HeldOf(b) /\ d \notin prefix
  OBVIOUS
<1> HIDE DEF bad, prefix, tail
<1>10. Usable(b) /\ ~Clean(b) => ~blocked
  BY <1>5 DEF Usable
<1>11. ASSUME ~blocked
       PROVE  /\ Max(prefix) \in HeldOf(b) /\ Max(prefix) > 0 /\ Divides(Max(prefix), b)
              /\ QualifiedThrough(b) = Max(prefix)
  <2>1. Max(prefix) \in HeldOf(b) /\ Max(prefix) > 0 /\ Max(prefix) < Min(bad)
    BY <1>1, <1>3, <1>7, <1>11
  <2>2. Min(bad) \in Nat
    BY <1>1, <1>4, <1>8, <1>11
  <2>3. \A d \in HeldOf(b) : d <= Max(prefix) => d \in prefix
    BY <1>1, <1>7, <2>1, <2>2
  <2>4. \A d \in prefix : d \in HeldOf(b) /\ b[d].volume /\ d \notin bad
    BY <1>1, <1>4, <1>7, <1>11, <2>2
  <2>5. \A d \in HeldOf(b) : ~(d <= Max(prefix)) => d \notin prefix
    BY <1>3, <1>11
  <2>6. \A d \in HeldOf(b) : d \notin prefix => ~Verified(b, d)
    BY <1>9, <1>11
  <2>7. Divides(Max(prefix), b)
    BY <1>6, <2>3, <2>4, <2>5, <2>6 DEF Divides
  <2> QED
    BY <1>5, <1>11, <2>1, <2>7
<1>12. Clean(b) => Divides(Max(HeldOf(b)), b) /\ Max(HeldOf(b)) \in HeldOf(b)
  BY <1>2 DEF Clean, Divides
<1>13. Usable(b) => \E n \in HeldOf(b) : Divides(n, b)
  BY <1>10, <1>11, <1>12
<1>14. Usable(b) => \A d \in HeldOf(b) : d <= Through(b) => Verified(b, d) /\ b[d].volume
  <2>1. CASE Clean(b)
    BY <2>1 DEF Clean
  <2>2. CASE Usable(b) /\ ~Clean(b)
    <3>1. Through(b) = Max(prefix) /\ Divides(Max(prefix), b)
      BY <1>10, <1>11, <2>2 DEF Through
    <3> QED
      BY <3>1 DEF Divides
  <2> QED
    BY <2>1, <2>2
<1>15. ASSUME NEW n \in HeldOf(b), Divides(n, b) PROVE Usable(b)
  <2>1. CASE bad = {}
    <3>1. \A d \in HeldOf(b) : Verified(b, d) /\ b[d].volume
      BY <1>6, <1>15, <2>1 DEF Divides
    <3> QED
      BY <3>1 DEF Usable, Clean
  <2>2. CASE bad # {}
    <3>1. Min(bad) \in HeldOf(b) /\ ~Verified(b, Min(bad))
      BY <1>4, <1>6, <1>8, <2>2
    <3>2. n < Min(bad)
      BY <1>1, <1>15, <3>1 DEF Divides
    <3>3. n \in prefix
      BY <1>7, <3>2
    <3>4. \A d \in tail : ~Verified(b, d)
      <4> TAKE d \in tail
      <4>1. d \in HeldOf(b) /\ ~(d < Min(bad))
        BY <1>7, <1>9
      <4>2. ~(d <= n)
        BY <1>1, <3>1, <3>2, <4>1
      <4> QED
        BY <1>15, <4>1, <4>2 DEF Divides
    <3>5. \A d \in prefix : b[d].volume
      <4> TAKE d \in prefix
      <4>1. d \in HeldOf(b) /\ d < Min(bad)
        BY <1>7
      <4>2. d \notin bad
        BY <1>1, <1>4, <2>2, <3>1, <4>1
      <4>3. Verified(b, d)
        BY <1>6, <4>1, <4>2
      <4> QED
        BY <1>15, <4>1, <4>3 DEF Divides
    <3>6. ~blocked
      BY <2>2, <3>3, <3>4, <3>5
    <3> QED
      BY <1>11, <3>6 DEF Usable
  <2> QED
    BY <2>1, <2>2
<1> QED
  BY <1>13, <1>14, <1>15


-----------------------------------------------------------------------------
\* What a refresh does to the rows, and the source it may replace them from.
LEMMA RefreshedRows ==
  ASSUME HistoryInv, NEW src \in {"doc", "sina"}, NEW quantities \in BOOLEAN, NEW answered,
         Refresh(src, answered, quantities)
  PROVE  /\ \A d \in Settled : \/ dailyBars'[d] = dailyBars[d]
                               \/ d \in answered /\ ~Keeps(d, src) /\ dailyBars'[d].src = src
         /\ src = "sina" => \A d \in Settled : dailyBars'[d] # dailyBars[d] => ~dailyBars'[d].volume
         /\ UpgradeComplete(answered) =>
              \A d \in Settled : d \in answered /\ ~Keeps(d, src) => dailyBars'[d].src = src
         /\ ~UpgradeComplete(answered) => dailyBars' = dailyBars
<1> DEFINE new == [src |-> src, volume |-> src = "doc" /\ quantities]
<1>1. new.src = src /\ (src = "sina" => ~new.volume)
  OBVIOUS
<1>2. CASE UpgradeComplete(answered)
  <2>1. \A d \in Settled : dailyBars'[d] = IF d \in answered /\ ~Keeps(d, src) THEN new ELSE dailyBars[d]
    BY <1>2 DEF Refresh
  <2> HIDE DEF new
  <2> QED
    BY <1>1, <1>2, <2>1
<1>3. CASE ~UpgradeComplete(answered)
  BY <1>3 DEF Refresh
<1> QED
  BY <1>2, <1>3

\* Documented rows with a volume survive every step (market_service.py: the fallback's rows are
\* skipped where the stored row has a volume).
LEMMA VerifiedRowsStay == HistoryInv /\ [HistoryNext]_historyVars => VerifiedStay
<1> SUFFICES ASSUME HistoryInv, [HistoryNext]_historyVars,
                    NEW d \in Settled, Verified(dailyBars, d), dailyBars[d].volume
             PROVE  Verified(dailyBars', d)
  BY DEF VerifiedStay
<1>0. dailyBars[d] # NoBar
  BY DEF Verified, NoBar
<1>1. CASE StoreLegacy
  BY <1>0, <1>1 DEF StoreLegacy, Verified, HistoryInv
<1>2. CASE dailyBars' = dailyBars
  BY <1>2 DEF Verified
<1>3. ASSUME NEW src \in {"doc", "sina"}, NEW quantities \in BOOLEAN, NEW answered, Refresh(src, answered, quantities)
      PROVE  Verified(dailyBars', d)
  <2>1. dailyBars'[d] = dailyBars[d] \/ (~Keeps(d, src) /\ dailyBars'[d].src = src)
    BY <1>3, RefreshedRows
  <2>2. src = "sina" => Keeps(d, src)
    BY <1>0 DEF Keeps, Verified
  <2> QED
    BY <2>1, <2>2 DEF Verified
<1> QED
  BY <1>1, <1>2, <1>3 DEF HistoryNext, historyVars, NextSession, RefreshFails, ChangeLookback

\* A step that documents one old row leaves none behind (market_service.py,
\* legacy_refetch_incomplete_no_partial_unit_upgrade).
LEMMA UpgradesAreWhole == HistoryInv /\ [HistoryNext]_historyVars => UpgradeAllOrNothing
<1> SUFFICES ASSUME HistoryInv, [HistoryNext]_historyVars, NEW d \in OldKeys, Verified(dailyBars', d)
             PROVE  \A e \in Settled : dailyBars'[e].src \notin Unverified
  BY DEF UpgradeAllOrNothing
<1>0. d \in Settled /\ dailyBars[d] # NoBar /\ ~Verified(dailyBars, d)
  BY DEF OldKeys, HeldDays, Verified, Unverified
<1>1. ~StoreLegacy
  <2> SUFFICES ASSUME StoreLegacy PROVE FALSE
    OBVIOUS
  <2>1. dailyBars'[d] = dailyBars[d]
    BY <1>0 DEF StoreLegacy, HistoryInv
  <2> QED
    BY <1>0, <2>1 DEF Verified
<1>2. dailyBars' # dailyBars
  BY <1>0 DEF Verified
<1>3. ASSUME NEW src \in {"doc", "sina"}, NEW quantities \in BOOLEAN, NEW answered, Refresh(src, answered, quantities)
      PROVE  \A e \in Settled : dailyBars'[e].src \notin Unverified
  <2>1. UpgradeComplete(answered)
    BY <1>2, <1>3, RefreshedRows
  <2>2. src = "doc"
    <3>1. dailyBars'[d] # dailyBars[d]
      BY <1>0 DEF Verified
    <3>2. dailyBars'[d].src = src
      BY <1>0, <1>3, <3>1, RefreshedRows
    <3> QED
      BY <3>2 DEF Verified
  <2>3. OldKeys \subseteq answered
    <3>1. WindowStart \in Nat /\ \A e \in HeldDays : WindowStart <= e
      BY WindowReachesOldUnits
    <3>2. settledDay \in Nat /\ HeldDays \subseteq 1..settledDay
      BY DEF HistoryInv, HistoryTypeOK, Settled
    <3>3. OldKeys \subseteq HeldDays
      BY DEF OldKeys
    <3>4. OldKeys \subseteq WindowStart..settledDay
      BY <3>1, <3>2, <3>3
    <3> QED
      BY <2>1, <3>4 DEF UpgradeComplete
  <2> TAKE e \in Settled
  <2>4. CASE e \in answered
    <3>1. dailyBars'[e].src = "doc"
      BY <1>3, <2>1, <2>2, <2>4, RefreshedRows DEF Keeps
    <3> QED
      BY <3>1 DEF Unverified
  <2>5. CASE e \notin answered
    <3>1. dailyBars'[e] = dailyBars[e] /\ e \notin OldKeys
      BY <1>3, <2>3, <2>5, RefreshedRows
    <3> QED
      BY <3>1 DEF OldKeys, HeldDays, Unverified, NoBar
  <2> QED
    BY <2>4, <2>5
<1> QED
  BY <1>1, <1>2, <1>3 DEF HistoryNext, historyVars, NextSession, RefreshFails, ChangeLookback

\* A usable history that only later sessions and complete documented rows are added to stays
\* usable, whatever the fallback has stored after its verified prefix (data_contract.py,
\* trailing_unverified_history).
LEMMA OnlyBackfillBlocks == HistoryInv /\ [HistoryNext]_historyVars => BlockedOnlyByBackfill
<1> SUFFICES ASSUME HistoryInv, [HistoryNext]_historyVars, Usable(dailyBars),
                    \A d \in Settled \ HeldDays : dailyBars'[d] # NoBar => ~(d < Max(HeldDays)),
                    \A d \in Settled : dailyBars'[d] # dailyBars[d] /\ dailyBars'[d].src = "doc" => dailyBars'[d].volume
             PROVE  Usable(dailyBars')
  BY DEF BlockedOnlyByBackfill
<1>0. dailyBars \in [Settled -> Bars] /\ dailyBars' \in [Settled -> Bars]
  BY HistoryStep DEF HistoryInv
<1>1. PICK n \in HeldOf(dailyBars) : Divides(n, dailyBars)
  BY <1>0, UsableIsDivided
<1>2. HeldOf(dailyBars) = HeldDays /\ n \in HeldDays
  BY <1>1 DEF HeldOf, HeldDays
<1>3. n \in Settled /\ Verified(dailyBars, n) /\ dailyBars[n].volume
  <2>1. n \in Settled /\ n <= n
    BY <1>1, HistoryAssumed DEF HeldOf, Settled, HistoryAssumption
  <2> QED
    BY <1>1, <2>1 DEF Divides
<1>4. n \in HeldOf(dailyBars')
  <2>1. Verified(dailyBars', n)
    BY <1>3, VerifiedRowsStay DEF VerifiedStay
  <2> QED
    BY <1>3, <2>1 DEF HeldOf, Verified, NoBar
<1>5. \A d \in Settled : d \notin HeldDays /\ dailyBars'[d] # NoBar => ~(d <= n)
  <2>1. MaxSession \in Nat
    BY HistoryAssumed DEF HistoryAssumption
  <2>2. HeldDays \subseteq 0..MaxSession
    BY <2>1 DEF HeldDays, Settled
  <2>3. Max(HeldDays) \in HeldDays /\ Max(HeldDays) >= n
    BY <1>2, <2>1, <2>2, LastSession
  <2> TAKE d \in Settled
  <2>4. Max(HeldDays) \in 0..MaxSession /\ n \in 0..MaxSession /\ d \in 0..MaxSession
    <3>1. Settled \subseteq 0..MaxSession
      BY <2>1 DEF Settled
    <3> QED
      BY <1>3, <2>2, <2>3, <3>1
  <2>5. d \notin HeldDays /\ dailyBars'[d] # NoBar => ~(d < Max(HeldDays)) /\ d # Max(HeldDays)
    BY <2>3
  <2> QED
    BY <2>1, <2>3, <2>4, <2>5
<1>6. CASE StoreLegacy
  <2>1. /\ settledDay \in Settled \ HeldDays /\ ~Verified(dailyBars', settledDay)
        /\ dailyBars'[settledDay] # NoBar
        /\ \A d \in Settled : d # settledDay => dailyBars'[d] = dailyBars[d]
    BY <1>6 DEF StoreLegacy, HistoryInv, HistoryTypeOK, HeldDays, Verified, NoBar
  <2>2. Divides(n, dailyBars')
    <3> SUFFICES ASSUME NEW d \in HeldOf(dailyBars')
                 PROVE  IF d <= n THEN Verified(dailyBars', d) /\ dailyBars'[d].volume ELSE ~Verified(dailyBars', d)
      BY DEF Divides
    <3>1. CASE d = settledDay
      BY <1>5, <2>1, <3>1
    <3>2. CASE d # settledDay
      BY <1>1, <2>1, <3>2 DEF HeldOf, Divides, Verified
    <3> QED
      BY <3>1, <3>2
  <2> QED
    BY <1>0, <1>4, <2>2, UsableIsDivided
<1>7. CASE dailyBars' = dailyBars
  BY <1>7
<1>8. ASSUME NEW quantities \in BOOLEAN, NEW answered, Refresh("sina", answered, quantities)
      PROVE  Usable(dailyBars')
  <2>1. \A d \in Settled : \/ dailyBars'[d] = dailyBars[d]
                           \/ ~Keeps(d, "sina") /\ ~Verified(dailyBars', d)
    BY <1>8, RefreshedRows DEF Verified
  <2>2. \A d \in HeldDays : d <= n => Keeps(d, "sina")
    BY <1>1, <1>2 DEF Divides, Keeps, Verified, HeldDays
  <2>3. Divides(n, dailyBars')
    <3> SUFFICES ASSUME NEW d \in HeldOf(dailyBars')
                 PROVE  IF d <= n THEN Verified(dailyBars', d) /\ dailyBars'[d].volume ELSE ~Verified(dailyBars', d)
      BY DEF Divides
    <3>1. d \in Settled /\ dailyBars'[d] # NoBar
      BY DEF HeldOf
    <3>2. CASE dailyBars'[d] = dailyBars[d]
      BY <1>1, <3>1, <3>2 DEF HeldOf, Divides, Verified
    <3>3. CASE dailyBars'[d] # dailyBars[d]
      <4>1. ~Verified(dailyBars', d) /\ ~Keeps(d, "sina")
        BY <2>1, <3>1, <3>3
      <4>2. ~(d <= n)
        BY <1>5, <2>2, <3>1, <4>1
      <4> QED
        BY <4>1, <4>2
    <3> QED
      BY <3>2, <3>3
  <2> QED
    BY <1>0, <1>4, <2>3, UsableIsDivided
<1>9. ASSUME NEW quantities \in BOOLEAN, NEW answered, Refresh("doc", answered, quantities), dailyBars' # dailyBars
      PROVE  Usable(dailyBars')
  <2>1. UpgradeComplete(answered)
    BY <1>9, RefreshedRows
  <2>2. OldKeys \subseteq answered
    <3>1. OldKeys # {} => WindowStart \in Nat /\ \A e \in HeldDays : WindowStart <= e
      BY WindowReachesOldUnits
    <3>2. settledDay \in Nat /\ HeldDays \subseteq 1..settledDay
      BY DEF HistoryInv, HistoryTypeOK, Settled
    <3>3. OldKeys \subseteq HeldDays
      BY DEF OldKeys
    <3>4. OldKeys \subseteq WindowStart..settledDay
      BY <3>1, <3>2, <3>3
    <3> QED
      BY <2>1, <3>4 DEF UpgradeComplete
  <2>3. \A d \in Settled : d \in answered => dailyBars'[d].src = "doc"
    BY <1>9, <2>1, RefreshedRows DEF Keeps
  <2>4. \A d \in Settled : d \notin answered => dailyBars'[d] = dailyBars[d]
    BY <1>9, RefreshedRows
  <2>5. \A d \in HeldOf(dailyBars') : Verified(dailyBars', d) /\ dailyBars'[d].volume
    <3> TAKE d \in HeldOf(dailyBars')
    <3>1. d \in Settled /\ dailyBars'[d] # NoBar
      BY DEF HeldOf
    <3>2. CASE dailyBars'[d] # dailyBars[d]
      <4>1. dailyBars'[d].src = "doc"
        BY <2>3, <2>4, <3>1, <3>2
      <4> QED
        BY <3>1, <3>2, <4>1 DEF Verified
    <3>3. CASE dailyBars'[d] = dailyBars[d]
      <4>1. d \in HeldDays
        BY <3>1, <3>3 DEF HeldDays
      <4>2. Verified(dailyBars, d)
        <5>1. CASE d \in answered
          BY <2>3, <3>1, <3>3, <5>1 DEF Verified
        <5>2. CASE d \notin answered
          <6>1. d \notin OldKeys
            BY <2>2, <5>2
          <6>2. dailyBars[d] \in Bars /\ dailyBars[d] # NoBar
            BY <1>0, <3>1, <3>3
          <6>3. dailyBars[d].src \in {"doc", "sina", "legacy"}
            BY <6>2 DEF Bars
          <6> QED
            BY <4>1, <6>1, <6>3 DEF OldKeys, Unverified, Verified
        <5> QED
          BY <5>1, <5>2
      <4>3. dailyBars[d].volume
        BY <1>1, <1>2, <4>1, <4>2 DEF Divides
      <4> QED
        BY <3>3, <4>2, <4>3 DEF Verified
    <3> QED
      BY <3>2, <3>3
  <2> QED
    BY <1>4, <2>5 DEF Usable, Clean
<1> QED
  BY <1>6, <1>7, <1>8, <1>9 DEF HistoryNext, historyVars, NextSession, RefreshFails, ChangeLookback

\* What a reader of the bars relies on: the rows have their types in every state.
THEOREM HistoryInvariant == HistorySpec => []HistoryInv
<1>1. HistoryInit => HistoryInv
  <2> SUFFICES ASSUME HistoryInit PROVE HistoryInv
    OBVIOUS
  <2>1. MaxSession \in Nat \ {0}
    BY HistoryAssumed DEF HistoryAssumption
  <2> QED
    BY <2>1 DEF HistoryInit, HistoryInv, HistoryTypeOK, HeldDays, Bars, NoBar, Settled
<1> QED
  BY <1>1, HistoryStep, PTL DEF HistorySpec

\* Whatever sessions the sources fill and in whatever order, the rows research takes are documented
\* and have a volume (data_contract.py, history_issues and trailing_unverified_history).
THEOREM ResearchTakesVerifiedRows == HistorySpec => []UsableIsVerified
<1>1. HistoryInv => UsableIsVerified
  BY UsableIsDivided DEF HistoryInv, UsableIsVerified, HeldOf, HeldDays
<1> QED
  BY <1>1, HistoryInvariant, PTL

\* No refresh gives up a verified row, documents half of the old rows, or makes a usable history
\* unusable except by filling a gap or by a documented batch without quantities
\* (market_service.py, refresh_daily_bars).
THEOREM HistoryIsKept == HistorySpec => HistoryKept
<1>1. HistoryInv /\ [HistoryNext]_historyVars => [VerifiedStay /\ UpgradeAllOrNothing /\ BlockedOnlyByBackfill]_historyVars
  BY VerifiedRowsStay, UpgradesAreWhole, OnlyBackfillBlocks
<1> QED
  BY <1>1, HistoryInvariant, PTL DEF HistorySpec, HistoryKept

(***************************************************************************)
(* AnalysisRecords: analyses of news and reviews of memos.                 *)
(*                                                                         *)
(* Runs are appended, and a row is rewritten by the task that appends the  *)
(* run it points to; a row that is kept has been compared with its run.    *)
(* A decision leaves "pending" once, and only a decision is ever told.     *)
(***************************************************************************)

RunStatuses == Failures \cup {"completed"}
RunInput == [key : Keys, text : Texts \cup {"none"}, zoned : BOOLEAN]
RunRecords == [input : RunInput, model : Models, status : RunStatuses, output : BOOLEAN, failure : BOOLEAN]
NewsRow ==
  [text : Texts \cup {"none"}, run : Nat, source : Models \cup {"none", "heuristic"},
   status : RunStatuses \cup {"none", "disabled"}]
CandidateRow ==
  [status : Decisions \cup {"none", "pending"}, accepted : BOOLEAN, rejected : BOOLEAN, note : Reviewers \cup {"none"}]
ReviewRequest ==
  [pc : {"idle", "sent", "lost"}, cand : Candidates \cup {"none"}, target : Decisions \cup {"none"}, left : Int]

\* The variables keep their kinds, and every row points to a run that exists.
NewsTyped ==
  /\ config \in Settings /\ runs \in Seq(RunRecords)
  /\ items \in [Keys -> NewsRow] /\ handled \subseteq Keys
  /\ \A k \in Keys : items[k].run \in 0..Len(runs)

\* A request under way names a candidate and a decision, and only decisions are told.
ReviewsTyped ==
  /\ cands \in [Candidates -> CandidateRow]
  /\ ask \in [Reviewers -> ReviewRequest]
  /\ \A r \in Reviewers : ask[r].pc # "idle" => ask[r].cand \in Candidates /\ ask[r].target \in Decisions
  /\ told \subseteq [by : Reviewers, cand : Candidates, status : Decisions]

NewsInv == NewsTyped /\ AnalysisIsOwn /\ \A i \in DOMAIN runs : RunLoads(runs[i])

ReviewsInv ==
  /\ ReviewsTyped /\ DecisionsAgree
  /\ \A c \in Candidates : cands[c] # NoCandidate => CandidateLoads(cands[c])

AnalysisInv == NewsInv /\ ReviewsInv

\* The order in which _run analyses its records names each of them once.
LEMMA FreshOrder ==
  ASSUME NEW S \in SUBSET Keys
  PROVE  /\ Cardinality(S) \in Nat
         /\ SetToSeq(S) \in [1..Cardinality(S) -> S]
         /\ \A k \in S : \E i \in 1..Cardinality(S) : SetToSeq(S)[i] = k
<1>1. IsFiniteSet(S)
  <2>1. IsFiniteSet(Keys)
    BY AnalysisAssumption, FS_Interval DEF AnalysisBounds, Keys
  <2> QED
    BY <2>1, FS_Subset
<1>2. Cardinality(S) \in Nat /\ ExistsBijection(1..Cardinality(S), S)
  BY <1>1, FS_CardinalityType
<1> DEFINE D == 1..Cardinality(S)
<1>3. \E f \in [D -> S] : IsInjective(f)
  BY <1>2 DEF ExistsBijection, Bijection, Injection
<1>4. SetToSeq(S) \in [D -> S] /\ IsInjective(SetToSeq(S))
  BY <1>3, Zenon DEF SetToSeq
<1>5. IsFiniteSet(D) /\ Cardinality(D) = Cardinality(S)
  BY <1>2, FS_Interval
<1>6. SetToSeq(S) \in Injection(D, S)
  BY <1>4 DEF Injection
<1>7. SetToSeq(S) \in Surjection(D, S)
  <2> HIDE DEF D
  <2> QED
    BY <1>1, <1>5, <1>6, FS_Injection
<1> QED
  BY <1>2, <1>4, <1>7 DEF Surjection

\* What is appended can be read again (_validate_analysis_run_payload).
LEMMA EnvelopeLoads ==
  ASSUME config \in Settings, NEW input \in RunInput, NEW reply
  PROVE  /\ Envelope(input, reply) \in RunRecords
         /\ RunLoads(Envelope(input, reply))
         /\ Envelope(input, reply).input = input
         /\ Envelope(input, reply).model = config.model
<1> DEFINE s == GatewayStatus(input, reply)
<1>1. s \in RunStatuses
  <2>1. AdapterStatus(reply) \in RunStatuses
    BY DEF AdapterStatus, RunStatuses, Failures
  <2> QED
    BY <2>1 DEF GatewayStatus, RunStatuses, Failures
<1>2. Envelope(input, reply) =
        [input |-> input, model |-> config.model, status |-> s, output |-> s = "completed", failure |-> s # "completed"]
  BY DEF Envelope
<1>3. config.model \in Models
  BY DEF Settings
<1> HIDE DEF s
<1>4. CASE s = "completed"
  <2>1. Envelope(input, reply) =
          [input |-> input, model |-> config.model, status |-> s, output |-> TRUE, failure |-> FALSE]
    BY <1>2, <1>4
  <2> QED
    BY <1>1, <1>3, <1>4, <2>1 DEF RunRecords, RunLoads
<1>5. CASE s # "completed"
  <2>1. Envelope(input, reply) =
          [input |-> input, model |-> config.model, status |-> s, output |-> FALSE, failure |-> TRUE]
    BY <1>2, <1>5
  <2>2. s \in Failures
    BY <1>1, <1>5 DEF RunStatuses
  <2> QED
    BY <1>1, <1>3, <1>5, <2>1, <2>2 DEF RunRecords, RunLoads
<1> QED
  BY <1>4, <1>5

\* A news task: every record is bound to a run of its own, or keeps the one it was compared with.
LEMMA StoreAllStep ==
  ASSUME NewsInv, NEW S \in SUBSET Keys, NEW records \in [S -> Texts \cup {"none"}], NEW reuse \in SUBSET S,
         NEW fetched \in BOOLEAN, NEW reply,
         \A k \in reuse : Reusable(k) /\ records[k] = items[k].text,
         StoreAll(records, reuse, fetched, reply), UNCHANGED config
  PROVE  NewsInv'
<1> DEFINE fresh == SetToSeq(S \ reuse)
           N == Cardinality(S \ reuse)
           In(i) == InputOf(fresh[i], records[fresh[i]], fetched)
           new == [i \in 1..N |-> Envelope(In(i), reply[fresh[i]])]
           Slot(k) == CHOOSE i \in 1..N : fresh[i] = k
<1>0. /\ config \in Settings /\ config.model \in Models /\ config.on \in BOOLEAN
      /\ runs \in Seq(RunRecords) /\ items \in [Keys -> NewsRow] /\ Len(runs) \in Nat
      /\ \A k \in Keys : items[k].run \in 0..Len(runs)
  BY DEF NewsInv, NewsTyped, Settings
<1>1. /\ N \in Nat /\ fresh \in [1..N -> S \ reuse]
      /\ \A k \in S \ reuse : Slot(k) \in 1..N /\ fresh[Slot(k)] = k
  <2>1. S \ reuse \in SUBSET Keys
    OBVIOUS
  <2>2. \A k \in S \ reuse : \E i \in 1..N : fresh[i] = k
    BY <2>1, FreshOrder, Zenon
  <2> QED
    BY <2>1, <2>2, FreshOrder
<1>2. DOMAIN fresh = 1..N /\ DOMAIN records = S
  BY <1>1
<1> DEFINE Row(k) == CASE k \in reuse -> [items[k] EXCEPT !.text = records[k]]
                       [] k \notin reuse /\ ~config.on -> DisabledRow(k, records[k])
                       [] OTHER -> [text |-> records[k], run |-> Len(runs) + Slot(k),
                                    source |-> config.model, status |-> new[Slot(k)].status]
<1>3. /\ runs' = IF config.on THEN runs \o new ELSE runs
      /\ items' = [k \in Keys |-> IF k \in S THEN Row(k) ELSE items[k]]
      /\ handled' = S
  BY <1>2, Zenon DEF StoreAll
<1>4. \A i \in 1..N : /\ new[i] \in RunRecords /\ RunLoads(new[i]) /\ new[i].model = config.model
                      /\ new[i].input.key = fresh[i] /\ new[i].input.text = records[fresh[i]]
  <2> TAKE i \in 1..N
  <2>1. fresh[i] \in S \ reuse
    BY <1>1
  <2>2. In(i) \in RunInput /\ In(i).key = fresh[i] /\ In(i).text = records[fresh[i]]
    BY <2>1, AnalysisAssumption DEF InputOf, RunInput, AnalysisBounds
  <2>3. new[i] = Envelope(In(i), reply[fresh[i]])
    OBVIOUS
  <2> HIDE DEF In, new
  <2> QED
    BY <1>0, <2>2, <2>3, EnvelopeLoads
<1>5. new \in Seq(RunRecords) /\ Len(new) = N
  <2> DEFINE E(i) == Envelope(In(i), reply[fresh[i]])
  <2>1. \A i \in 1..N : E(i) \in RunRecords
    BY <1>4
  <2>2. new = [i \in 1..N |-> E(i)]
    OBVIOUS
  <2> HIDE DEF new, E, N
  <2>3. new \in [1..N -> RunRecords]
    BY <2>1, <2>2
  <2> QED
    BY <1>1, <2>3, SeqDef
<1> HIDE DEF fresh, N, In, new, Slot
<1>6. /\ runs' \in Seq(RunRecords) /\ Len(runs') \in Nat /\ Len(runs) <= Len(runs')
      /\ \A i \in 1..Len(runs) : runs'[i] = runs[i]
      /\ \A i \in DOMAIN runs' : RunLoads(runs'[i])
      /\ config.on => Len(runs') = Len(runs) + N /\ \A i \in 1..N : runs'[Len(runs) + i] = new[i]
  <2>1. CASE config.on
    <3>1. runs' = runs \o new
      BY <1>3, <2>1
    <3>2. /\ runs' \in Seq(RunRecords) /\ Len(runs') = Len(runs) + N
          /\ \A i \in 1..Len(runs) : runs'[i] = runs[i]
          /\ \A i \in 1..N : runs'[Len(runs) + i] = new[i]
      <4>1. Len(runs \o new) = Len(runs) + N /\ runs \o new \in Seq(RunRecords)
        BY <1>0, <1>5, ConcatProperties
      <4>2. \A i \in 1..(Len(runs) + N) :
              (runs \o new)[i] = IF i <= Len(runs) THEN runs[i] ELSE new[i - Len(runs)]
        BY <1>0, <1>5, ConcatProperties
      <4>3. \A i \in 1..Len(runs) : runs'[i] = runs[i]
        BY <1>0, <1>1, <3>1, <4>2
      <4>4. ASSUME NEW i \in 1..N PROVE runs'[Len(runs) + i] = new[i]
        <5>1. Len(runs) + i \in 1..(Len(runs) + N) /\ ~(Len(runs) + i <= Len(runs)) /\ (Len(runs) + i) - Len(runs) = i
          BY <1>0, <1>1
        <5> QED
          BY <3>1, <4>2, <5>1
      <4> QED
        BY <3>1, <4>1, <4>3, <4>4
    <3>3. ASSUME NEW i \in DOMAIN runs' PROVE RunLoads(runs'[i])
      <4>1. i \in 1..(Len(runs) + N)
        BY <3>2
      <4>2. CASE i <= Len(runs)
        BY <1>0, <3>2, <4>1, <4>2 DEF NewsInv
      <4>3. CASE i > Len(runs)
        <5>1. i - Len(runs) \in 1..N /\ i = Len(runs) + (i - Len(runs))
          BY <1>0, <1>1, <4>1, <4>3
        <5>2. runs'[i] = new[i - Len(runs)]
          BY <3>2, <5>1
        <5> QED
          BY <1>4, <5>1, <5>2
      <4> QED
        BY <1>0, <1>1, <4>1, <4>2, <4>3
    <3>4. Len(runs') \in Nat /\ Len(runs) <= Len(runs')
      BY <1>0, <1>1, <3>2
    <3> QED
      BY <3>2, <3>3, <3>4
  <2>2. CASE ~config.on
    BY <1>0, <1>3, <2>2 DEF NewsInv
  <2> QED
    BY <2>1, <2>2
<1>7. ASSUME NEW k \in Keys
      PROVE  /\ items'[k] \in NewsRow /\ items'[k].run \in 0..Len(runs')
             /\ items'[k].run # 0 => /\ runs'[items'[k].run].input.key = k
                                     /\ runs'[items'[k].run].input.text = items'[k].text
                                     /\ runs'[items'[k].run].status = items'[k].status
                                     /\ runs'[items'[k].run].model = items'[k].source
             /\ k \in S => (items'[k].run # 0 => runs'[items'[k].run].model = config.model)
             /\ k \in S /\ config.on => items'[k].run # 0
  <2>0. items[k] \in NewsRow /\ items[k].run \in 0..Len(runs)
    BY <1>0
  <2>1. items[k].run # 0 => /\ runs'[items[k].run] = runs[items[k].run]
                            /\ runs[items[k].run].input.key = k
                            /\ runs[items[k].run].input.text = items[k].text
                            /\ runs[items[k].run].status = items[k].status
                            /\ runs[items[k].run].model = items[k].source
    BY <1>0, <1>6, <2>0 DEF NewsInv, AnalysisIsOwn
  <2>2. CASE k \notin S
    <3>1. items'[k] = items[k]
      BY <1>3, <2>2
    <3> QED
      BY <1>0, <1>6, <2>0, <2>1, <2>2, <3>1
  <2>3. CASE k \in reuse
    <3>1. items'[k] = [items[k] EXCEPT !.text = records[k]]
      BY <1>3, <2>3
    <3>2. items'[k] = items[k]
      BY <2>0, <2>3, <3>1 DEF NewsRow
    <3>3. items[k].run # 0 /\ items[k].source = config.model
      BY <2>3 DEF Reusable
    <3> QED
      BY <1>0, <1>6, <2>0, <2>1, <3>2, <3>3
  <2>4. CASE k \in S \ reuse /\ ~config.on
    <3>1. items'[k] = DisabledRow(k, records[k])
      BY <1>3, <2>4
    <3>2. records[k] \in Texts \cup {"none"}
      BY <2>4
    <3> QED
      BY <1>0, <1>6, <2>4, <3>1, <3>2 DEF DisabledRow, NewsRow
  <2>5. CASE k \in S \ reuse /\ config.on
    <3>1. items'[k] = [text |-> records[k], run |-> Len(runs) + Slot(k),
                       source |-> config.model, status |-> new[Slot(k)].status]
      BY <1>3, <2>5
    <3>2. records[k] \in Texts \cup {"none"} /\ Slot(k) \in 1..N /\ fresh[Slot(k)] = k
      BY <1>1, <2>5
    <3>3. /\ runs'[Len(runs) + Slot(k)] = new[Slot(k)] /\ Len(runs) + Slot(k) \in 1..Len(runs')
          /\ new[Slot(k)] \in RunRecords /\ new[Slot(k)].model = config.model
          /\ new[Slot(k)].input.key = k /\ new[Slot(k)].input.text = records[k]
      BY <1>0, <1>1, <1>4, <1>6, <2>5, <3>2
    <3>4. new[Slot(k)].status \in RunStatuses
      BY <3>3 DEF RunRecords
    <3> QED
      BY <1>0, <2>5, <3>1, <3>2, <3>3, <3>4 DEF NewsRow
  <2> QED
    BY <1>0, <2>2, <2>3, <2>4, <2>5
<1>8. NewsTyped'
  <2>1. items' \in [Keys -> NewsRow]
    <3>1. items' = [k \in Keys |-> items'[k]]
      BY <1>3
    <3> QED
      BY <1>7, <3>1
  <2> QED
    BY <1>0, <1>3, <1>6, <1>7, <2>1 DEF NewsTyped
<1>9. AnalysisIsOwn'
  <2>1. handled' = S /\ config' = config
    BY <1>3
  <2> QED
    BY <1>7, <2>1, Zenon DEF AnalysisIsOwn
<1> QED
  BY <1>6, <1>8, <1>9 DEF NewsInv

\* Every step of a news task or a restart keeps the runs and the rows that name them in order.
LEMMA NewsStep == NewsInv /\ [AnalysisNext]_analysisVars => NewsInv'
<1> SUFFICES ASSUME NewsInv, [AnalysisNext]_analysisVars PROVE NewsInv'
  OBVIOUS
<1>1. ASSUME NEW S \in SUBSET Keys, NEW reply, NEW records \in [S -> Texts], RefreshNews(records, reply)
      PROVE  NewsInv'
  <2>1. StoreAll(records, {}, TRUE, reply) /\ UNCHANGED config
    BY <1>1 DEF RefreshNews
  <2>2. records \in [S -> Texts \cup {"none"}] /\ {} \in SUBSET S
    OBVIOUS
  <2> QED
    BY <2>1, <2>2, StoreAllStep, Zenon
<1>2. ASSUME NEW limit, NEW force \in BOOLEAN, NEW reply, AnalyzeExisting(limit, force, reply)
      PROVE  NewsInv'
  <2> DEFINE stored == {k \in Keys : items[k] # NoItem}
             rows == {k \in stored : Cardinality({j \in stored : j > k}) < limit}
             reuse == {k \in rows : ~force /\ Reusable(k)}
             records == [k \in rows |-> items[k].text]
  <2>1. StoreAll(records, reuse, FALSE, reply) /\ UNCHANGED config
    BY <1>2, Zenon DEF AnalyzeExisting
  <2>2. rows \in SUBSET Keys /\ reuse \in SUBSET rows
    OBVIOUS
  <2>3. records \in [rows -> Texts \cup {"none"}]
    BY <2>2 DEF NewsInv, NewsTyped, NewsRow
  <2>4. \A k \in reuse : Reusable(k) /\ records[k] = items[k].text
    BY <2>2
  <2> HIDE DEF rows, reuse, records
  <2> QED
    BY <2>1, <2>2, <2>3, <2>4, StoreAllStep, Zenon
<1>3. ASSUME NEW c \in Settings, ReconfigureAnalysis(c) PROVE NewsInv'
  BY <1>3 DEF ReconfigureAnalysis, NewsInv, NewsTyped, AnalysisIsOwn
<1>4. CASE UNCHANGED newsVars
  BY <1>4 DEF newsVars, NewsInv, NewsTyped, AnalysisIsOwn
<1>5. Migrate \/ ReviewRequests \/ UNCHANGED analysisVars => UNCHANGED newsVars
  BY DEF Migrate, ReviewRequests, EnqueueReview, AskReview, Transition, analysisVars, newsVars
<1> QED
  BY <1>1, <1>2, <1>3, <1>4, <1>5 DEF AnalysisNext, News

\* What has been decided stays decided (_transition: the UPDATE matches pending rows only).
LEMMA ToldIsDecided ==
  ASSUME ReviewsInv, NEW t \in told
  PROVE  t.cand \in Candidates /\ cands[t.cand].status \in Decisions /\ cands[t.cand] # NoCandidate
         /\ ~Undecided(t.cand)
BY DEF ReviewsInv, ReviewsTyped, DecisionsAgree, Decisions, NoCandidate, Undecided

\* The end of a request tells the reviewer a decision, or nothing (the answer of accept_analysis_review).
Tells(r, c, decision) ==
  \E dropped \in BOOLEAN :
    /\ ask' = [ask EXCEPT ![r].pc = IF dropped THEN "lost" ELSE "idle"]
    /\ told' = IF dropped THEN told ELSE told \cup {[by |-> r, cand |-> c, status |-> decision]}

\* An answer that tells the stored decision keeps what was asked and told in order.
LEMMA AnswerTells ==
  ASSUME ReviewsInv, NEW r \in Reviewers, NEW c \in Candidates, NEW decision \in Decisions,
         ask[r].pc = "sent", Tells(r, c, decision)
  PROVE  /\ ask' \in [Reviewers -> ReviewRequest]
         /\ \A q \in Reviewers : ask'[q].pc # "idle" => ask'[q].cand \in Candidates /\ ask'[q].target \in Decisions
         /\ told' \subseteq [by : Reviewers, cand : Candidates, status : Decisions]
         /\ \A t \in told' : t \in told \/ (t.cand = c /\ t.status = decision)
<1> PICK dropped \in BOOLEAN :
      /\ ask' = [ask EXCEPT ![r].pc = IF dropped THEN "lost" ELSE "idle"]
      /\ told' = IF dropped THEN told ELSE told \cup {[by |-> r, cand |-> c, status |-> decision]}
  BY DEF Tells
<1>1. ask \in [Reviewers -> ReviewRequest] /\ ask[r].cand \in Candidates /\ ask[r].target \in Decisions
  BY DEF ReviewsInv, ReviewsTyped
<1>2. /\ ask' \in [Reviewers -> ReviewRequest]
      /\ \A q \in Reviewers : ask'[q].pc # "idle" => ask'[q].cand \in Candidates /\ ask'[q].target \in Decisions
  BY <1>1 DEF ReviewsInv, ReviewsTyped, ReviewRequest
<1>3. told' \subseteq [by : Reviewers, cand : Candidates, status : Decisions]
  BY DEF ReviewsInv, ReviewsTyped
<1> QED
  BY <1>2, <1>3

\* Every step of a review keeps the candidates, the requests and what was told in order.
LEMMA ReviewsStep == ReviewsInv /\ [AnalysisNext]_analysisVars => ReviewsInv'
<1> SUFFICES ASSUME ReviewsInv, [AnalysisNext]_analysisVars PROVE ReviewsInv'
  OBVIOUS
<1>0. ReviewsTyped
  BY DEF ReviewsInv
<1>1. ASSUME NEW c \in Candidates, NEW memo, EnqueueReview(c, memo) PROVE ReviewsInv'
  <2>1. cands[c] = NoCandidate /\ cands' = [cands EXCEPT ![c] = [NoCandidate EXCEPT !.status = "pending"]]
        /\ ask' = ask /\ told' = told
    BY <1>1 DEF EnqueueReview
  <2> DEFINE row == [NoCandidate EXCEPT !.status = "pending"]
  <2>2. row \in CandidateRow /\ CandidateLoads(row)
    BY DEF NoCandidate, CandidateRow, CandidateLoads
  <2>3. \A t \in told : t.cand # c
    BY <2>1, ToldIsDecided
  <2>4. cands' \in [Candidates -> CandidateRow]
    BY <1>0, <2>1, <2>2 DEF ReviewsTyped
  <2>5. \A d \in Candidates : cands'[d] = IF d = c THEN row ELSE cands[d]
    BY <1>0, <2>1 DEF ReviewsTyped
  <2> HIDE DEF row
  <2>6. DecisionsAgree'
    BY <2>1, <2>3, <2>5, ToldIsDecided DEF ReviewsInv, DecisionsAgree
  <2>7. \A d \in Candidates : cands'[d] # NoCandidate => CandidateLoads(cands'[d])
    BY <2>2, <2>5 DEF ReviewsInv
  <2> QED
    BY <1>0, <2>1, <2>4, <2>6, <2>7 DEF ReviewsInv, ReviewsTyped
<1>2. ASSUME NEW r \in Reviewers, NEW c \in Candidates, NEW target \in Decisions, AskReview(r, c, target) PROVE ReviewsInv'
  <2>1. /\ ask' = [ask EXCEPT ![r] = [pc |-> "sent", cand |-> c, target |-> target, left |-> ask[r].left - 1]]
        /\ cands' = cands /\ told' = told
    BY <1>2 DEF AskReview
  <2>2. ask' \in [Reviewers -> ReviewRequest]
    BY <1>0, <2>1 DEF ReviewsTyped, ReviewRequest
  <2>3. \A q \in Reviewers : ask'[q].pc # "idle" => ask'[q].cand \in Candidates /\ ask'[q].target \in Decisions
    BY <1>0, <2>1 DEF ReviewsTyped
  <2> QED
    BY <2>1, <2>2, <2>3 DEF ReviewsInv, ReviewsTyped, DecisionsAgree
<1>3. ASSUME NEW r \in Reviewers, Transition(r) PROVE ReviewsInv'
  <2> DEFINE c == ask[r].cand
             target == ask[r].target
  <2>1. ask[r].pc = "sent" /\ c \in Candidates /\ target \in Decisions
    BY <1>0, <1>3 DEF Transition, ReviewsTyped
  <2>2. CASE Undecided(c) /\ cands' = [cands EXCEPT ![c] = Decided(r, target)] /\ Answer(r, c, cands')
    <3>1. Decided(r, target) \in CandidateRow /\ Decided(r, target).status = target /\ CandidateLoads(Decided(r, target))
      BY <2>1 DEF Decided, CandidateRow, CandidateLoads, Decisions
    <3>2. \A d \in Candidates : cands'[d] = IF d = c THEN Decided(r, target) ELSE cands[d]
      BY <1>0, <2>1, <2>2 DEF ReviewsTyped
    <3>3. cands' \in [Candidates -> CandidateRow]
      BY <1>0, <2>1, <2>2, <3>1 DEF ReviewsTyped
    <3>4. \A t \in told : cands'[t.cand].status = t.status
      BY <2>2, <3>2, ToldIsDecided DEF ReviewsInv, DecisionsAgree
    <3>5. cands'[c].status = target /\ Tells(r, c, target)
      BY <2>1, <2>2, <3>1, <3>2 DEF Answer, Tells
    <3> HIDE DEF c, target
    <3>6. /\ ask' \in [Reviewers -> ReviewRequest]
          /\ \A q \in Reviewers : ask'[q].pc # "idle" => ask'[q].cand \in Candidates /\ ask'[q].target \in Decisions
          /\ told' \subseteq [by : Reviewers, cand : Candidates, status : Decisions]
          /\ \A t \in told' : t \in told \/ (t.cand = c /\ t.status = target)
      BY <2>1, <3>5, AnswerTells
    <3>7. \A d \in Candidates : cands'[d] # NoCandidate => CandidateLoads(cands'[d])
      BY <3>1, <3>2 DEF ReviewsInv
    <3> QED
      BY <3>3, <3>4, <3>5, <3>6, <3>7 DEF ReviewsInv, ReviewsTyped, DecisionsAgree
  <2>3. CASE cands[c].status = target /\ Answer(r, c, cands) /\ cands' = cands
    <3>1. \A t \in told : cands[t.cand].status = t.status
      BY DEF ReviewsInv, DecisionsAgree
    <3>2. cands \in [Candidates -> CandidateRow] /\ Tells(r, c, target)
      BY <1>0, <2>3 DEF ReviewsTyped, Answer, Tells
    <3> HIDE DEF c, target
    <3>3. /\ ask' \in [Reviewers -> ReviewRequest]
          /\ \A q \in Reviewers : ask'[q].pc # "idle" => ask'[q].cand \in Candidates /\ ask'[q].target \in Decisions
          /\ told' \subseteq [by : Reviewers, cand : Candidates, status : Decisions]
          /\ \A t \in told' : t \in told \/ (t.cand = c /\ t.status = target)
      BY <2>1, <3>2, AnswerTells
    <3> QED
      BY <2>3, <3>1, <3>2, <3>3 DEF ReviewsInv, ReviewsTyped, DecisionsAgree
  <2>4. CASE ask' = [ask EXCEPT ![r].pc = "idle"] /\ cands' = cands /\ told' = told
    <3>1. ask' \in [Reviewers -> ReviewRequest]
      BY <1>0, <2>4 DEF ReviewsTyped, ReviewRequest
    <3>2. \A q \in Reviewers : ask'[q].pc # "idle" => ask'[q].cand \in Candidates /\ ask'[q].target \in Decisions
      BY <1>0, <2>4 DEF ReviewsTyped, ReviewRequest
    <3> QED
      BY <2>4, <3>1, <3>2 DEF ReviewsInv, ReviewsTyped, DecisionsAgree
  <2> QED
    BY <1>3, <2>2, <2>3, <2>4 DEF Transition
<1>4. CASE UNCHANGED reviewVars
  BY <1>4 DEF reviewVars, ReviewsInv, ReviewsTyped, DecisionsAgree
<1>5. Migrate \/ News \/ UNCHANGED analysisVars => UNCHANGED reviewVars
  BY DEF Migrate, News, RefreshNews, AnalyzeExisting, ReconfigureAnalysis, analysisVars, reviewVars
<1> QED
  BY <1>1, <1>2, <1>3, <1>4, <1>5 DEF AnalysisNext, ReviewRequests

\* Analyses, rows and reviews agree after every news task, restart and review request
\* (news_service.py and review_service.py).
THEOREM AnalysisInvariant == AnalysisSpec => []AnalysisInv
<1>1. AnalysisInit => NewsInv
  <2> SUFFICES ASSUME AnalysisInit PROVE NewsInv
    OBVIOUS
  <2>1. runs = <<>> /\ runs \in Seq(RunRecords) /\ Len(runs) = 0 /\ DOMAIN runs = {}
    BY DEF AnalysisInit
  <2>2. \A k \in Keys : items[k] = NoItem /\ items[k].run = 0
    BY DEF AnalysisInit, NoItem
  <2>3. items \in [Keys -> NewsRow]
    BY DEF AnalysisInit, NoItem, NewsRow
  <2> QED
    BY <2>1, <2>2, <2>3 DEF AnalysisInit, NewsInv, NewsTyped, AnalysisIsOwn
<1>2. AnalysisInit => ReviewsInv
  <2> SUFFICES ASSUME AnalysisInit PROVE ReviewsInv
    OBVIOUS
  <2>1. cands \in [Candidates -> CandidateRow]
    BY DEF AnalysisInit, NoCandidate, CandidateRow
  <2>2. NoAsk \in ReviewRequest /\ NoAsk.pc = "idle"
    BY AnalysisAssumption DEF NoAsk, ReviewRequest, AnalysisBounds
  <2> QED
    BY <2>1, <2>2 DEF AnalysisInit, ReviewsInv, ReviewsTyped, DecisionsAgree
<1>3. AnalysisInv /\ [AnalysisNext]_analysisVars => AnalysisInv'
  BY NewsStep, ReviewsStep DEF AnalysisInv
<1> QED
  BY <1>1, <1>2, <1>3, PTL DEF AnalysisSpec, AnalysisInv

\* For any number of news items, models, candidates and reviewers: an item shows the analysis of its
\* own text by the model its row names, every stored row can be read, and nobody is told a decision
\* other than the stored one (_analysis_is_reusable, _run and _transition).
THEOREM AnalysisIsTruthful == AnalysisSpec => []AnalysisTruthful
<1>1. AnalysisInv => AnalysisTruthful
  BY DEF AnalysisInv, NewsInv, ReviewsInv, AnalysisTruthful, RowsLoad
<1> QED
  BY <1>1, AnalysisInvariant, PTL
=============================================================================
