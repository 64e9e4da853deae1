----------------------------- MODULE BoundedCall -----------------------------
(***************************************************************************)
(* One provider call in an owned child process (bounded_sdk.py): the       *)
(* parent waits for the pipe up to a deadline, reads one bounded message,  *)
(* and in its finally block closes the pipe and ends the child whatever    *)
(* happened.  The child may hang in the library, die, ignore SIGTERM, or   *)
(* answer late.                                                            *)
(***************************************************************************)
EXTENDS Naturals

CONSTANTS Timeout,    \* ticks the parent waits for the pipe
          JoinTicks   \* ticks each join waits

ASSUME BoundedAssumption == Timeout \in Nat \ {0} /\ JoinTicks \in Nat \ {0}

VARIABLES parent,   \* "poll", "recv", "join1", "join2", "join3", "done"
          child,    \* "call", "sending", "sent", "exited", "killed"
          stubborn, \* the child ignores SIGTERM
          pipe,     \* "empty", "part", "whole", "closed" (end of file)
          message,  \* what the child sends
          outcome,  \* what the caller gets
          waited,   \* ticks of the parent's present wait
          signals   \* signals sent to the child

callVars == <<parent, child, stubborn, pipe, message, outcome, waited, signals>>

Running == child \in {"call", "sending", "sent"}
Messages == {"records", "unsupported", "error"}

CallInit == /\ parent = "poll" /\ child = "call" /\ stubborn \in BOOLEAN
        /\ pipe = "empty" /\ message = "none" /\ outcome = "none"
        /\ waited = 0 /\ signals = {}

\* The library call ends: _child turns a result or any exception into one message.
ChildFinish(m) ==
    /\ child = "call"
    /\ message' = m
    /\ child' = "sending"
    /\ UNCHANGED <<parent, stubborn, pipe, outcome, waited, signals>>

\* send_bytes: a large message needs several writes; poll sees the first one.
ChildSend ==
    /\ child = "sending" /\ pipe \in {"empty", "part"}
    /\ \/ pipe' = "whole" /\ child' = "sent"
       \/ pipe = "empty" /\ pipe' = "part" /\ child' = child
    /\ UNCHANGED <<parent, stubborn, message, outcome, waited, signals>>

ChildExit ==
    /\ child = "sent"
    /\ child' = "exited"
    /\ UNCHANGED <<parent, stubborn, pipe, message, outcome, waited, signals>>

\* The child dies without an answer, or in the middle of one.
ChildDie ==
    /\ child \in {"call", "sending"}
    /\ child' = "exited"
    /\ pipe' = IF pipe = "whole" THEN pipe ELSE "closed"
    /\ UNCHANGED <<parent, stubborn, message, outcome, waited, signals>>

Readable == pipe # "empty"

PollReady ==
    /\ parent = "poll" /\ Readable
    /\ parent' = "recv"
    /\ UNCHANGED <<child, stubborn, pipe, message, outcome, waited, signals>>

\* Mutant: the deadline leaves the finally block out.
PollTimeoutReturns ==
    /\ parent = "poll" /\ ~Readable /\ waited >= Timeout
    /\ outcome' = "timeout" /\ parent' = "done" /\ waited' = 0
    /\ UNCHANGED <<child, stubborn, pipe, message, signals>>
PollTimeout ==
    /\ parent = "poll" /\ ~Readable /\ waited >= Timeout
    /\ outcome' = "timeout" /\ parent' = "join1" /\ waited' = 0
    /\ UNCHANGED <<child, stubborn, pipe, message, signals>>

\* recv_bytes returns the whole message or meets the end of file.
Recv ==
    /\ parent = "recv" /\ pipe \in {"whole", "closed"}
    /\ outcome' = IF pipe = "whole" THEN message ELSE "invalid_worker_response"
    /\ parent' = "join1" /\ waited' = 0
    /\ UNCHANGED <<child, stubborn, pipe, message, signals>>

\* join, then terminate and join, then kill and join; a child that has ended
\* ends the sequence.
Joined ==
    /\ parent \in {"join1", "join2", "join3"} /\ ~Running
    /\ parent' = "done"
    /\ UNCHANGED <<child, stubborn, pipe, message, outcome, waited, signals>>

Terminate ==
    /\ parent = "join1" /\ Running /\ waited >= JoinTicks
    /\ signals' = signals \cup {"term"} /\ parent' = "join2" /\ waited' = 0
    /\ UNCHANGED <<child, stubborn, pipe, message, outcome>>

\* Mutant: SIGTERM is sent again instead of SIGKILL.
KillTermAgain ==
    /\ parent = "join2" /\ Running /\ waited >= JoinTicks
    /\ signals' = signals \cup {"term"} /\ parent' = "join3" /\ waited' = 0
    /\ UNCHANGED <<child, stubborn, pipe, message, outcome>>
Kill ==
    /\ parent = "join2" /\ Running /\ waited >= JoinTicks
    /\ signals' = signals \cup {"kill"} /\ parent' = "join3" /\ waited' = 0
    /\ UNCHANGED <<child, stubborn, pipe, message, outcome>>

Signalled == Running /\ ("kill" \in signals \/ ("term" \in signals /\ ~stubborn))

\* The operating system delivers a signal.
SignalArrives ==
    /\ Signalled
    /\ child' = "killed"
    /\ pipe' = IF pipe = "whole" THEN pipe ELSE "closed"
    /\ UNCHANGED <<parent, stubborn, message, outcome, waited, signals>>

\* Time passes while the parent waits; a signal is delivered within a join.
CallTick ==
    /\ \/ parent = "poll" /\ waited < Timeout
       \/ parent \in {"join1", "join2"} /\ waited < JoinTicks /\ ~Signalled
    /\ waited' = waited + 1
    /\ UNCHANGED <<parent, child, stubborn, pipe, message, outcome, signals>>

CallNext == \/ \E m \in Messages : ChildFinish(m)
        \/ ChildSend \/ ChildExit \/ ChildDie
        \/ PollReady \/ PollTimeout \/ Recv \/ Joined \/ Terminate \/ Kill \/ SignalArrives \/ CallTick

CallSpec == CallInit /\ [][CallNext]_callVars

ParentStep == PollReady \/ PollTimeout \/ Recv \/ Joined \/ Terminate \/ Kill \/ SignalArrives

\* The parent and the clock go on, a begun send goes on; the library call itself
\* may hang for ever.
FairCallSpec == CallSpec /\ WF_callVars(ParentStep) /\ WF_callVars(CallTick) /\ WF_callVars(ChildSend /\ pipe' = "whole")

Outcomes == Messages \cup {"none", "timeout", "invalid_worker_response"}

BoundedTypeOK == /\ parent \in {"poll", "recv", "join1", "join2", "join3", "done"}
                 /\ child \in {"call", "sending", "sent", "exited", "killed"}
                 /\ pipe \in {"empty", "part", "whole", "closed"}
                 /\ message \in Messages \cup {"none"} /\ outcome \in Outcomes
                 /\ signals \subseteq {"term", "kill"}

\* A call never returns while its child is alive ("Owned child processes, not
\* unkillable timeout threads").
NoOrphan == parent = "done" => ~Running

\* What a caller gets is the child's whole message, a deadline or an explicit
\* failure, never a partial or a late answer.
AnswerIsWhole == outcome \in Messages => pipe = "whole" /\ outcome = message

\* No wait is longer than its limit, and a child that outlived the first join has been
\* asked to end, one that outlived the second has been killed.
WaitsBounded ==
    /\ waited \in Nat /\ (parent = "poll" => waited <= Timeout)
    /\ parent \in {"join1", "join2"} => waited <= JoinTicks
    /\ parent = "join2" => "term" \in signals
    /\ parent = "join3" => "kill" \in signals

\* One provider call: its child is owned, its answer whole, its waits bounded.
CallsOwned == BoundedTypeOK /\ NoOrphan /\ AnswerIsWhole /\ WaitsBounded

\* Every call ends, also when the library hangs and the child ignores SIGTERM
\* ("Hard, cross-platform deadlines for public provider calls").
CallEnds == <>(parent = "done")
=============================================================================
