----------------------------- MODULE LoginLimits -----------------------------
(***************************************************************************)
(* The two limits on wrong passwords: the process-local table of the login *)
(* and registration handlers (security.py, LoginThrottle), used by several *)
(* handler threads at once, and the counter row of the account operations  *)
(* (account_api.py, _reauthenticate), which is read and written under the  *)
(* lock of the guard row.  The clock does not go back.                     *)
(***************************************************************************)
EXTENDS Naturals, FiniteSets, Sequences

CONSTANTS Clients,      \* client addresses (hashed keys)
          Threads,      \* handler threads
          MaxEntries,   \* keys the table holds
          MaxFailures,  \* failures allowed in a window
          Window,       \* length of a window
          MaxTime,      \* bound: the clock
          MaxTries      \* bound: requests of all clients

LimitsAssumption == MaxEntries \in Nat \ {0} /\ MaxFailures \in Nat \ {0} /\ Window \in Nat \ {0}

VARIABLES now, attempts,   \* the table: entries <<key, failure times>> in insertion order
          thread,          \* per thread, the client whose password it is verifying, or "none"
          wrong,           \* history: failed verifications per client since its last success
          row,             \* the counter row of one account
          rewrong,         \* history: wrong passwords of that account since its last success
          tries

vars == <<now, attempts, thread, wrong, row, rewrong, tries>>

Init == /\ now = 0 /\ attempts = <<>> /\ tries = 0
        /\ thread = [t \in Threads |-> "none"]
        /\ wrong = [c \in Clients |-> <<>>]
        /\ row = [start |-> 0, failures |-> 0, exists |-> FALSE]
        /\ rewrong = <<>>

\* Times less than a window old (_discard_expired drops the others from the left).
Fresh(ts) == SelectSeq(ts, LAMBDA t : now - t < Window)
IndexOf(c) == {i \in DOMAIN attempts : attempts[i].key = c}

\* is_limited also discards what has expired.
Limited(c) == \E i \in IndexOf(c) : Len(Fresh(attempts[i].times)) >= MaxFailures
Discarded(c) == [i \in DOMAIN attempts |->
                   IF i \in IndexOf(c) THEN [attempts[i] EXCEPT !.times = Fresh(@)] ELSE attempts[i]]

\* An eviction that lets the table grow one beyond its bound.
RecordFailureLate(c) ==
    IF IndexOf(c) # {}
    THEN [i \in DOMAIN attempts |-> IF i \in IndexOf(c) THEN [attempts[i] EXCEPT !.times = Append(Fresh(@), now)] ELSE attempts[i]]
    ELSE Append(IF Len(attempts) > MaxEntries THEN Tail(attempts) ELSE attempts, [key |-> c, times |-> <<now>>])

\* A new key takes the place of the one inserted first when the table is full.
RecordFailure(c) ==
    IF IndexOf(c) # {}
    THEN [i \in DOMAIN attempts |-> IF i \in IndexOf(c) THEN [attempts[i] EXCEPT !.times = Append(Fresh(@), now)] ELSE attempts[i]]
    ELSE Append(IF Len(attempts) >= MaxEntries THEN Tail(attempts) ELSE attempts, [key |-> c, times |-> <<now>>])

\* A limited request is recorded as a failure without verifying anything.
Turned(t, c) ==
    /\ thread[t] = "none" /\ tries < MaxTries
    /\ Limited(c)
    /\ attempts' = RecordFailure(c)
    /\ tries' = tries + 1
    /\ UNCHANGED <<now, thread, wrong, row, rewrong>>

StartVerify(t, c) ==
    /\ thread[t] = "none" /\ tries < MaxTries
    /\ ~Limited(c)
    /\ attempts' = Discarded(c)
    /\ thread' = [thread EXCEPT ![t] = c]
    /\ tries' = tries + 1
    /\ UNCHANGED <<now, wrong, row, rewrong>>

Fail(t) ==
    /\ thread[t] # "none"
    /\ attempts' = RecordFailure(thread[t])
    /\ wrong' = [wrong EXCEPT ![thread[t]] = Append(@, now)]
    /\ thread' = [thread EXCEPT ![t] = "none"]
    /\ UNCHANGED <<now, row, rewrong, tries>>

Succeed(t) ==
    /\ thread[t] # "none"
    /\ attempts' = SelectSeq(attempts, LAMBDA e : e.key # thread[t])
    /\ wrong' = [wrong EXCEPT ![thread[t]] = <<>>]
    /\ thread' = [thread EXCEPT ![t] = "none"]
    /\ UNCHANGED <<now, row, rewrong, tries>>

\* The window and the count _reauthenticate goes on with.
Start == IF ~row.exists \/ now - row.start >= Window THEN now ELSE row.start
Count == IF ~row.exists \/ now - row.start >= Window THEN 0 ELSE row.failures

ReauthWrong ==
    /\ tries < MaxTries /\ Count < MaxFailures
    /\ row' = [start |-> Start, failures |-> Count + 1, exists |-> TRUE]
    /\ rewrong' = Append(rewrong, now)
    /\ tries' = tries + 1
    /\ UNCHANGED <<now, attempts, thread, wrong>>

\* The reset of the counter is part of the operation's transaction: an operation
\* that is refused after the password was accepted rolls it back.
ReauthRight(committed) ==
    /\ tries < MaxTries /\ Count < MaxFailures
    /\ IF committed THEN row' = [start |-> now, failures |-> 0, exists |-> TRUE] /\ rewrong' = <<>>
                    ELSE UNCHANGED <<row, rewrong>>
    /\ tries' = tries + 1
    /\ UNCHANGED <<now, attempts, thread, wrong>>

Tick == now < MaxTime /\ now' = now + 1 /\ UNCHANGED <<attempts, thread, wrong, row, rewrong, tries>>

Next == \/ Tick \/ ReauthWrong
        \/ \E b \in BOOLEAN : ReauthRight(b)
        \/ \E t \in Threads : Fail(t) \/ Succeed(t) \/ \E c \in Clients : Turned(t, c) \/ StartVerify(t, c)

Spec == Init /\ [][Next]_vars

LimitsTypeOK == /\ now \in 0..MaxTime /\ tries \in 0..MaxTries
                /\ \A i \in DOMAIN attempts : attempts[i].key \in Clients
                /\ row.failures \in 0..MaxFailures

\* At most so many entries of a history fall in one window.
InWindow(h, n) == \A t \in 0..MaxTime : Len(SelectSeq(h, LAMBDA x : t <= x /\ x < t + Window)) <= n

\* The table never holds more keys than its bound, and never a key twice.
TableBounded == /\ Len(attempts) <= MaxEntries
                /\ \A i, j \in DOMAIN attempts : attempts[i].key = attempts[j].key => i = j

\* While the table has room for every client, a client that never succeeds has
\* in any window at most MaxFailures wrong passwords verified, and one more for
\* each further thread that had passed the check when the limit was reached.
LoginBudget == \A c \in Clients : InWindow(wrong[c], MaxFailures + Cardinality(Threads) - 1)

\* The account counter restarts with its window, so any interval of a window's
\* length sees at most two windows' worth of wrong passwords.
ReauthBudget == InWindow(rewrong, 2 * MaxFailures)

\* The throttles in one, for a table that has room for every client.
ThrottlesHold == TableBounded /\ (Cardinality(Clients) <= MaxEntries => LoginBudget) /\ ReauthBudget
=============================================================================
