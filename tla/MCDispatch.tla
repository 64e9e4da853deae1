----------------------------- MODULE MCDispatch -----------------------------
(* LocalDispatch on a small calendar.                                       *)
EXTENDS LocalDispatch, TLC

CONSTANTS i1, i2, p1, p2

MCTimes == 0..MaxTime
MCSequences == 0..(MaxTime + 4)
MCExpiries == 0..(MaxTime + BundleTTL)
MCJobNos == 0..(MaxRetries + 2)
MCContents == Slots \X (1..MaxAttempts)
Symmetry == Permutations(Procs) \cup Permutations(Identities)
=============================================================================
