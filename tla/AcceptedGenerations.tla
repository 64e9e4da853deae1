------------------------ MODULE AcceptedGenerations ------------------------
(***************************************************************************)
(* What the receiver of local display bundles promises its producers and   *)
(* its readers, without files, locks or crashes: one current generation,   *)
(* replaced only by a newer one, and the set of generations it ever        *)
(* accepted.  A repeated upload of an accepted generation is acknowledged  *)
(* again and changes nothing; everything else is refused.                  *)
(***************************************************************************)
EXTENDS Naturals

CONSTANTS Bundles,   \* bundles, each with a natural sequence number seq
          None       \* no generation yet

VARIABLES latest, accepted

Init == latest = None /\ accepted = {}

Newer(b) == latest # None => latest.seq < b.seq

Accept(b) ==
  /\ Newer(b)
  /\ latest' = b
  /\ accepted' = accepted \cup {b}

\* An acknowledgement (accepted or already_accepted) is issued only for these.
Acknowledged(b) == b \in accepted

Next == \E b \in Bundles : Accept(b)

Spec == Init /\ [][Next]_<<latest, accepted>>
=============================================================================
