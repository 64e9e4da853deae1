----------------------------- MODULE ShadowAuth -----------------------------
(***************************************************************************)
(* verify_request of backend/app/workspace/shadow_auth.py: a signed        *)
(* request is admitted inside a window around the receiver's clock, and    *)
(* its nonce is reserved as a file so that the same request is never       *)
(* served twice.  Every caller holds the sync domain's writer lock, so one *)
(* reservation is under way at a time (reserving), but creating the file   *)
(* and writing the expiry into it are two steps, and the process may die   *)
(* in between.                                                             *)
(*                                                                         *)
(* A request is [nonce, created]; its signature stands for its identity.   *)
(* The network may repeat a request at any time.  The receiver's clock may *)
(* be set back; times are in units of which Window are 120 s.              *)
(***************************************************************************)
EXTENDS Integers, FiniteSets

CONSTANTS
  Nonces,
  Window,      \* accepted distance between stamp and clock (code: 120 s)
  Retention,   \* life of a reservation after the stamp (code: 241 s)
  MaxNonces,   \* max_nonces
  Empty,       \* a reservation whose expiry was not written
  NoRequest,
  MaxTime,     \* bound: the clock
  MaxSetback   \* bound: how far the clock is set back in total

ASSUME AuthAssumption ==
  /\ Window \in Nat /\ Retention \in Nat /\ MaxNonces \in Nat
  /\ MaxTime \in Nat /\ MaxSetback \in Nat
  /\ MaxSetback <= Retention - Window
  /\ Empty \notin Int

VARIABLES
  now,       \* the receiver's clock
  setback,   \* by how much it was set back so far
  sent,      \* signed requests, which the network may deliver any number of times
  nonces,    \* nonces/: nonce -> expiry, or Empty
  reserving, \* the request whose reservation is being written, or NoRequest
  served     \* nonce -> number of times a request passed verify_request

authVars == <<now, setback, sent, nonces, reserving, served>>

AuthInit ==
  /\ now = Window /\ setback = 0 /\ sent = {} /\ reserving = NoRequest
  /\ nonces = [n \in {} |-> Empty] /\ served = [n \in Nonces |-> 0]

Reserved == DOMAIN nonces
Keep(S) == [n \in S |-> nonces[n]]

\* signed_headers: a fresh nonce, stamped by the producer's clock.
Sign(n) ==
  /\ \A r \in sent : r.nonce # n
  /\ \E stamp \in (now - Window)..(now + Window) :
       sent' = sent \cup {[nonce |-> n, created |-> stamp]}
  /\ UNCHANGED <<now, setback, nonces, reserving, served>>

InWindow(r) == r.created - Window <= now /\ now <= r.created + Window
Expired == {n \in Reserved : nonces[n] # Empty /\ nonces[n] < now}
Readable == \A n \in Reserved : nonces[n] # Empty
Survivors == Reserved \ Expired

HasBudget == Cardinality(Survivors) < MaxNonces

\* The O_EXCL creation of the nonce's file, after the sweep of expired ones.
Admit(r) ==
  /\ reserving = NoRequest /\ r \in sent /\ InWindow(r) /\ Readable
  /\ HasBudget /\ r.nonce \notin Survivors
  /\ nonces' = [n \in Survivors \cup {r.nonce} |-> IF n \in Survivors THEN nonces[n] ELSE Empty]
  /\ reserving' = r
  /\ UNCHANGED <<now, setback, sent, served>>

\* Refused after the sweep: replay, budget exhausted, or no room in the sync domain.
Refuse(r) ==
  /\ reserving = NoRequest /\ r \in sent /\ InWindow(r) /\ Readable
  /\ nonces' = Keep(Survivors)
  /\ UNCHANGED <<now, setback, sent, reserving, served>>

\* The sweep meets a reservation that is no number: float() raises, wherever it had got to.
RefuseUnreadable(r) ==
  /\ reserving = NoRequest /\ r \in sent /\ InWindow(r) /\ ~Readable
  /\ \E swept \in SUBSET Expired : nonces' = Keep(Reserved \ swept)
  /\ UNCHANGED <<now, setback, sent, reserving, served>>

\* Mutant: a reservation lives as long as its request is acceptable on a steady clock.
WriteExpiryOfWindow ==
  /\ reserving # NoRequest
  /\ nonces' = [nonces EXCEPT ![reserving.nonce] = reserving.created + Window]
  /\ served' = [served EXCEPT ![reserving.nonce] = @ + 1]
  /\ reserving' = NoRequest
  /\ UNCHANGED <<now, setback, sent>>

\* The expiry is written and the request goes on to its handler.
WriteExpiry ==
  /\ reserving # NoRequest
  /\ nonces' = [nonces EXCEPT ![reserving.nonce] = reserving.created + Retention]
  /\ served' = [served EXCEPT ![reserving.nonce] = @ + 1]
  /\ reserving' = NoRequest
  /\ UNCHANGED <<now, setback, sent>>

HandlerDies ==
  /\ reserving # NoRequest /\ reserving' = NoRequest
  /\ UNCHANGED <<now, setback, sent, nonces, served>>

AuthTick ==
  /\ now < MaxTime /\ now' = now + 1
  /\ UNCHANGED <<setback, sent, nonces, reserving, served>>

SetClockBack ==
  /\ now > 0 /\ setback < MaxSetback
  /\ now' = now - 1 /\ setback' = setback + 1
  /\ UNCHANGED <<sent, nonces, reserving, served>>

AuthNext ==
  \/ \E n \in Nonces : Sign(n)
  \/ \E r \in sent : Admit(r) \/ Refuse(r) \/ RefuseUnreadable(r)
  \/ WriteExpiry \/ HandlerDies \/ AuthTick \/ SetClockBack

AuthSpec == AuthInit /\ [][AuthNext]_authVars

-----------------------------------------------------------------------------

\* Types of the clock, the requests, the reservations and the handler.
AuthTypeOK ==
  /\ now \in Int /\ setback \in 0..MaxSetback
  /\ sent \subseteq [nonce : Nonces, created : Int]
  /\ Reserved \subseteq Nonces /\ \A n \in Reserved : nonces[n] \in Int \cup {Empty}
  /\ reserving \in sent \cup {NoRequest}
  /\ served \in [Nonces -> Nat]

\* A request is served at most once, however often the network repeats it, although expired
\* reservations are swept and the clock is set back by up to Retention - Window.
ServedOnce == \A n \in Nonces : served[n] <= 1

\* nonces/ never holds more than max_nonces reservations.
ReservationsBounded == Cardinality(Reserved) <= MaxNonces

\* verify_request: no replay is served, and the replay table keeps its bound.
NoReplay == ServedOnce /\ ReservationsBounded

\* The code says that an abandoned O_EXCL marker must not reject permanently (shadow_auth.py,
\* comment in verify_request).  A reservation without an expiry, left by a crash, would make
\* every later sweep raise.
NoAbandonedMarker == reserving = NoRequest => Readable
=============================================================================
