---------------------------- MODULE ChunkStaging ----------------------------
(***************************************************************************)
(* Chunked uploads: ChunkStaging of backend/app/workspace/shadow_chunks.py *)
(* behind the routes /sync/chunk and /sync/commit of shadow_api.py, and    *)
(* the producers that call upload_bundle_auto of shadow_client.py.         *)
(*                                                                         *)
(* An upload is [seq]: the digest of a bundle with that sequence, split    *)
(* into parts 1..Total (the code counts from 0).  A request runs under the *)
(* sync domain's writer lock, so at most one request is under way, but     *)
(* each file it creates or deletes is a step of its own, and the process   *)
(* may die between two of them.  Directory mtimes are kept as ages.        *)
(* Producers retry from the first part; a request may be lost, handled     *)
(* after its sender gave up, or handled although its answer is lost.  The  *)
(* store behind commit is called by its contract, AcceptedGenerations,     *)
(* which LocalDisplayStore is shown to implement.                          *)
(***************************************************************************)
EXTENDS Naturals, FiniteSets

CONSTANTS
  Uploads,     \* [seq |-> n], one per bundle
  Total,       \* parts of an upload (code: at most MAX_CHUNKS = 4)
  TTL,         \* STAGING_TTL_SECONDS, in ticks
  NoUpload,
  SweepMayDie, \* whether a process may die inside rmtree
  MaxLosses    \* bound: crashes, losses, timeouts, refusals and dead producers

Parts == 1..Total

\* A staging directory: total and receipt are files, age is its mtime.
Directory == [total : BOOLEAN, parts : SUBSET Parts, receipt : BOOLEAN, age : 0..(TTL + 1)]

ChunkAssumption ==
  /\ \A u \in Uploads : u.seq \in Nat
  /\ Total \in Nat \ {0} /\ TTL \in Nat \ {0} /\ MaxLosses \in Nat
  /\ NoUpload \notin Uploads \cup Directory /\ SweepMayDie \in BOOLEAN

ASSUME ChunkAssumed == ChunkAssumption

VARIABLES
  dir,        \* chunks/<upload>: [total, parts, receipt, age], or NoUpload
  latest,     \* the store: current generation
  taken,      \*            generations it ever accepted
  request,    \* the request under way: [u, req, step], or NoUpload
  net,        \* requests on their way: [u, req]; req is a part, or Commit
  pr,         \* producer of each upload: [state, req, aged]; aged: a tick fell into this attempt
  losses

chunkVars == <<dir, latest, taken, request, net, pr, losses>>
store == <<latest, taken>>

Store == INSTANCE AcceptedGenerations WITH Bundles <- Uploads, None <- NoUpload, accepted <- taken

Commit == Total + 1      \* the request after the last part
Idle == [state |-> "idle", req |-> 1, aged |-> FALSE]
Fresh == [total |-> FALSE, parts |-> {}, receipt |-> FALSE, age |-> 0]

\* Every file created or deleted in a directory, and os.utime, renew its mtime.
Touch(d) == [d EXCEPT !.age = 0]
WithPart(d, i) == Touch([d EXCEPT !.parts = @ \cup {i}])
WithoutPart(d, i) == Touch([d EXCEPT !.parts = @ \ {i}])

ChunkInit ==
  /\ dir = [u \in Uploads |-> NoUpload] /\ Store!Init
  /\ request = NoUpload /\ net = {} /\ losses = 0
  /\ pr = [u \in Uploads |-> Idle]

Mishap == losses < MaxLosses /\ losses' = losses + 1

-----------------------------------------------------------------------------
(* Answers.  The producer takes one only while it waits for that request.   *)

Waiting(u, req) == pr[u].state = "waiting" /\ pr[u].req = req

Advance(p) == IF p.req = Commit THEN [p EXCEPT !.state = "done"]
                                ELSE [p EXCEPT !.state = "next", !.req = @ + 1]

\* staged, or the receipt of a commit.
Answer(u, req) ==
  pr' = IF Waiting(u, req) THEN [pr EXCEPT ![u] = Advance(@)] ELSE pr

\* A refusal raises in upload_bundle_auto; the next attempt starts over.  A bundle the store
\* will never take again is given up.
Raise(u, req, final) ==
  pr' = IF Waiting(u, req)
        THEN [pr EXCEPT ![u] = IF final THEN [Idle EXCEPT !.state = "refused"] ELSE Idle]
        ELSE pr

-----------------------------------------------------------------------------
(* put *)

StaleDirs == {u \in Uploads : dir[u] # NoUpload /\ dir[u].age > TTL}
Swept == [u \in Uploads |-> IF u \in StaleDirs THEN NoUpload ELSE dir[u]]
Active(d, u) == {v \in Uploads \ {u} : d[v] # NoUpload /\ ~d[v].receipt}

Busy(d, u) == Active(d, u) # {}

PutRefused(u, i) ==
  /\ request = NoUpload /\ [u |-> u, req |-> i] \in net /\ i # Commit
  /\ Busy(Swept, u)
  /\ dir' = Swept /\ net' = net \ {[u |-> u, req |-> i]}
  /\ Raise(u, i, FALSE)
  /\ UNCHANGED <<store, request, losses>>

\* Mutant: a part that is there is acknowledged without renewing its directory's mtime.
PutKnownUntouched(u, i) ==
  /\ request = NoUpload /\ [u |-> u, req |-> i] \in net /\ i # Commit
  /\ ~Busy(Swept, u) /\ Swept[u] # NoUpload
  /\ i \in Swept[u].parts \/ Swept[u].receipt
  /\ dir' = Swept
  /\ net' = net \ {[u |-> u, req |-> i]}
  /\ Answer(u, i)
  /\ UNCHANGED <<store, request, losses>>

\* The part is there already, or the upload is complete: acknowledged without writing.
PutKnown(u, i) ==
  /\ request = NoUpload /\ [u |-> u, req |-> i] \in net /\ i # Commit
  /\ ~Busy(Swept, u) /\ Swept[u] # NoUpload
  /\ \/ i \in Swept[u].parts /\ dir' = [Swept EXCEPT ![u] = Touch(@)]
     \/ i \notin Swept[u].parts /\ Swept[u].receipt /\ dir' = Swept
  /\ net' = net \ {[u |-> u, req |-> i]}
  /\ Answer(u, i)
  /\ UNCHANGED <<store, request, losses>>

PutBegin(u, i) ==
  /\ request = NoUpload /\ [u |-> u, req |-> i] \in net /\ i # Commit
  /\ ~Busy(Swept, u)
  /\ Swept[u] # NoUpload => i \notin Swept[u].parts /\ ~Swept[u].receipt
  /\ dir' = [Swept EXCEPT ![u] = IF @ = NoUpload THEN Fresh ELSE @]
  /\ request' = [u |-> u, req |-> i, step |-> IF dir'[u].total THEN "part" ELSE "total"]
  /\ net' = net \ {[u |-> u, req |-> i]}
  /\ UNCHANGED <<store, pr, losses>>

PutTotal ==
  /\ request # NoUpload /\ request.step = "total"
  /\ dir' = [dir EXCEPT ![request.u] = Touch([@ EXCEPT !.total = TRUE])]
  /\ request' = [request EXCEPT !.step = "part"]
  /\ UNCHANGED <<store, net, pr, losses>>

PutPart ==
  /\ request # NoUpload /\ request.step = "part"
  /\ dir' = [dir EXCEPT ![request.u] = WithPart(@, request.req)]
  /\ Answer(request.u, request.req)
  /\ request' = NoUpload
  /\ UNCHANGED <<store, net, losses>>

-----------------------------------------------------------------------------
(* commit *)

Assembled(u) == dir[u] # NoUpload /\ dir[u].total /\ dir[u].parts = Parts

\* A completed upload is answered from its stored receipt.
CommitKnown(u) ==
  /\ request = NoUpload /\ [u |-> u, req |-> Commit] \in net
  /\ dir[u] # NoUpload /\ dir[u].receipt /\ dir[u].total
  /\ net' = net \ {[u |-> u, req |-> Commit]}
  /\ Answer(u, Commit)
  /\ UNCHANGED <<dir, store, request, losses>>

CommitRefused(u) ==
  /\ request = NoUpload /\ [u |-> u, req |-> Commit] \in net
  /\ dir[u] # NoUpload /\ dir[u].receipt => ~dir[u].total
  /\ ~Assembled(u)
  /\ net' = net \ {[u |-> u, req |-> Commit]}
  /\ Raise(u, Commit, FALSE)
  /\ UNCHANGED <<dir, store, request, losses>>

CommitBegin(u) ==
  /\ request = NoUpload /\ [u |-> u, req |-> Commit] \in net
  /\ Assembled(u) /\ ~dir[u].receipt
  /\ request' = [u |-> u, req |-> Commit, step |-> "publish"]
  /\ net' = net \ {[u |-> u, req |-> Commit]}
  /\ UNCHANGED <<dir, store, pr, losses>>

\* Mutant: the receipt is stored before the bundle is published.
PublishAfterReceipt ==
  /\ request # NoUpload /\ request.step = "publish"
  /\ request' = [request EXCEPT !.step = "receipt"]
  /\ UNCHANGED <<dir, store, net, pr, losses>>

\* publish(body), a new generation or the acknowledgement of one it already has.
Publish ==
  /\ request # NoUpload /\ request.step = "publish"
  /\ \/ Store!Accept(request.u)
     \/ Store!Acknowledged(request.u) /\ UNCHANGED store
  /\ request' = [request EXCEPT !.step = "receipt"]
  /\ UNCHANGED <<dir, net, pr, losses>>

\* An older bundle the store never accepted.
PublishRefused ==
  /\ request # NoUpload /\ request.step = "publish"
  /\ ~Store!Newer(request.u) /\ ~Store!Acknowledged(request.u)
  /\ Raise(request.u, Commit, TRUE)
  /\ request' = NoUpload
  /\ UNCHANGED <<dir, store, net, losses>>

WriteReceipt ==
  /\ request # NoUpload /\ request.step = "receipt"
  /\ dir' = [dir EXCEPT ![request.u] = Touch([@ EXCEPT !.receipt = TRUE])]
  /\ request' = [request EXCEPT !.step = "unlink"]
  /\ UNCHANGED <<store, net, pr, losses>>

\* The parts go one by one; the answer follows the last.
UnlinkPart ==
  /\ request # NoUpload /\ request.step = "unlink"
  /\ \E i \in dir[request.u].parts :
       dir' = [dir EXCEPT ![request.u] = WithoutPart(@, i)]
  /\ UNCHANGED <<store, request, net, pr, losses>>

CommitReply ==
  /\ request # NoUpload /\ request.step = "unlink" /\ dir[request.u].parts = {}
  /\ dir' = [dir EXCEPT ![request.u] = Touch(@)]
  /\ Answer(request.u, Commit)
  /\ request' = NoUpload
  /\ UNCHANGED <<store, net, losses>>

-----------------------------------------------------------------------------
(* Producers: upload_bundle_auto, called again after every failure *)

Send(u) ==
  /\ pr[u].state \in {"idle", "next"}
  /\ net' = net \cup {[u |-> u, req |-> pr[u].req]}
  /\ pr' = [pr EXCEPT ![u].state = "waiting"]
  /\ UNCHANGED <<dir, store, request, losses>>

-----------------------------------------------------------------------------
(* Faults *)

\* The 60 s timeout; the request may still be handled later.
ProducerTimeout(u) ==
  /\ Mishap /\ pr[u].state = "waiting"
  /\ pr' = [pr EXCEPT ![u] = Idle]
  /\ UNCHANGED <<dir, store, request, net>>

Lose(m) ==
  /\ Mishap /\ net' = net \ {m}
  /\ pr' = IF Waiting(m.u, m.req) THEN [pr EXCEPT ![m.u] = Idle] ELSE pr
  /\ UNCHANGED <<dir, store, request>>

Die(u) ==
  /\ Mishap /\ pr[u].state \in {"idle", "next", "waiting"}
  /\ pr' = [pr EXCEPT ![u].state = "dead"]
  /\ UNCHANGED <<dir, store, request, net>>

\* OSError, an exhausted sync domain or a store that refuses for another reason.  The room
\* for the receipt was held while publishing, so that step fails for OSError only.
JobFails ==
  /\ Mishap /\ request # NoUpload
  /\ Raise(request.u, request.req, FALSE)
  /\ request' = NoUpload
  /\ UNCHANGED <<dir, store, net>>

\* The process dies; the connection breaks.
ReceiverDies ==
  /\ Mishap /\ request # NoUpload
  /\ Raise(request.u, request.req, FALSE)
  /\ request' = NoUpload
  /\ UNCHANGED <<dir, store, net>>

\* The process dies in _gc: rmtree deletes file by file, and each deletion renews the mtime.
SweepDies ==
  /\ SweepMayDie /\ Mishap /\ request = NoUpload
  /\ \E m \in net : m.req # Commit /\ net' = net \ {m} /\ Raise(m.u, m.req, FALSE)
  /\ \E u \in StaleDirs, done \in SUBSET StaleDirs :
       /\ u \notin done
       /\ \E left \in [total : BOOLEAN, parts : SUBSET dir[u].parts, receipt : BOOLEAN, age : {0}] :
            /\ left.total => dir[u].total
            /\ left.receipt => dir[u].receipt
            /\ dir' = [v \in Uploads |->
                         IF v \in done THEN NoUpload ELSE IF v = u THEN left ELSE dir[v]]
  /\ UNCHANGED <<store, request>>

\* At most five requests of at most 60 s each: an attempt outlives one tick, never the TTL.
Trying(u) == pr[u].state \in {"next", "waiting"}

ChunkTick ==
  /\ \A u \in Uploads : Trying(u) => ~pr[u].aged
  /\ pr' = [u \in Uploads |-> IF Trying(u) THEN [pr[u] EXCEPT !.aged = TRUE] ELSE pr[u]]
  /\ dir' = [u \in Uploads |->
       IF dir[u] = NoUpload \/ dir[u].age > TTL THEN dir[u] ELSE [dir[u] EXCEPT !.age = @ + 1]]
  /\ UNCHANGED <<store, request, net, losses>>

Take(u) ==
  \/ \E i \in Parts : PutRefused(u, i) \/ PutKnown(u, i) \/ PutBegin(u, i)
  \/ CommitKnown(u) \/ CommitRefused(u) \/ CommitBegin(u)

Work == PutTotal \/ PutPart \/ Publish \/ PublishRefused \/ WriteReceipt \/ UnlinkPart \/ CommitReply

ChunkNext ==
  \/ Work
  \/ \E u \in Uploads : Take(u) \/ Send(u) \/ ProducerTimeout(u) \/ Die(u)
  \/ \E m \in net : Lose(m)
  \/ JobFails \/ ReceiverDies \/ SweepDies \/ ChunkTick

ChunkSpec == ChunkInit /\ [][ChunkNext]_chunkVars

\* The receiver finishes what it began and takes every request that keeps arriving, living
\* producers try again, and time passes.
ChunkFairness ==
  /\ WF_chunkVars(Work) /\ WF_chunkVars(ChunkTick)
  /\ \A u \in Uploads : WF_chunkVars(Send(u)) /\ SF_chunkVars(Take(u))

FairChunkSpec == ChunkSpec /\ ChunkFairness

-----------------------------------------------------------------------------

ChunkRequest == [u : Uploads, req : 1..Commit, step : {"total", "part", "publish", "receipt", "unlink"}]
Producer == [state : {"idle", "next", "waiting", "done", "refused", "dead"}, req : 1..Commit,
             aged : BOOLEAN]

\* Types of the staging directories, the request under way, the network and the producers.
ChunkTypeOK ==
  /\ dir \in [Uploads -> Directory \cup {NoUpload}]
  /\ latest \in Uploads \cup {NoUpload} /\ taken \subseteq Uploads
  /\ request \in ChunkRequest \cup {NoUpload}
  /\ net \subseteq [u : Uploads, req : 1..Commit]
  /\ pr \in [Uploads -> Producer]
  /\ losses \in 0..MaxLosses

\* A stored receipt, and a producer that was answered, stand for a bundle the store accepted,
\* and a producer gives up for good only a bundle the store never accepted, whatever crashed
\* between publish, receipt and the deletion of the parts and whichever commit came twice.
ReceiptBacked ==
  \A u \in Uploads :
    /\ (dir[u] # NoUpload /\ dir[u].receipt) \/ pr[u].state = "done" => u \in taken
    /\ pr[u].state = "refused" => u \notin taken

\* Whatever part put has acknowledged to a producer that is still trying is there for its commit,
\* unless the store already has the bundle: neither a sweep begun for another upload, nor a
\* request or process that died, nor a clean-up after somebody else's commit takes it away.
StagedUntilTaken ==
  \A u \in Uploads : Trying(u) /\ u \notin taken =>
    \A i \in 1..(pr[u].req - 1) : dir[u] # NoUpload /\ i \in dir[u].parts

\* shadow_chunks.py says "Staging is bounded, single-active and garbage collected".
SingleActive == Cardinality({u \in Uploads : dir[u] # NoUpload /\ ~dir[u].receipt}) <= 1

\* The same sentence: a directory that is not completed is collected in the end, as long as
\* some producer keeps sending parts (only put sweeps).
Retrying == \E u \in Uploads : pr[u].state \in {"idle", "next", "waiting"}
StaleIsCollected ==
  \A u \in Uploads :
    dir[u] # NoUpload /\ ~dir[u].receipt ~> dir[u] = NoUpload \/ dir[u].receipt \/ ~Retrying

\* A producer that keeps trying is answered in the end, although another one died half-way and
\* left its directory and any finite number of requests was lost.
UploadsSettle ==
  \A u \in Uploads : pr[u].state \in {"idle", "next", "waiting"} ~> pr[u].state \in {"done", "refused", "dead"}
=============================================================================
