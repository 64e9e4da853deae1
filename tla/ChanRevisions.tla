--------------------------- MODULE ChanRevisions ---------------------------
(***************************************************************************)
(* The published history of Chan structures: chan_input.py freezes the     *)
(* settled bars of an instrument, an engine observes structures in them,   *)
(* chan_observation_service.py appends the observation with its transitions*)
(* to a stream and moves the stream's head, chan_read_service.py verifies  *)
(* what it reads by replaying it, chan_chart_overlay.py draws it.          *)
(*                                                                         *)
(* Ids are hashes of canonical content in the code and the content itself  *)
(* here: an observation is identified by the input it was made from, a     *)
(* structure by a key, a revision by observation and key.  A stream is an  *)
(* instrument, an interval and a price basis; the basis is the set of      *)
(* splits in effect.  Time is a day and whether its 15:15 has passed.      *)
(***************************************************************************)
EXTENDS Integers, FiniteSets, FiniteSetsExt

CONSTANTS Workers, Codes,
          Intervals,   \* subset of {"D", "W"}
          Keys,        \* what structures an engine may find
          Shapes,      \* their geometry and engine state
          ExDates,     \* splits, known beforehand
          Locks,       \* PostgreSQL: publications of a stream take an advisory lock
          MaxDay, MaxStores, MaxJobs, MaxFaults   \* bounds

ChanAssumption == MaxDay \in Nat \ {0} /\ Intervals \subseteq {"D", "W"} /\ Locks \in BOOLEAN /\ ExDates \subseteq 1..MaxDay

ASSUME ChanAssumed == ChanAssumption

VARIABLES today, closed,
          bars,      \* DailyBar of a code and day: none, of an undocumented source, or a revision
          engine,    \* what the engine answered for an input
          obs,       \* chan_research_observations with their chan_structure_revisions
          trans,     \* chan_observed_transitions
          heads,     \* chan_research_stream_heads
          job,       \* job of a worker
          view,      \* the reader
          spent      \* stores, jobs and faults so far

chanVars == <<today, closed, bars, engine, obs, trans, heads, job, view, spent>>

None == [none |-> TRUE]
Idle == [pc |-> "idle"]
Days == 1..MaxDay
Put(f, x, v) == [y \in DOMAIN f \cup {x} |-> IF y = x THEN v ELSE f[y]]

ChanInit == /\ today = 1 /\ closed = FALSE
        /\ bars = [c \in Codes |-> [d \in Days |-> IF d = 1 THEN "a" ELSE "none"]]
        /\ engine = [x \in {} |-> None] /\ obs = {} /\ trans = {} /\ heads = [x \in {} |-> None]
        /\ job = [w \in Workers |-> Idle] /\ view = Idle
        /\ spent = [stores |-> 0, jobs |-> 0, faults |-> 0]

-----------------------------------------------------------------------------
\* Days pass; a refresh stores or restates a bar, also of a day before 15:15.
Tick == /\ IF closed THEN today < MaxDay /\ today' = today + 1 ELSE today' = today
        /\ closed' = ~closed /\ UNCHANGED <<bars, engine, obs, trans, heads, job, view, spent>>

StoreBar(c, d) ==
    /\ d <= today /\ spent.stores < MaxStores /\ spent' = [spent EXCEPT !.stores = @ + 1]
    /\ \E r \in {"a", "b", "fallback"} \ {bars[c][d]} : bars' = [bars EXCEPT ![c][d] = r]
    /\ UNCHANGED <<today, closed, engine, obs, trans, heads, job, view>>

-----------------------------------------------------------------------------
\* freeze_chan_input.  A week is two days long.
Week(d) == (d + 1) \div 2
SettledThrough(t) == IF t.closed THEN t.day ELSE t.day - 1
SettledDays(c, t) == {d \in 1..SettledThrough(t) : bars[c][d] # "none"}
Basis(t) == {e \in ExDates : e <= t.day}

\* The last calendar period is temporary until its last day has settled.
Temporary(i, last, t) == i = "W" /\ SettledThrough(t) < 2 * Week(last)

\* prepare_research_input: the content every identity is a hash of.
PreparedInput(c, i, t, days) ==
    [stream |-> [code |-> c, interval |-> i, basis |-> Basis(t)],
     bars |-> [d \in days |-> bars[c][d]], at |-> Max(days),
     cutoff |-> Cardinality(IF i = "W" THEN {Week(d) : d \in days} ELSE days),
     temporary |-> Temporary(i, Max(days), t)]

Freeze(c, i, t) ==
    LET days == SettledDays(c, t) IN
    IF days = {} THEN [blocked |-> "history_missing"]
    ELSE IF \E d \in days : bars[c][d] = "fallback" THEN [blocked |-> "volume_units_unverified"]
    ELSE PreparedInput(c, i, t, days)

\* A structures job runs over its codes with the time it was asked for.
Enqueue(w) ==
    /\ job[w] = Idle /\ spent.jobs < MaxJobs /\ spent' = [spent EXCEPT !.jobs = @ + 1]
    /\ \E i \in Intervals, t \in [day : 1..today, closed : BOOLEAN] :
         /\ t.day = today => (t.closed => closed)
         /\ job' = [job EXCEPT ![w] = [pc |-> "next", interval |-> i, asOf |-> t, left |-> Codes, done |-> <<>>]]
    /\ UNCHANGED <<today, closed, bars, engine, obs, trans, heads, view>>

\* A code is done with; a code's input is frozen; what a publication will write.
WithOutcome(j, c, o) == [pc |-> "next", interval |-> j.interval, asOf |-> j.asOf,
                         left |-> j.left \ {c}, done |-> Put(j.done, c, o)]
Frozen(j, x) == [pc |-> "observe", interval |-> j.interval, asOf |-> j.asOf, left |-> j.left, done |-> j.done, id |-> x]
Writing(j, n, rows) == [pc |-> "write", interval |-> j.interval, asOf |-> j.asOf, left |-> j.left, done |-> j.done,
                        id |-> j.id, seq |-> n, trans |-> rows]

Outcome(w, c, o) == [job EXCEPT ![w] = WithOutcome(job[w], c, o)]

\* One session freezes the input; a blocked code ends here.
FreezeCode(w) ==
    /\ job[w].pc = "next" /\ job[w].left # {}
    /\ LET c == CHOOSE x \in job[w].left : TRUE
           x == Freeze(c, job[w].interval, job[w].asOf)
       IN job' = IF "blocked" \in DOMAIN x THEN Outcome(w, c, [status |-> "blocked", id |-> None])
                 ELSE [job EXCEPT ![w] = Frozen(job[w], x)]
    /\ UNCHANGED <<today, closed, bars, engine, obs, trans, heads, view, spent>>

\* At most one structure of a key in an observation.
Structures == UNION {[ks -> Shapes] : ks \in SUBSET Keys}

\* The engine (external) answers the same for the same input, or raises.
Observe(w) ==
    LET x == job[w].id IN
    /\ job[w].pc = "observe"
    /\ \/ /\ \E found \in IF x \in DOMAIN engine THEN {engine[x]} ELSE Structures :
               engine' = Put(engine, x, found)
          /\ job' = [job EXCEPT ![w].pc = "publish"] /\ UNCHANGED spent
       \/ /\ spent.faults < MaxFaults /\ spent' = [spent EXCEPT !.faults = @ + 1]
          /\ job' = Outcome(w, x.stream.code, [status |-> "failed", id |-> None]) /\ UNCHANGED engine
    /\ UNCHANGED <<today, closed, bars, obs, trans, heads, view>>

-----------------------------------------------------------------------------
Obs(id) == CHOOSE o \in obs : o.id = id
Stream(s) == {o \in obs : o.id.stream = s}

\* derive_observed_transitions
Derived(id, current, before, prior, seen) ==
    {[id |-> id, key |-> k, rev |-> id, prior |-> IF k \in DOMAIN before THEN prior ELSE None,
      status |-> IF k \notin DOMAIN before THEN "NEW" ELSE IF before[k] = current[k] THEN "UNCHANGED" ELSE "CHANGED",
      again |-> k \notin DOMAIN before /\ k \in seen] : k \in DOMAIN current}
    \cup {[id |-> id, key |-> k, rev |-> None, prior |-> prior, status |-> "ABSENT", again |-> FALSE] :
            k \in DOMAIN before \ DOMAIN current}

\* The keys of the stream's transitions that carry a revision.
SeenKeys(s) == {r.key : r \in {x \in trans : x.id.stream = s /\ x.rev # None}}

\* What the head of a stream says: the structures, the observation and the keys before the next one.
HeadShapes(s) == IF s \in DOMAIN heads THEN Obs(heads[s].id).shapes ELSE [x \in {} |-> None]
HeadId(s) == IF s \in DOMAIN heads THEN heads[s].id ELSE None
HeadKeys(s) == IF s \in DOMAIN heads THEN SeenKeys(s) ELSE {}
NextSeq(s) == IF s \in DOMAIN heads THEN heads[s].seq + 1 ELSE 1

Backward(id, last) == id.cutoff < last.cutoff \/ id.at < last.at

\* The first statements of a publication, under the stream's lock where there is one.
PublishRead(w) ==
    LET id == job[w].id  s == id.stream IN
    /\ job[w].pc = "publish"
    /\ Locks => \A v \in Workers \ {w} : job[v].pc = "write" => job[v].id.stream # s
    /\ job' = IF \E o \in obs : o.id = id
              THEN Outcome(w, s.code, [status |-> IF Obs(id).shapes = engine[id] THEN "idempotent" ELSE "failed", id |-> id])
              ELSE IF s \in DOMAIN heads /\ Backward(id, heads[s].id)
              THEN Outcome(w, s.code, [status |-> "failed", id |-> None])
              ELSE [job EXCEPT ![w] = Writing(job[w], NextSeq(s), Derived(id, engine[id], HeadShapes(s), HeadId(s), HeadKeys(s)))]
    /\ UNCHANGED <<today, closed, bars, engine, obs, trans, heads, view, spent>>

\* Mutant: nothing makes the number of an observation unique.
RefusedNever(id, seq) == FALSE
\* The primary key, UNIQUE(stream_id, sequence_number) and the guard of the head.
RefusedWrite(id, seq) ==
    \/ \E o \in obs : o.id = id \/ (o.id.stream = id.stream /\ o.seq = seq)
    \/ id.stream \in DOMAIN heads /\ heads[id.stream].seq >= seq

\* Observation, revisions, transitions and head in one transaction, or none of them.
PublishWrite(w) ==
    LET id == job[w].id IN
    /\ job[w].pc = "write"
    /\ IF RefusedWrite(id, job[w].seq)
       THEN /\ job' = Outcome(w, id.stream.code, [status |-> "failed", id |-> None])
            /\ UNCHANGED <<obs, trans, heads>>
       ELSE /\ obs' = obs \cup {[id |-> id, seq |-> job[w].seq, shapes |-> engine[id]]}
            /\ trans' = trans \cup job[w].trans
            /\ heads' = Put(heads, id.stream, [seq |-> job[w].seq, id |-> id])
            /\ job' = Outcome(w, id.stream.code, [status |-> "published", id |-> id])
    /\ UNCHANGED <<today, closed, bars, engine, view, spent>>

JobStatus(outcomes) ==
    LET ok == {c \in DOMAIN outcomes : outcomes[c].status \in {"published", "idempotent"}} IN
    IF ok = DOMAIN outcomes THEN "succeeded"
    ELSE IF ok # {} \/ \A c \in DOMAIN outcomes : outcomes[c].status = "blocked" THEN "partial" ELSE "failed"

Report(w) ==
    /\ job[w].pc = "next" /\ job[w].left = {}
    /\ job' = [job EXCEPT ![w] = [pc |-> "done", status |-> JobStatus(job[w].done), interval |-> job[w].interval, done |-> job[w].done]]
    /\ UNCHANGED <<today, closed, bars, engine, obs, trans, heads, view, spent>>

\* The worker takes the next job, or is killed and its transaction rolled back.
LeaveJob(w) ==
    /\ \/ job[w].pc = "done" /\ spent.jobs < MaxJobs /\ UNCHANGED spent
       \/ /\ job[w].pc \notin {"idle", "done"} /\ spent.faults < MaxFaults
          /\ spent' = [spent EXCEPT !.faults = @ + 1]
    /\ job' = [job EXCEPT ![w] = Idle]
    /\ UNCHANGED <<today, closed, bars, engine, obs, trans, heads, view>>

-----------------------------------------------------------------------------
(***************************************************************************)
(* read_latest: the heads first, then statement by statement what they     *)
(* point to, while publications commit.                                    *)
(***************************************************************************)
VerifyHead(h) == \E o \in obs : o.id = h.id /\ o.seq = h.seq

\* The last observation before o that had the key under a revision.
PriorRevisionWitness(o, k) ==
    \E r \in trans : /\ r.id.stream = o.id.stream /\ r.key = k /\ r.rev # None
                     /\ \E p \in Stream(o.id.stream) : p.id = r.id /\ p.seq < o.seq

Previous(o) == {p \in Stream(o.id.stream) : p.seq = o.seq - 1}

ShapesBefore(o) == IF o.seq = 1 THEN [x \in {} |-> None] ELSE (CHOOSE p \in Previous(o) : TRUE).shapes
IdBefore(o) == IF o.seq = 1 THEN None ELSE (CHOOSE p \in Previous(o) : TRUE).id

VerifiedTransitions(o) ==
    LET before == ShapesBefore(o)
        prior  == IdBefore(o)
        expected(k) == CASE k \notin DOMAIN before -> <<"NEW", o.id, None, PriorRevisionWitness(o, k)>>
                         [] k \notin DOMAIN o.shapes -> <<"ABSENT", None, prior, FALSE>>
                         [] OTHER -> <<IF before[k] = o.shapes[k] THEN "UNCHANGED" ELSE "CHANGED", o.id, prior, FALSE>>
        rows == {r \in trans : r.id = o.id}
    IN /\ {r.key : r \in rows} = DOMAIN before \cup DOMAIN o.shapes
       /\ \A r \in rows : <<r.status, r.rev, r.prior, r.again>> = expected(r.key)

Latest(found) == {h \in found : \A g \in found : g.id.at <= h.id.at}

ReadFound(found) ==
    IF found = {} THEN [reason |-> "snapshot_missing"]
    ELSE IF \E h \in found : ~VerifyHead(h) THEN [reason |-> "persistent_evidence_corrupt"]
    ELSE LET latest == Latest(found) IN
         IF Cardinality(latest) # 1 THEN [reason |-> "ambiguous_stream_head"]
         ELSE LET o == Obs((CHOOSE h \in latest : TRUE).id) IN
              IF /\ o.seq > 1 => \E p \in Previous(o) : ~Backward(o.id, p.id)
                 /\ VerifiedTransitions(o)
              THEN [reason |-> "none", id |-> o.id] ELSE [reason |-> "persistent_evidence_corrupt"]

\* project_persisted_chan: a missing or foreign observation gives way to the simplified
\* structure, one that failed its verification does not.
Project(r, basis) ==
    CASE r.reason \notin {"none", "snapshot_missing"} -> "blocked"
      [] r.reason = "none" /\ r.id.stream.basis = basis -> "drawn"
      [] OTHER -> "simplified"

HeadsOf(c, i) == {heads[s] : s \in {x \in DOMAIN heads : x.code = c /\ x.interval = i}}

ReadHeads(c, i) ==
    /\ view.pc # "heads"
    /\ view' = [pc |-> "heads", found |-> HeadsOf(c, i),
                basis |-> Basis([day |-> today])]
    /\ UNCHANGED <<today, closed, bars, engine, obs, trans, heads, job, spent>>

ReadRest ==
    /\ view.pc = "heads"
    /\ LET r == ReadFound(view.found) IN
       view' = [pc |-> "shown", reason |-> r.reason, chart |-> Project(r, view.basis),
                bases |-> {h.id.stream.basis : h \in Latest(view.found)}]
    /\ UNCHANGED <<today, closed, bars, engine, obs, trans, heads, job, spent>>

ChanNext ==
    \/ Tick \/ \E c \in Codes, d \in Days : StoreBar(c, d)
    \/ \E w \in Workers : \/ Enqueue(w) \/ FreezeCode(w) \/ Observe(w) \/ PublishRead(w) \/ PublishWrite(w)
                          \/ Report(w) \/ LeaveJob(w)
    \/ \E c \in Codes, i \in Intervals : ReadHeads(c, i)
    \/ ReadRest

ChanSpec == ChanInit /\ [][ChanNext]_chanVars

-----------------------------------------------------------------------------
\* A reader between any two commits of any publications never finds the evidence corrupt:
\* what the publisher derived is what chan_read_service replays.
ReadsVerified == view.pc = "shown" => view.reason # "persistent_evidence_corrupt"

\* The stored history of a stream is the one ObservedRevisionReplay builds from its
\* observations in order: numbered without gaps up to the head, never backward in bars or
\* time, a key marked as reappearing exactly if some earlier observation had it.
HistoryReplays ==
    \A s \in DOMAIN heads :
        /\ {o.seq : o \in Stream(s)} = 1..heads[s].seq /\ Cardinality(Stream(s)) = heads[s].seq
        /\ \A o, p \in Stream(s) : o.seq < p.seq => ~Backward(p.id, o.id)
        /\ \A r \in trans : r.id.stream = s => LET o == Obs(r.id) IN
             r.again <=> /\ r.key \in DOMAIN o.shapes
                         /\ \A p \in Previous(o) : r.key \notin DOMAIN p.shapes
                         /\ \E p \in Stream(s) : p.seq < o.seq /\ r.key \in DOMAIN p.shapes

\* A job that reports success has the evidence of every code it was asked for in the store,
\* whatever another worker published meanwhile.
SuccessIsStored ==
    \A w \in Workers : job[w].pc = "done" /\ job[w].status = "succeeded" =>
        \A c \in Codes : \E o \in obs : o.id = job[w].done[c].id /\ o.id.stream.code = c

\* Only a split explains a chart that is blocked: publications of one price basis, however
\* they interleave, never leave the reader without an answer.
ChartUnambiguous == view.pc = "shown" /\ view.chart = "blocked" => Cardinality(view.bases) > 1

\* The evidence in one.
ChanSound == ReadsVerified /\ HistoryReplays /\ SuccessIsStored /\ ChartUnambiguous
=============================================================================
