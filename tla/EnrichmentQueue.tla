-------------------------- MODULE EnrichmentQueue --------------------------
(***************************************************************************)
(* The asynchronous enrichment pipeline: request handlers commit findings  *)
(* to PostgreSQL and publish their ids on the Redis stream                 *)
(* "enrichment:pending"; the workers of internal/enrichment/worker.go read *)
(* the stream through a consumer group, run EnrichFinding and acknowledge. *)
(*                                                                         *)
(* A stream entry is named by its position in log, the history of every    *)
(* XADD, so ids are never reused (Redis ids are timestamps).  An entry a   *)
(* consumer was given and has not acknowledged is in that consumer's       *)
(* pending entries list, pel.  The server process may stop at any step and *)
(* is restarted by docker ("restart: unless-stopped"); everything but the  *)
(* database and the stream is then lost.  A request, a query or a command  *)
(* may fail (a transient fault) and Redis may evict the stream key         *)
(* (maxmemory-policy allkeys-lru).                                         *)
(***************************************************************************)
EXTENDS Integers, Sequences, FiniteSets

CONSTANTS
    Findings,   \* rows of table findings
    Workers,    \* consumer names worker-0 .. worker-N, the same after a restart
    BatchSize,  \* Count of XREADGROUP (10 in the code)
    SweepLimit, \* LIMIT of the query of handleEnrichAll (100 in the code)
    MaxLog,     \* bound: how many entries are ever published
    MaxFaults,  \* bound: how many transient faults happen
    MaxStops    \* bound: how many times the process stops

ASSUME QueueAssumption ==
    /\ BatchSize \in Nat \ {0}
    /\ SweepLimit \in Nat \ {0}
    /\ MaxLog \in Nat
    /\ MaxFaults \in Nat
    /\ MaxStops \in Nat

VARIABLES
    db,       \* db[f]: is row f absent, plain (no score yet), scored or deleted
    outbox,   \* findings whose handler has committed and has still to publish
    log,      \* every entry ever added to the stream: the finding it names
    kept,     \* the entries still in the stream
    group,    \* does the consumer group exist
    last,     \* the group's last-delivered id
    pel,      \* pel[w]: entries delivered to w and not acknowledged
    acked,    \* entries acknowledged (history)
    blind,    \* entries published for an id that named no row (history)
    up,       \* is the server process running
    mode,     \* mode[w]: in processPending ("recover") or in the main loop
    pc,       \* pc[w]: the next step of worker w
    todo,     \* todo[w]: entries of the batch w holds, not yet processed
    sweeping, \* is the goroutine of handleEnrichAll running
    sweep,    \* findings of its current batch, not yet tried
    faults,   \* transient faults so far
    stops     \* stops of the process so far

dbVars     == <<db, outbox>>
streamVars == <<log, kept, group, last, pel, acked, blind>>
workerVars == <<mode, pc, todo>>
sweepVars  == <<sweeping, sweep>>
envVars    == <<up, faults, stops>>
vars       == <<dbVars, streamVars, workerVars, sweepVars, envVars>>

Entries  == 1..Len(log)
RowState == {"absent", "plain", "scored", "deleted"}

DbType ==
    /\ db \in [Findings -> RowState]
    /\ outbox \subseteq Findings

StreamType ==
    /\ log \in Seq(Findings)
    /\ kept \subseteq Entries
    /\ group \in BOOLEAN
    /\ last \in 0..Len(log)
    /\ pel \in [Workers -> SUBSET Entries]
    /\ acked \subseteq Entries
    /\ blind \subseteq Entries

WorkerType ==
    /\ mode \in [Workers -> {"recover", "listen"}]
    /\ pc \in [Workers -> {"off", "read", "load", "score", "ack"}]
    /\ todo \in [Workers -> SUBSET Entries]

SweepType == sweeping \in BOOLEAN /\ sweep \subseteq Findings

EnvType == up \in BOOLEAN /\ faults \in 0..MaxFaults /\ stops \in 0..MaxStops

TypeOK == DbType /\ StreamType /\ WorkerType /\ SweepType /\ EnvType

Init ==
    /\ db = [f \in Findings |-> "absent"]
    /\ outbox = {}
    /\ log = <<>>
    /\ kept = {}
    /\ group = FALSE
    /\ last = 0
    /\ pel = [w \in Workers |-> {}]
    /\ acked = {}
    /\ blind = {}
    /\ up = FALSE
    /\ mode = [w \in Workers |-> "recover"]
    /\ pc = [w \in Workers |-> "off"]
    /\ todo = [w \in Workers |-> {}]
    /\ sweeping = FALSE
    /\ sweep = {}
    /\ faults = 0
    /\ stops = 0

Present(f) == db[f] \in {"plain", "scored"}

\* A query, a command or a request fails for a reason outside the program.
Fault ==
    /\ faults < MaxFaults
    /\ faults' = faults + 1
    /\ UNCHANGED <<up, stops>>

-----------------------------------------------------------------------------
(* Request handlers *)

\* Mutant: the id is published inside the transaction, before the commit.
PublishBeforeCommit(f) ==
    /\ up
    /\ \/ /\ db[f] # "deleted"
          /\ f \notin outbox
          /\ outbox' = outbox \union {f}
          /\ UNCHANGED db
       \/ /\ db[f] = "absent"
          /\ db' = [db EXCEPT ![f] = "plain"]
          /\ UNCHANGED outbox
    /\ UNCHANGED <<streamVars, workerVars, sweepVars, envVars>>

\* handleCreateScan and handleImport: the row is committed before anything is
\* published.  A finding met again is updated in place and, for a scan,
\* published again.
Commit(f) ==
    /\ up
    /\ db[f] # "deleted"
    /\ f \notin outbox
    /\ db' = [db EXCEPT ![f] = IF @ = "absent" THEN "plain" ELSE @]
    /\ outbox' = outbox \union {f}
    /\ UNCHANGED <<streamVars, workerVars, sweepVars, envVars>>

\* XADD of PublishEnrichment: without a stream Redis creates one, with no group.
Add(f) ==
    /\ Len(log) < MaxLog
    /\ log' = Append(log, f)
    /\ kept' = kept \union {Len(log) + 1}
    /\ UNCHANGED <<group, last, pel, acked>>

\* Once published, or once publishing has failed (the error is only logged),
\* the handler answers the request and forgets the finding.
Publish(f) ==
    /\ f \in outbox
    /\ Add(f)
    /\ outbox' = outbox \ {f}
    /\ UNCHANGED <<blind, db, workerVars, sweepVars, envVars>>

PublishFails(f) ==
    /\ f \in outbox
    /\ Fault
    /\ outbox' = outbox \ {f}
    /\ UNCHANGED <<db, streamVars, workerVars, sweepVars>>

\* The upsert of finding_scores that ends EnrichFinding.
WriteScore(f) == db' = [db EXCEPT ![f] = "scored"]

\* handleEnrichFinding: publish the id of the path without looking it up.  The
\* row may have been deleted since the client saw it; and a global
\* administrator, whom RequireProjectRole lets through without a query, may
\* name an id that has no row yet, or never will.
Reenrich(f) ==
    /\ up
    /\ Add(f)
    /\ blind' = IF db[f] = "absent" THEN blind \union {Len(log) + 1} ELSE blind
    /\ UNCHANGED <<dbVars, workerVars, sweepVars, envVars>>

\* ... and, when Redis refuses, enrich in the request itself.
ReenrichInline(f) ==
    /\ up
    /\ Present(f)
    /\ Fault
    /\ WriteScore(f)
    /\ UNCHANGED <<outbox, streamVars, workerVars, sweepVars>>

\* DELETE of the row, which cascades to its enrichments and score.
Delete(f) ==
    /\ up
    /\ Present(f)
    /\ db' = [db EXCEPT ![f] = "deleted"]
    /\ UNCHANGED <<outbox, streamVars, workerVars, sweepVars, envVars>>

-----------------------------------------------------------------------------
(* handleEnrichAll: rounds of at most SweepLimit findings without a score *)

SweepStart ==
    /\ up
    /\ ~sweeping
    /\ sweeping' = TRUE
    /\ sweep' = {}
    /\ UNCHANGED <<dbVars, streamVars, workerVars, envVars>>

Unscored == {f \in Findings : db[f] = "plain"}

\* Mutant: a single round instead of a loop.
SweepOneRound ==
    /\ sweeping
    /\ sweep = {}
    /\ sweeping' = FALSE
    /\ UNCHANGED <<sweep, dbVars, streamVars, workerVars, envVars>>

SweepQuery ==
    /\ sweeping
    /\ sweep = {}
    /\ \/ /\ Unscored = {}
          /\ sweeping' = FALSE
          /\ UNCHANGED sweep
       \/ /\ sweep' \in (SUBSET Unscored) \ {{}}
          /\ Cardinality(sweep') <= SweepLimit
          /\ UNCHANGED sweeping
    /\ UNCHANGED <<dbVars, streamVars, workerVars, envVars>>

SweepQueryFails ==
    /\ sweeping
    /\ sweep = {}
    /\ Fault
    /\ sweeping' = FALSE
    /\ UNCHANGED <<sweep, dbVars, streamVars, workerVars>>

\* EnrichBatch counts the failures and goes on.
SweepOne(f) ==
    /\ f \in sweep
    /\ sweep' = sweep \ {f}
    /\ \/ /\ Present(f)
          /\ WriteScore(f)
          /\ UNCHANGED envVars
       \/ /\ ~Present(f)
          /\ UNCHANGED <<db, envVars>>
       \/ /\ Fault
          /\ UNCHANGED db
    /\ UNCHANGED <<sweeping, outbox, streamVars, workerVars>>

-----------------------------------------------------------------------------
(* Workers *)

\* The first BatchSize entries of S, in stream order.
IsBatch(T, S) ==
    /\ T \subseteq S
    /\ \A e \in T, d \in S : d < e => d \in T
    /\ Cardinality(T) =
          IF Cardinality(S) < BatchSize THEN Cardinality(S) ELSE BatchSize

\* The entry a worker is processing: entries are taken in stream order.
IsCurrent(w, e) == e \in todo[w] /\ \A d \in todo[w] : e <= d

\* XREADGROUP with id ">": entries never given to any consumer of the group.
Undelivered == {e \in kept : e > last}

\* Mutant: the entries are not put in the pending list (XREADGROUP NOACK).
DeliverNoAck(w, T) ==
    /\ \E m \in T : (\A e \in T : e <= m) /\ last' = m
    /\ UNCHANGED <<log, kept, group, pel, acked, blind>>

Deliver(w, T) ==
    /\ pel' = [pel EXCEPT ![w] = @ \union T]
    /\ \E m \in T : (\A e \in T : e <= m) /\ last' = m
    /\ UNCHANGED <<log, kept, group, acked, blind>>

ListenRead(w) ==
    /\ pc[w] = "read"
    /\ mode[w] = "listen"
    /\ group
    /\ \E T \in (SUBSET Undelivered) \ {{}} :
          /\ IsBatch(T, Undelivered)
          /\ Deliver(w, T)
          /\ todo' = [todo EXCEPT ![w] = T]
    /\ pc' = [pc EXCEPT ![w] = "load"]
    /\ UNCHANGED <<mode, dbVars, sweepVars, envVars>>

\* Redis has moved the entries to the pending list and the reply is lost: the
\* worker logs the error, sleeps and reads on.
ListenReplyLost(w) ==
    /\ pc[w] = "read"
    /\ mode[w] = "listen"
    /\ group
    /\ \E T \in (SUBSET Undelivered) \ {{}} : IsBatch(T, Undelivered) /\ Deliver(w, T)
    /\ Fault
    /\ UNCHANGED <<workerVars, dbVars, sweepVars>>

\* processPending: the worker's own unacknowledged entries, from the first,
\* until there are none.
RecoverRead(w) ==
    /\ pc[w] = "read"
    /\ mode[w] = "recover"
    /\ group
    /\ pel[w] # {}
    /\ \E T \in SUBSET pel[w] :
          /\ IsBatch(T, pel[w])
          /\ todo' = [todo EXCEPT ![w] = T]
    /\ pc' = [pc EXCEPT ![w] = "load"]
    /\ UNCHANGED <<mode, dbVars, streamVars, sweepVars, envVars>>

\* Mutant: processPending does not stop at an empty reply.
RecoverNeverEnds(w) ==
    /\ pc[w] = "read"
    /\ mode[w] = "recover"
    /\ Fault
    /\ mode' = [mode EXCEPT ![w] = "listen"]
    /\ UNCHANGED <<pc, todo, dbVars, streamVars, sweepVars>>

\* Mutant: processPending stops after any round, not at an empty reply.
RecoverStopsEarly(w) ==
    /\ pc[w] = "read"
    /\ mode[w] = "recover"
    /\ mode' = [mode EXCEPT ![w] = "listen"]
    /\ UNCHANGED <<pc, todo, dbVars, streamVars, sweepVars, envVars>>

\* ... or until a read fails, for good when the group is gone (NOGROUP).
RecoverEnds(w) ==
    /\ pc[w] = "read"
    /\ mode[w] = "recover"
    /\ \/ ~group /\ UNCHANGED envVars
       \/ group /\ pel[w] = {} /\ UNCHANGED envVars
       \/ Fault
    /\ mode' = [mode EXCEPT ![w] = "listen"]
    /\ UNCHANGED <<pc, todo, dbVars, streamVars, sweepVars>>

\* Done with entry e: the next one of the batch, or the next read.
Leave(w, e) ==
    /\ todo' = [todo EXCEPT ![w] = @ \ {e}]
    /\ pc' = [pc EXCEPT ![w] = IF todo[w] = {e} THEN "read" ELSE "load"]
    /\ UNCHANGED mode

Goto(w, step) ==
    /\ pc' = [pc EXCEPT ![w] = step]
    /\ UNCHANGED <<mode, todo>>

\* Mutant: a message is acknowledged whatever EnrichFinding returns.
LoadAcksFailures(w) ==
    /\ pc[w] = "load"
    /\ \E e \in todo[w] :
          /\ IsCurrent(w, e)
          /\ \/ Present(log[e]) /\ Goto(w, "score") /\ UNCHANGED envVars
             \/ Fault /\ Goto(w, "ack")
    /\ UNCHANGED <<dbVars, streamVars, sweepVars>>

\* EnrichFinding loads the row; without one, or when the query fails, the
\* message is left unacknowledged.
Load(w) ==
    /\ pc[w] = "load"
    /\ \E e \in todo[w] :
          /\ IsCurrent(w, e)
          /\ \/ Present(log[e]) /\ Goto(w, "score") /\ UNCHANGED envVars
             \/ ~Present(log[e]) /\ Leave(w, e) /\ UNCHANGED envVars
             \/ Fault /\ Leave(w, e)
    /\ UNCHANGED <<dbVars, streamVars, sweepVars>>

\* It ends by writing the score, which fails if the row was deleted meanwhile
\* (foreign key) or on a fault.
Score(w) ==
    /\ pc[w] = "score"
    /\ \E e \in todo[w] :
          /\ IsCurrent(w, e)
          /\ \/ /\ Present(log[e])
                /\ WriteScore(log[e])
                /\ Goto(w, "ack")
                /\ UNCHANGED envVars
             \/ ~Present(log[e]) /\ Leave(w, e) /\ UNCHANGED <<db, envVars>>
             \/ Fault /\ Leave(w, e) /\ UNCHANGED db
    /\ UNCHANGED <<outbox, streamVars, sweepVars>>

\* XACK; of an entry the stream no longer has it is a no-op.  An error is only
\* logged.
Ack(w) ==
    /\ pc[w] = "ack"
    /\ \E e \in todo[w] :
          /\ IsCurrent(w, e)
          /\ Leave(w, e)
          /\ \/ /\ pel' = [pel EXCEPT ![w] = @ \ {e}]
                /\ acked' = acked \union ({e} \intersect pel[w])
                /\ UNCHANGED envVars
             \/ Fault /\ UNCHANGED <<pel, acked>>
    /\ UNCHANGED <<log, kept, group, last, blind, dbVars, sweepVars>>

-----------------------------------------------------------------------------
(* The process and Redis *)

\* Mutant: the cursor of the group is set to 0 on every start.
CreateGroupAnew ==
    /\ group' = TRUE
    /\ last' = 0
    /\ UNCHANGED <<log, kept, pel, acked, blind>>

\* StartWorkers creates the group from id 0 unless it exists (BUSYGROUP).
CreateGroup ==
    /\ group' = TRUE
    /\ last' = IF group THEN last ELSE 0
    /\ UNCHANGED <<log, kept, pel, acked, blind>>

Start ==
    /\ ~up
    /\ up' = TRUE
    /\ CreateGroup
    /\ mode' = [w \in Workers |-> "recover"]
    /\ pc' = [w \in Workers |-> "read"]
    /\ UNCHANGED <<todo, dbVars, sweepVars, faults, stops>>

\* When Redis fails at that moment no worker is started, and the server serves.
StartWithoutWorkers ==
    /\ ~up
    /\ up' = TRUE
    /\ faults < MaxFaults
    /\ faults' = faults + 1
    /\ UNCHANGED <<dbVars, streamVars, workerVars, sweepVars, stops>>

\* A crash, or SIGTERM: main closes the Redis client and the pool without
\* waiting for the workers, so a message is cut at any step.
Stop ==
    /\ up
    /\ stops < MaxStops
    /\ stops' = stops + 1
    /\ up' = FALSE
    /\ outbox' = {}
    /\ mode' = [w \in Workers |-> "recover"]
    /\ pc' = [w \in Workers |-> "off"]
    /\ todo' = [w \in Workers |-> {}]
    /\ sweeping' = FALSE
    /\ sweep' = {}
    /\ UNCHANGED <<db, streamVars, faults>>

\* Redis evicts the stream key, and with it the group and the pending lists.
Evict ==
    /\ kept # {}
    /\ Fault
    /\ kept' = {}
    /\ group' = FALSE
    /\ last' = 0
    /\ pel' = [w \in Workers |-> {}]
    /\ UNCHANGED <<log, acked, blind, dbVars, workerVars, sweepVars>>

-----------------------------------------------------------------------------
Handlers ==
    \E f \in Findings :
        \/ Commit(f) \/ Publish(f) \/ PublishFails(f)
        \/ Reenrich(f) \/ ReenrichInline(f) \/ Delete(f)

Sweeping ==
    \/ SweepStart \/ SweepQuery \/ SweepQueryFails
    \/ \E f \in Findings : SweepOne(f)

Worker(w) ==
    \/ ListenRead(w) \/ ListenReplyLost(w) \/ RecoverRead(w) \/ RecoverEnds(w)
    \/ Load(w) \/ Score(w) \/ Ack(w)

Process == Start \/ StartWithoutWorkers \/ Stop \/ Evict

Next ==
    \/ Handlers
    \/ Sweeping
    \/ \E w \in Workers : Worker(w)
    \/ Process

Spec == Init /\ [][Next]_vars

\* The goroutines run, a handler that has committed goes on to publish, the
\* sweep goes on, and docker restarts a stopped container.  Clients, faults
\* and stops are under no obligation.
Fairness ==
    /\ \A w \in Workers : WF_vars(Worker(w))
    /\ \A f \in Findings : WF_vars(Publish(f) \/ PublishFails(f))
    /\ \A f \in Findings : WF_vars(SweepOne(f))
    /\ WF_vars(SweepQuery \/ SweepQueryFails)
    /\ WF_vars(Start \/ StartWithoutWorkers)

FairSpec == Spec /\ Fairness

-----------------------------------------------------------------------------
(* Safety *)

Settled(f) == db[f] \in {"scored", "deleted"}

\* An acknowledged message is never asked for again, so its finding must have
\* been enriched (or deleted since): XACK only on success, across failures,
\* crashes between the score and the XACK, and redelivery.
AckedEnriched == \A e \in acked : Settled(log[e])

\* No worker can read a message of a scan or an import before the row is
\* visible in the database: these handlers publish after the commit, and a
\* crash in between only loses the message.  The exception is handleEnrichFinding
\* for an id that named no row when it was asked for.
PublishedIsCommitted == \A e \in Entries \ blind : db[log[e]] # "absent"

\* Every entry still in the stream is accounted for: it waits for a first
\* delivery, or a consumer has it pending, or it was acknowledged ...
InOnePlace ==
    \A e \in kept :
        \/ e > last /\ e \notin acked
        \/ e <= last /\ e \in acked
        \/ e <= last /\ e \notin acked /\ \E w \in Workers : e \in pel[w]

\* ... what is pending was delivered and not acknowledged, ...
PendingInStream ==
    \A w \in Workers : \A e \in pel[w] : e \in kept /\ e <= last /\ e \notin acked

\* ... by one consumer, ...
PendingOnce == \A v, w \in Workers : v # w => pel[v] \intersect pel[w] = {}

\* ... and what a worker holds of the stream is in its own pending list, where
\* a restart finds it.
HeldIsPending == \A w \in Workers : todo[w] \intersect kept \subseteq pel[w]

\* No entry is lost or handled twice at a time, whatever stops or fails.
NothingLost == InOnePlace /\ PendingInStream /\ PendingOnce /\ HeldIsPending

\* What the two properties above rest on: a handler publishes only committed
\* rows, a worker about to acknowledge has enriched, and a stream without a
\* group has no cursor.
OutboxCommitted == \A f \in outbox : db[f] # "absent"

AckAfterScore ==
    \A w \in Workers : pc[w] = "ack" =>
        \A e \in todo[w] : IsCurrent(w, e) => Settled(log[e])

NoGroupNoCursor == ~group => last = 0

IInv ==
    /\ TypeOK
    /\ PublishedIsCommitted /\ OutboxCommitted
    /\ AckedEnriched /\ AckAfterScore
    /\ NothingLost /\ NoGroupNoCursor

\* The promise to publishers (DeliveryContract) under this mapping.
Status(e) ==
    IF e \notin Entries THEN "none"
    ELSE IF e \notin kept THEN "lost"
    ELSE IF e > last THEN "ready"
    ELSE IF e \in acked THEN "done" ELSE "claimed"

Contract == INSTANCE DeliveryContract WITH
    Ids <- 1..MaxLog,
    status <- [e \in 1..MaxLog |-> Status(e)],
    settled <- {e \in Entries : Settled(log[e])}

\* The pipeline implements at-least-once delivery, step by step.
ImplementsContract == Contract!Spec

-----------------------------------------------------------------------------
(* Liveness, under FairSpec *)

\* A message whose enrichment can only fail: its finding has been deleted, or
\* its id names no row.
Dead(e) == e \in Entries /\ ~Present(log[e])

\* Worker w re-reads its pending list for ever: it holds a message without a
\* row, which is not acknowledged.
Poisoned(w) ==
    /\ mode[w] = "recover"
    /\ \E e \in pel[w] : Dead(e)

\* A published message is delivered, unless the process is down, the group is
\* gone, or every worker was never started or is caught in processPending by
\* a message without a row.
EventuallyDelivered ==
    \A e \in 1..MaxLog :
        (e \in kept /\ e > last /\ group)
            ~> \/ e <= last
               \/ ~up \/ ~group
               \/ \A w \in Workers : pc[w] = "off" \/ Poisoned(w)

\* BatchSize earlier messages without a row hide e from XREADGROUP 0.
Hidden(w, e) ==
    Cardinality({d \in pel[w] : d < e /\ Dead(d)}) >= BatchSize

\* After a restart, and when nothing fails any more, a worker gets through
\* the messages its predecessor left: each is acknowledged unless it has no
\* row or is hidden by such messages.
RecoveryRetries ==
    \A w \in Workers, e \in 1..MaxLog :
        (e \in pel[w] /\ mode[w] = "recover" /\ pc[w] # "off" /\ faults = MaxFaults)
            ~> (e \in acked \/ ~up \/ Dead(e) \/ Hidden(w, e))

\* enrich-all goes on until no finding is left without a score.
SweepClearsBacklog ==
    \A f \in Findings :
        (sweeping /\ db[f] = "plain" /\ faults = MaxFaults) ~> (db[f] # "plain" \/ ~up)

\* worker.go:166: a message whose enrichment failed "stays in pending for
\* retry"; README.md:45: stuck messages are "restored automatically".  So the
\* finding of a message a worker starts on, if it has a row, is enriched in
\* the end, while the server stays up.
FailedMessageRetried ==
    \A w \in Workers, e \in 1..MaxLog :
        (pc[w] = "load" /\ IsCurrent(w, e) /\ ~Dead(e))
            ~> (~up \/ (e \in Entries /\ Settled(log[e])))

\* f is committed, and no handler, entry or batch will have it enriched.
Orphan(f) ==
    /\ db[f] = "plain"
    /\ f \notin outbox \union sweep
    /\ \A e \in Entries : log[e] # f

\* scans.go:214: findings whose publication failed "the periodic handleEnrichAll
\* or a manual /enrich will pick up".  So the program, which leaves them to
\* that sweep, finds them again, while the server stays up.
OrphansSwept == \A f \in Findings : Orphan(f) ~> (~up \/ ~Orphan(f))
============================================================================
