----------------------- MODULE EnrichmentQueueProofs -----------------------
(***************************************************************************)
(* For any findings, workers, batch size and bounds, the safety properties *)
(* of EnrichmentQueue hold in every reachable state.                       *)
(***************************************************************************)
EXTENDS EnrichmentQueue, TLAPS

(* An XADD adds one entry at the end and changes no other. *)
LEMMA AppendEntry ==
    ASSUME NEW s \in Seq(Findings), NEW f \in Findings
    PROVE  /\ Append(s, f) \in Seq(Findings)
           /\ Len(Append(s, f)) = Len(s) + 1
           /\ \A e \in 1..Len(s) : Append(s, f)[e] = s[e]
           /\ Append(s, f)[Len(s) + 1] = f
  OBVIOUS

(* What keeps the variables of a part keeps its type. *)
LEMMA Unchanged ==
    /\ DbType /\ UNCHANGED dbVars => DbType'
    /\ StreamType /\ UNCHANGED streamVars => StreamType'
    /\ WorkerType /\ UNCHANGED workerVars /\ UNCHANGED log => WorkerType'
    /\ SweepType /\ UNCHANGED sweepVars => SweepType'
    /\ EnvType /\ UNCHANGED envVars => EnvType'
<1>1. DbType /\ UNCHANGED dbVars => DbType'
  BY DEF DbType, dbVars
<1>2. StreamType /\ UNCHANGED streamVars => StreamType'
  BY DEF StreamType, streamVars, Entries
<1>3. WorkerType /\ UNCHANGED workerVars /\ UNCHANGED log => WorkerType'
  BY DEF WorkerType, workerVars, Entries
<1>4. SweepType /\ UNCHANGED sweepVars => SweepType'
  BY DEF SweepType, sweepVars
<1>5. EnvType /\ UNCHANGED envVars => EnvType'
  BY DEF EnvType, envVars
<1>. QED  BY <1>1, <1>2, <1>3, <1>4, <1>5

(* Faults stay within their bound. *)
LEMMA FaultType == EnvType /\ Fault => EnvType'
  BY QueueAssumption DEF QueueAssumption, EnvType, Fault

(* Rows keep a legal state when a score is written. *)
LEMMA WriteScoreType ==
    ASSUME DbType, NEW f \in Findings, WriteScore(f), UNCHANGED outbox
    PROVE  DbType'
  BY DEF DbType, WriteScore, RowState

(* The new entry may be noted as published for an id without a row. *)
NotesBlind == blind' \in {blind, blind \union {Len(log) + 1}}

(* An XADD keeps the stream well formed, and every set of entries too. *)
LEMMA AddType ==
    ASSUME StreamType, NEW f \in Findings, Add(f), NotesBlind
    PROVE  StreamType' /\ Entries \subseteq Entries'
<1>1. log' = Append(log, f)
  BY DEF Add
<1>2. log' \in Seq(Findings) /\ Len(log) \in Nat /\ Len(log') = Len(log) + 1
  BY <1>1, AppendEntry DEF StreamType
<1>3. Entries \subseteq Entries' /\ Len(log) + 1 \in Entries'
  BY <1>2 DEF Entries
<1>4. kept' \subseteq Entries' /\ acked' \subseteq Entries' /\ blind' \subseteq Entries'
  BY <1>3 DEF Add, StreamType, NotesBlind
<1>5. pel' \in [Workers -> SUBSET Entries']
  BY <1>3 DEF Add, StreamType
<1>6. last' \in 0..Len(log') /\ group' \in BOOLEAN
  BY <1>2 DEF Add, StreamType
<1>. QED  BY <1>2, <1>3, <1>4, <1>5, <1>6 DEF StreamType

(* A delivery gives a worker entries of the stream. *)
LEMMA DeliverType ==
    ASSUME StreamType, NEW w \in Workers, NEW T \in SUBSET Undelivered, Deliver(w, T)
    PROVE  StreamType' /\ UNCHANGED log /\ T \subseteq Entries
<1>1. T \subseteq Entries /\ UNCHANGED <<log, kept, group, acked, blind>>
  BY DEF Deliver, Undelivered, StreamType
<1>2. pel' \in [Workers -> SUBSET Entries]
  BY <1>1 DEF Deliver, StreamType
<1>3. last' \in 0..Len(log)
  BY <1>1 DEF Deliver, StreamType, Entries
<1>4. Entries' = Entries
  BY <1>1 DEF Entries
<1>. QED  BY <1>1, <1>2, <1>3, <1>4 DEF StreamType

(* Leaving an entry, or going on to the next step with it. *)
LEMMA LeaveType ==
    ASSUME WorkerType, UNCHANGED log, NEW w \in Workers, NEW e
    PROVE  /\ Leave(w, e) => WorkerType'
           /\ \A s \in {"load", "score", "ack"} : Goto(w, s) => WorkerType'
<1>1. Entries' = Entries
  BY DEF Entries
<1>. QED  BY <1>1 DEF WorkerType, Leave, Goto

LEMMA TypeInit ==
    ASSUME Init
    PROVE  TypeOK
<1> USE QueueAssumption DEF QueueAssumption, Init, Entries
<1>1. DbType  BY DEF DbType, RowState
<1>2. StreamType
  <2>1. log \in Seq(Findings) /\ last \in 0..Len(log)
    OBVIOUS
  <2>2. pel \in [Workers -> SUBSET Entries]
    OBVIOUS
  <2>. QED  BY <2>1, <2>2 DEF StreamType
<1>3. WorkerType  BY DEF WorkerType
<1>4. SweepType  BY DEF SweepType
<1>5. EnvType
  <2>1. faults \in 0..MaxFaults /\ stops \in 0..MaxStops
    OBVIOUS
  <2>2. up \in BOOLEAN
    OBVIOUS
  <2>. QED  BY <2>1, <2>2 DEF EnvType
<1>. QED  BY <1>1, <1>2, <1>3, <1>4, <1>5 DEF TypeOK

LEMMA TypeStep ==
    ASSUME TypeOK, [Next]_vars
    PROVE  TypeOK'
<1>0. DbType /\ StreamType /\ WorkerType /\ SweepType /\ EnvType
  BY DEF TypeOK
<1>p. UNCHANGED streamVars => UNCHANGED log
  BY DEF streamVars
<1> USE DEF TypeOK
<1>1. ASSUME NEW f \in Findings, Commit(f) PROVE TypeOK'
  <2>1. DbType'  BY <1>0, <1>1 DEF Commit, DbType, RowState
  <2>. QED  BY <1>0, <1>1, <1>p, <2>1, Unchanged DEF Commit
<1>2. ASSUME NEW f \in Findings, Add(f), NotesBlind, UNCHANGED workerVars
      PROVE  StreamType' /\ WorkerType'
  <2>1. StreamType' /\ Entries \subseteq Entries'
    BY <1>0, <1>2, AddType
  <2>2. WorkerType'  BY <1>0, <1>2, <2>1 DEF WorkerType, workerVars
  <2>. QED  BY <2>1, <2>2
<1>3. ASSUME NEW f \in Findings, Publish(f) PROVE TypeOK'
  <2>1. DbType'  BY <1>0, <1>3 DEF Publish, DbType
  <2>. QED  BY <1>0, <1>2, <1>3, <2>1, Unchanged DEF Publish, NotesBlind
<1>4. ASSUME NEW f \in Findings, PublishFails(f) PROVE TypeOK'
  <2>1. DbType'  BY <1>0, <1>4 DEF PublishFails, DbType
  <2>. QED  BY <1>0, <1>4, <1>p, <2>1, FaultType, Unchanged DEF PublishFails
<1>5. ASSUME NEW f \in Findings, Reenrich(f) PROVE TypeOK'
  BY <1>0, <1>2, <1>5, Unchanged DEF Reenrich, NotesBlind
<1>6. ASSUME NEW f \in Findings, ReenrichInline(f) PROVE TypeOK'
  BY <1>0, <1>6, <1>p, WriteScoreType, FaultType, Unchanged DEF ReenrichInline
<1>7. ASSUME NEW f \in Findings, Delete(f) PROVE TypeOK'
  <2>1. DbType'  BY <1>0, <1>7 DEF Delete, DbType, RowState
  <2>. QED  BY <1>0, <1>7, <1>p, <2>1, Unchanged DEF Delete
<1>8. ASSUME Sweeping PROVE TypeOK'
  <2>1. ASSUME SweepStart \/ SweepQuery \/ SweepQueryFails PROVE TypeOK'
    <3>1. SweepType'
      BY <1>0, <2>1 DEF SweepStart, SweepQuery, SweepQueryFails, SweepType, Unscored
    <3>. QED
      BY <1>0, <1>p, <2>1, <3>1, FaultType, Unchanged
         DEF SweepStart, SweepQuery, SweepQueryFails
  <2>2. ASSUME NEW f \in Findings, SweepOne(f) PROVE TypeOK'
    <3>1. SweepType'  BY <1>0, <2>2 DEF SweepOne, SweepType
    <3>2. DbType'
      BY <1>0, <2>2, WriteScoreType, Unchanged DEF SweepOne, dbVars
    <3>. QED
      BY <1>0, <1>p, <2>2, <3>1, <3>2, FaultType, Unchanged DEF SweepOne
  <2>. QED  BY <1>8, <2>1, <2>2 DEF Sweeping
<1>9. ASSUME NEW w \in Workers, Worker(w) PROVE TypeOK'
  <2>1. CASE ListenRead(w)
    <3>1. PICK T \in SUBSET Undelivered : Deliver(w, T) /\ todo' = [todo EXCEPT ![w] = T]
      BY <2>1 DEF ListenRead
    <3>2. StreamType' /\ UNCHANGED log /\ T \subseteq Entries
      BY <1>0, <3>1, DeliverType
    <3>3. WorkerType'
      BY <1>0, <2>1, <3>1, <3>2 DEF ListenRead, WorkerType, Entries
    <3>. QED  BY <1>0, <2>1, <3>2, <3>3, Unchanged DEF ListenRead
  <2>2. CASE ListenReplyLost(w)
    <3>1. PICK T \in SUBSET Undelivered : Deliver(w, T)
      BY <2>2 DEF ListenReplyLost
    <3>. QED
      BY <1>0, <2>2, <3>1, DeliverType, FaultType, Unchanged DEF ListenReplyLost
  <2>3. CASE RecoverRead(w)
    <3>1. WorkerType'
      BY <1>0, <1>p, <2>3 DEF RecoverRead, WorkerType, StreamType, Entries
    <3>. QED  BY <1>0, <2>3, <3>1, Unchanged DEF RecoverRead
  <2>4. CASE RecoverEnds(w)
    <3>1. WorkerType'
      BY <1>0, <1>p, <2>4 DEF RecoverEnds, WorkerType, Entries
    <3>. QED  BY <1>0, <2>4, <3>1, FaultType, Unchanged DEF RecoverEnds
  <2>5. CASE Load(w)
    BY <1>0, <1>p, <2>5, LeaveType, FaultType, Unchanged DEF Load
  <2>6. CASE Score(w)
    <3>1. PICK e \in todo[w] :
            \/ WriteScore(log[e]) /\ Goto(w, "ack") /\ UNCHANGED envVars
            \/ Leave(w, e) /\ UNCHANGED <<db, envVars>>
            \/ Fault /\ Leave(w, e) /\ UNCHANGED db
      BY <2>6 DEF Score
    <3>2. log[e] \in Findings
      BY <1>0, <3>1 DEF StreamType, WorkerType, Entries
    <3>3. DbType'
      BY <1>0, <2>6, <3>1, <3>2, WriteScoreType, Unchanged DEF Score, dbVars
    <3>4. WorkerType'  BY <1>0, <1>p, <2>6, <3>1, LeaveType DEF Score
    <3>. QED
      BY <1>0, <2>6, <3>1, <3>3, <3>4, FaultType, Unchanged DEF Score
  <2>7. CASE Ack(w)
    <3>1. PICK e \in todo[w] :
            /\ Leave(w, e)
            /\ \/ /\ pel' = [pel EXCEPT ![w] = @ \ {e}]
                  /\ acked' = acked \union ({e} \intersect pel[w])
                  /\ UNCHANGED envVars
               \/ Fault /\ UNCHANGED <<pel, acked>>
      BY <2>7 DEF Ack
    <3>2. UNCHANGED <<log, kept, group, last, blind>>
      BY <2>7 DEF Ack
    <3>3. StreamType'
      BY <1>0, <3>1, <3>2 DEF StreamType, Entries
    <3>. QED
      BY <1>0, <2>7, <3>1, <3>2, <3>3, LeaveType, FaultType, Unchanged DEF Ack
  <2>. QED  BY <1>9, <2>1, <2>2, <2>3, <2>4, <2>5, <2>6, <2>7 DEF Worker
<1>10. ASSUME Process PROVE TypeOK'
  <2>1. CASE Start
    <3>1. last' \in 0..Len(log) /\ group' \in BOOLEAN
          /\ UNCHANGED <<log, kept, pel, acked, blind>>
      BY <1>0, <2>1 DEF Start, CreateGroup, StreamType
    <3>2. StreamType'
      BY <1>0, <3>1 DEF StreamType, Entries
    <3>3. WorkerType'
      BY <1>0, <2>1, <3>1 DEF Start, WorkerType, Entries
    <3>. QED  BY <1>0, <2>1, <3>2, <3>3, Unchanged DEF Start, EnvType
  <2>2. CASE StartWithoutWorkers
    <3>1. EnvType'
      BY <1>0, <2>2, QueueAssumption DEF StartWithoutWorkers, EnvType, QueueAssumption
    <3>. QED  BY <1>0, <1>p, <2>2, <3>1, Unchanged DEF StartWithoutWorkers
  <2>3. CASE Stop
    <3>1. EnvType'
      <4>1. stops' \in 0..MaxStops /\ UNCHANGED faults
        BY <1>0, <2>3, QueueAssumption DEF Stop, EnvType, QueueAssumption
      <4>2. up' \in BOOLEAN
        BY <2>3 DEF Stop
      <4>. QED  BY <1>0, <4>1, <4>2 DEF EnvType
    <3>2. WorkerType'  BY <1>0, <2>3 DEF Stop, WorkerType
    <3>3. DbType' /\ SweepType'  BY <1>0, <2>3 DEF Stop, DbType, SweepType
    <3>. QED  BY <1>0, <2>3, <3>1, <3>2, <3>3, Unchanged DEF Stop
  <2>4. CASE Evict
    <3>1. last' \in 0..Len(log)
      <4>1. Len(log) \in Nat  BY <1>0 DEF StreamType
      <4>. QED  BY <2>4, <4>1 DEF Evict
    <3>2. /\ group' \in BOOLEAN /\ UNCHANGED <<log, acked, blind>>
          /\ kept' = {} /\ pel' \in [Workers -> SUBSET Entries]
      BY <2>4 DEF Evict
    <3>3. StreamType'  BY <1>0, <3>1, <3>2 DEF StreamType, Entries
    <3>. QED  BY <1>0, <2>4, <3>2, <3>3, FaultType, Unchanged DEF Evict
  <2>. QED  BY <1>10, <2>1, <2>2, <2>3, <2>4 DEF Process
<1>11. CASE UNCHANGED vars
  BY <1>0, <1>p, <1>11, Unchanged DEF vars
<1>. QED
  BY <1>1, <1>3, <1>4, <1>5, <1>6, <1>7, <1>8, <1>9, <1>10, <1>11 DEF Next, Handlers

(***************************************************************************)
(* Type correctness: every variable keeps its type, the pending lists and  *)
(* the workers' batches hold only entries of the stream's history, and the *)
(* bounds on faults and stops are respected.                               *)
(***************************************************************************)
THEOREM TypeCorrect == Spec => []TypeOK
<1>1. Init => TypeOK
  BY TypeInit
<1>2. TypeOK /\ [Next]_vars => TypeOK'
  BY TypeStep
<1>. QED  BY <1>1, <1>2, PTL DEF Spec

-----------------------------------------------------------------------------
(* A row never goes back: once committed it is there or deleted, and once     *)
(* enriched it stays so until it is deleted.                                  *)
LEMMA RowsAdvance ==
    ASSUME TypeOK, [Next]_vars, NEW f \in Findings
    PROVE  /\ db[f] # "absent" => db'[f] # "absent"
           /\ Settled(f) => db'[f] \in {"scored", "deleted"}
<1> USE DEF TypeOK, DbType, RowState, Settled
<1>1. ASSUME NEW g \in Findings, Commit(g) \/ Delete(g) \/ WriteScore(g), Present(g) \/ Commit(g)
      PROVE  /\ db[f] # "absent" => db'[f] # "absent"
             /\ Settled(f) => db'[f] \in {"scored", "deleted"}
  BY <1>1 DEF Commit, Delete, WriteScore, Present
<1>2. CASE Handlers
  <2>1. PICK g \in Findings :
          \/ Commit(g) \/ Publish(g) \/ PublishFails(g)
          \/ Reenrich(g) \/ ReenrichInline(g) \/ Delete(g)
    BY <1>2 DEF Handlers
  <2>. QED
    BY <1>1, <2>1 DEF Publish, PublishFails, Reenrich, ReenrichInline, Delete, dbVars
<1>3. CASE Sweeping
  BY <1>1, <1>3 DEF Sweeping, SweepStart, SweepQuery, SweepQueryFails, SweepOne, dbVars
<1>4. ASSUME NEW w \in Workers, Worker(w)
      PROVE  /\ db[f] # "absent" => db'[f] # "absent"
             /\ Settled(f) => db'[f] \in {"scored", "deleted"}
  <2>1. CASE Score(w)
    <3>1. PICK e \in todo[w] : (Present(log[e]) /\ WriteScore(log[e])) \/ UNCHANGED db
      BY <2>1 DEF Score
    <3>2. log[e] \in Findings
      BY <3>1 DEF StreamType, WorkerType, Entries
    <3>. QED  BY <1>1, <3>1, <3>2
  <2>2. CASE ~Score(w)
    BY <1>4, <2>2 DEF Worker, ListenRead, ListenReplyLost, RecoverRead, RecoverEnds, Load,
                      Ack, dbVars
  <2>. QED  BY <2>1, <2>2
<1>5. CASE Process
  BY <1>5 DEF Process, Start, StartWithoutWorkers, Stop, Evict, dbVars
<1>6. CASE UNCHANGED vars
  BY <1>6 DEF vars, dbVars
<1>. QED  BY <1>2, <1>3, <1>4, <1>5, <1>6 DEF Next

(* The stream's history only grows, and an id without a row is noted. *)
LEMMA LogGrows ==
    ASSUME TypeOK, [Next]_vars
    PROVE  \/ UNCHANGED <<log, blind>>
           \/ \E f \in Findings :
                 /\ Add(f)
                 /\ \/ f \in outbox /\ UNCHANGED blind
                    \/ db[f] = "absent" /\ blind' = blind \union {Len(log) + 1}
                    \/ db[f] # "absent" /\ UNCHANGED blind
  BY DEF Next, vars, Handlers, Commit, Publish, PublishFails, Reenrich, ReenrichInline, Delete,
         Sweeping, SweepStart, SweepQuery, SweepQueryFails, SweepOne, Worker, ListenRead,
         ListenReplyLost, Deliver, RecoverRead, RecoverEnds, Load, Score, Ack, Process, Start,
         CreateGroup, StartWithoutWorkers, Stop, Evict, streamVars

(* ... so an entry keeps the finding it names. *)
LEMMA EntriesStay ==
    ASSUME TypeOK, [Next]_vars, NEW e \in Entries
    PROVE  e \in Entries' /\ log'[e] = log[e] /\ log[e] \in Findings
<1>1. log \in Seq(Findings) /\ log[e] \in Findings
  BY DEF TypeOK, StreamType, Entries
<1>2. CASE UNCHANGED log
  BY <1>1, <1>2 DEF Entries
<1>3. ASSUME NEW f \in Findings, log' = Append(log, f)
      PROVE  e \in Entries' /\ log'[e] = log[e]
  BY <1>1, <1>3, AppendEntry DEF Entries
<1>. QED  BY <1>1, <1>2, <1>3, LogGrows DEF Add

(* Scans and imports publish only rows that are in the database.              *)
LEMMA CommittedStep ==
    ASSUME TypeOK, [Next]_vars, PublishedIsCommitted, OutboxCommitted
    PROVE  PublishedIsCommitted' /\ OutboxCommitted'
<1>1. PublishedIsCommitted'
  <2> SUFFICES ASSUME NEW e \in Entries', e \notin blind'
               PROVE  db'[log'[e]] # "absent"
    BY DEF PublishedIsCommitted
  <2>1. CASE e \in Entries
    <3>1. blind \subseteq blind'
      BY LogGrows
    <3>2. db[log[e]] # "absent"
      BY <2>1, <3>1 DEF PublishedIsCommitted
    <3>. QED  BY <2>1, <3>2, EntriesStay, RowsAdvance
  <2>2. CASE e \notin Entries
    <3>1. ~ UNCHANGED log
      BY <2>2 DEF Entries
    <3>2. PICK f \in Findings :
            /\ log' = Append(log, f)
            /\ db[f] # "absent" \/ blind' = blind \union {Len(log) + 1}
      BY <3>1, LogGrows DEF OutboxCommitted, Add
    <3>3. e = Len(log) + 1 /\ log'[e] = f
      BY <2>2, <3>2, AppendEntry DEF TypeOK, StreamType, Entries
    <3>. QED  BY <3>2, <3>3, RowsAdvance
  <2>. QED  BY <2>1, <2>2
<1>2. OutboxCommitted'
  <2> SUFFICES ASSUME NEW f \in outbox'
               PROVE  db'[f] # "absent"
    BY DEF OutboxCommitted
  <2>1. f \in outbox \/ (f \in Findings /\ Commit(f))
    <3>1. outbox' \subseteq outbox \/ \E g \in Findings : Commit(g) /\ outbox' = outbox \union {g}
      BY DEF Next, vars, Handlers, Commit, Publish, PublishFails, Reenrich, ReenrichInline,
             Delete, Sweeping, SweepStart, SweepQuery, SweepQueryFails, SweepOne, Worker,
             ListenRead, ListenReplyLost, RecoverRead, RecoverEnds, Load, Score, Ack, Process,
             Start, StartWithoutWorkers, Stop, Evict, dbVars
    <3>. QED  BY <3>1
  <2>2. CASE f \in outbox
    <3>1. f \in Findings /\ db[f] # "absent"
      BY <2>2 DEF OutboxCommitted, TypeOK, DbType
    <3>. QED  BY <3>1, RowsAdvance
  <2>3. CASE f \in Findings /\ Commit(f)
    BY <2>3 DEF Commit, TypeOK, DbType, RowState
  <2>. QED  BY <2>1, <2>2, <2>3
<1>. QED  BY <1>1, <1>2

(* A worker comes to XACK only by writing the score of its current message.   *)
LEMMA ReachesAck ==
    ASSUME TypeOK, [Next]_vars, NEW w \in Workers, pc'[w] = "ack"
    PROVE  \/ pc[w] = "ack" /\ todo'[w] = todo[w]
           \/ /\ todo' = todo /\ log' = log
              /\ \E e \in todo[w] : IsCurrent(w, e) /\ WriteScore(log[e])
<1> USE DEF TypeOK, WorkerType
<1>1. CASE UNCHANGED workerVars
  BY <1>1 DEF workerVars
<1>2. ASSUME NEW v \in Workers, Worker(v), v # w
      PROVE  pc[w] = "ack" /\ todo'[w] = todo[w]
  BY <1>2 DEF Worker, ListenRead, ListenReplyLost, RecoverRead, RecoverEnds, Load, Score, Ack,
              Leave, Goto, workerVars
<1>3. CASE Worker(w)
  <2>1. CASE Score(w)
    BY <2>1 DEF Score, Leave, Goto, streamVars
  <2>2. CASE ~Score(w)
    BY <1>3, <2>2 DEF Worker, ListenRead, ListenReplyLost, RecoverRead, RecoverEnds, Load, Ack,
                      Leave, Goto, workerVars
  <2>. QED  BY <2>1, <2>2
<1>4. CASE Start \/ Stop
  BY <1>4 DEF Start, Stop
<1>5. \/ UNCHANGED workerVars
      \/ \E v \in Workers : Worker(v)
      \/ Start \/ Stop
  BY DEF Next, vars, Handlers, Commit, Publish, PublishFails, Reenrich, ReenrichInline,
         Delete, Sweeping, SweepStart, SweepQuery, SweepQueryFails, SweepOne, Process,
         StartWithoutWorkers, Evict
<1>. QED  BY <1>1, <1>2, <1>3, <1>4, <1>5

(* Every other step leaves the acknowledged entries as they are.              *)
LEMMA AckedGrows ==
    ASSUME TypeOK, [Next]_vars
    PROVE  \/ UNCHANGED acked
           \/ \E w \in Workers, e \in Entries :
                 /\ pc[w] = "ack" /\ e \in todo[w] /\ IsCurrent(w, e)
                 /\ e \in pel[w]
                 /\ acked' = acked \union {e}
<1>1. ASSUME NEW w \in Workers, Ack(w)
      PROVE  \/ UNCHANGED acked
             \/ \E e \in Entries :
                   /\ pc[w] = "ack" /\ e \in todo[w] /\ IsCurrent(w, e)
                   /\ e \in pel[w]
                   /\ acked' = acked \union {e}
  BY <1>1 DEF Ack, TypeOK, WorkerType
<1>2. UNCHANGED acked \/ \E w \in Workers : Ack(w)
  BY DEF Next, vars, Handlers, Commit, Publish, PublishFails, Reenrich, ReenrichInline,
         Delete, Add, Sweeping, SweepStart, SweepQuery, SweepQueryFails, SweepOne, Worker,
         ListenRead, ListenReplyLost, Deliver, RecoverRead, RecoverEnds, Load, Score, Process,
         Start, CreateGroup, StartWithoutWorkers, Stop, Evict, streamVars
<1>. QED  BY <1>1, <1>2

(* XACK only on success.                                                      *)
LEMMA AckedStep ==
    ASSUME TypeOK, [Next]_vars, AckedEnriched, AckAfterScore
    PROVE  AckedEnriched' /\ AckAfterScore'
<1>1. AckedEnriched'
  <2> SUFFICES ASSUME NEW e \in acked'
               PROVE  db'[log'[e]] \in {"scored", "deleted"}
    BY DEF AckedEnriched, Settled
  <2>1. e \in Entries /\ Settled(log[e])
    <3>1. CASE e \in acked
      BY <3>1 DEF AckedEnriched, TypeOK, StreamType
    <3>2. CASE e \notin acked
      BY <3>2, AckedGrows DEF AckAfterScore
    <3>. QED  BY <3>1, <3>2
  <2>. QED  BY <2>1, EntriesStay, RowsAdvance
<1>2. AckAfterScore'
  <2> SUFFICES ASSUME NEW w \in Workers, pc'[w] = "ack", NEW e \in todo'[w],
                      \A d \in todo'[w] : e <= d
               PROVE  db'[log'[e]] \in {"scored", "deleted"}
    BY DEF AckAfterScore, IsCurrent, Settled
  <2>1. CASE pc[w] = "ack" /\ todo'[w] = todo[w]
    <3>1. e \in Entries /\ Settled(log[e])
      BY <2>1 DEF AckAfterScore, IsCurrent, TypeOK, WorkerType
    <3>. QED  BY <3>1, EntriesStay, RowsAdvance
  <2>2. ASSUME NEW d \in todo[w], IsCurrent(w, d), WriteScore(log[d]), todo' = todo, log' = log
        PROVE  db'[log'[e]] \in {"scored", "deleted"}
    <3>1. d \in Int /\ e \in Int /\ d <= e /\ e <= d
      BY <2>2 DEF IsCurrent, TypeOK, WorkerType, Entries
    <3>2. e = d
      BY <3>1
    <3>3. log[d] \in Findings
      BY <2>2 DEF TypeOK, StreamType, WorkerType, Entries
    <3>. QED  BY <2>2, <3>2, <3>3 DEF WriteScore, TypeOK, DbType
  <2>. QED  BY <2>1, <2>2, ReachesAck
<1>. QED  BY <1>1, <1>2

-----------------------------------------------------------------------------
(* The steps that move an entry: added, delivered, acknowledged, evicted.     *)

Accounted == NothingLost /\ NoGroupNoCursor

(* Steps that leave the stream alone and give no worker a new entry.          *)
LEMMA AccountKept ==
    ASSUME Accounted, UNCHANGED streamVars, \A w \in Workers : todo'[w] \subseteq todo[w]
    PROVE  Accounted'
  BY DEF Accounted, NothingLost, InOnePlace, PendingInStream, PendingOnce, HeldIsPending,
         NoGroupNoCursor, streamVars

LEMMA AccountAdd ==
    ASSUME TypeOK, Accounted, NEW f \in Findings, Add(f), UNCHANGED todo
    PROVE  Accounted'
<1>1. /\ kept' = kept \union {Len(log) + 1} /\ Len(log) \in Nat
      /\ UNCHANGED <<group, last, pel, acked>>
  BY DEF Add, TypeOK, StreamType
<1>2. last < Len(log) + 1 /\ Len(log) + 1 \notin acked
      /\ \A w \in Workers : Len(log) + 1 \notin todo[w]
  BY <1>1 DEF TypeOK, StreamType, WorkerType, Entries
<1>3. InOnePlace'
  BY <1>1, <1>2 DEF Accounted, NothingLost, InOnePlace
<1>4. PendingInStream' /\ PendingOnce'
  BY <1>1 DEF Accounted, NothingLost, PendingInStream, PendingOnce
<1>5. HeldIsPending'
  BY <1>1, <1>2 DEF Accounted, NothingLost, HeldIsPending
<1>. QED  BY <1>1, <1>3, <1>4, <1>5 DEF Accounted, NothingLost, NoGroupNoCursor

(* A delivered batch T is exactly the entries the cursor passes over.         *)
LEMMA BatchIsPrefix ==
    ASSUME TypeOK, NEW T \in SUBSET Undelivered, IsBatch(T, Undelivered),
           NEW m \in T, \A e \in T : e <= m
    PROVE  /\ m \in Int /\ last \in Int /\ last < m
           /\ \A e \in kept : e \in Int /\ ((e > last /\ e <= m) <=> e \in T)
<1>1. m \in Int /\ last \in Int /\ last < m /\ kept \subseteq Int
  BY DEF TypeOK, StreamType, Entries, Undelivered
<1>2. \A e \in T : e \in kept /\ e > last /\ e <= m
  BY DEF Undelivered
<1>3. ASSUME NEW e \in kept, e > last, e <= m
      PROVE  e \in T
  <2>1. e = m \/ e < m
    BY <1>1, <1>3
  <2>2. CASE e < m
    BY <1>3, <2>2 DEF IsBatch, Undelivered
  <2>. QED  BY <2>1, <2>2
<1>. QED  BY <1>1, <1>2, <1>3

LEMMA AccountDeliver ==
    ASSUME TypeOK, Accounted, group, NEW w \in Workers, NEW T \in SUBSET Undelivered,
           IsBatch(T, Undelivered), Deliver(w, T),
           \A v \in Workers : todo'[v] \subseteq (IF v = w THEN todo[v] \union T ELSE todo[v])
    PROVE  Accounted'
<1>1. PICK m \in T : (\A e \in T : e <= m) /\ last' = m
  BY DEF Deliver
<1>2. /\ UNCHANGED <<kept, group, acked>>
      /\ pel' = [pel EXCEPT ![w] = @ \union T]
  BY DEF Deliver
<1>3. /\ m \in Int /\ last \in Int /\ last < m
      /\ \A e \in kept : e \in Int /\ ((e > last /\ e <= m) <=> e \in T)
  BY <1>1, BatchIsPrefix
<1>4. \A v \in Workers : pel'[v] = IF v = w THEN pel[v] \union T ELSE pel[v]
  BY <1>2 DEF TypeOK, StreamType
<1>5. \A e \in T : e \in kept /\ e > last /\ e <= m
  BY <1>1 DEF Undelivered
<1>6. \A e \in T : e \notin acked
  BY <1>3, <1>5 DEF Accounted, NothingLost, InOnePlace
<1>7. \A e \in T, v \in Workers : e \notin pel[v]
  BY <1>3, <1>5 DEF Accounted, NothingLost, PendingInStream
<1>8. InOnePlace'
  <2> SUFFICES ASSUME NEW e \in kept
               PROVE  \/ e > m /\ e \notin acked
                      \/ e <= m /\ e \in acked
                      \/ e <= m /\ e \notin acked /\ \E v \in Workers : e \in pel'[v]
    BY <1>1, <1>2 DEF InOnePlace
  <2>1. CASE e \in T
    BY <1>4, <1>5, <1>6, <2>1
  <2>2. CASE e \notin T /\ e <= last
    <3>1. e <= m
      BY <1>3, <2>2
    <3>2. e \in acked \/ (e \notin acked /\ \E v \in Workers : e \in pel[v])
      BY <1>3, <2>2 DEF Accounted, NothingLost, InOnePlace
    <3>. QED  BY <1>4, <3>1, <3>2
  <2>3. CASE e \notin T /\ ~(e <= last)
    BY <1>3, <2>3 DEF Accounted, NothingLost, InOnePlace
  <2>. QED  BY <2>1, <2>2, <2>3
<1>9. PendingInStream'
  <2> SUFFICES ASSUME NEW v \in Workers, NEW e \in pel'[v]
               PROVE  e \in kept /\ e <= m /\ e \notin acked
    BY <1>1, <1>2 DEF PendingInStream
  <2>1. e \in pel[v] \/ e \in T
    BY <1>4
  <2>2. CASE e \in pel[v]
    BY <1>3, <2>2 DEF Accounted, NothingLost, PendingInStream
  <2>. QED  BY <1>5, <1>6, <2>1, <2>2
<1>10. PendingOnce'
  BY <1>4, <1>7 DEF Accounted, NothingLost, PendingOnce
<1>11. HeldIsPending'
  BY <1>2, <1>4 DEF Accounted, NothingLost, HeldIsPending
<1>. QED
  BY <1>2, <1>8, <1>9, <1>10, <1>11 DEF Accounted, NothingLost, NoGroupNoCursor

LEMMA AccountAck ==
    ASSUME TypeOK, Accounted, NEW w \in Workers, Ack(w)
    PROVE  Accounted'
<1>1. PICK e \in todo[w] :
        /\ Leave(w, e)
        /\ \/ /\ pel' = [pel EXCEPT ![w] = @ \ {e}]
              /\ acked' = acked \union ({e} \intersect pel[w])
           \/ UNCHANGED <<pel, acked>>
  BY DEF Ack
<1>2. UNCHANGED <<log, kept, group, last, blind>>
  BY DEF Ack
<1>3. \A v \in Workers : todo'[v] = IF v = w THEN todo[v] \ {e} ELSE todo[v]
  BY <1>1 DEF Leave, TypeOK, WorkerType
<1>4. CASE UNCHANGED <<pel, acked>>
  BY <1>2, <1>3, <1>4, AccountKept DEF streamVars
<1>5. CASE pel' = [pel EXCEPT ![w] = @ \ {e}] /\ acked' = acked \union ({e} \intersect pel[w])
  <2>1. \A v \in Workers : pel'[v] = IF v = w THEN pel[v] \ {e} ELSE pel[v]
    BY <1>5 DEF TypeOK, StreamType
  <2>2. \A v \in Workers : v # w => (e \in pel[w] => e \notin pel[v])
    BY DEF Accounted, NothingLost, PendingOnce
  <2>3. InOnePlace'
    <3> SUFFICES ASSUME NEW d \in kept
                 PROVE  \/ d > last /\ d \notin acked'
                        \/ d <= last /\ d \in acked'
                        \/ d <= last /\ d \notin acked' /\ \E v \in Workers : d \in pel'[v]
      BY <1>2 DEF InOnePlace
    <3>1. CASE d = e /\ e \in pel[w]
      BY <1>5, <3>1 DEF Accounted, NothingLost, PendingInStream
    <3>2. CASE d # e \/ e \notin pel[w]
      <4>1. d \in acked' <=> d \in acked
        BY <1>5, <3>2
      <4>2. \A v \in Workers : d \in pel[v] => d \in pel'[v]
        BY <2>1, <3>2
      <4>. QED  BY <4>1, <4>2 DEF Accounted, NothingLost, InOnePlace
    <3>. QED  BY <3>1, <3>2
  <2>4. PendingInStream'
    BY <1>2, <1>5, <2>1, <2>2 DEF Accounted, NothingLost, PendingInStream
  <2>5. PendingOnce'
    BY <2>1 DEF Accounted, NothingLost, PendingOnce
  <2>6. HeldIsPending'
    BY <1>2, <1>3, <2>1 DEF Accounted, NothingLost, HeldIsPending
  <2>. QED  BY <1>2, <2>3, <2>4, <2>5, <2>6 DEF Accounted, NothingLost, NoGroupNoCursor
<1>. QED  BY <1>1, <1>4, <1>5

LEMMA AccountEvict ==
    ASSUME Accounted, Evict
    PROVE  Accounted'
  BY DEF Evict, Accounted, NothingLost, InOnePlace, PendingInStream, PendingOnce,
         HeldIsPending, NoGroupNoCursor

(* A new group starts at 0, where the cursor of a stream without one is.      *)
LEMMA AccountStart ==
    ASSUME Accounted, Start
    PROVE  Accounted'
<1>1. last' = last /\ group' = TRUE /\ UNCHANGED <<kept, pel, acked, todo>>
  BY DEF Start, CreateGroup, Accounted, NoGroupNoCursor
<1>. QED
  BY <1>1 DEF Accounted, NothingLost, InOnePlace, PendingInStream, PendingOnce, HeldIsPending,
              NoGroupNoCursor

(* A worker that leaves an entry, goes on or stops takes nothing.             *)
LEMMA AccountLeave ==
    ASSUME TypeOK, Accounted, NEW w \in Workers, Load(w) \/ Score(w)
    PROVE  Accounted'
<1>1. UNCHANGED streamVars
  BY DEF Load, Score
<1>2. PICK e \in todo[w] : Leave(w, e) \/ UNCHANGED todo
  BY DEF Load, Score, Goto
<1>3. \A v \in Workers : todo'[v] \subseteq todo[v]
  BY <1>2 DEF Leave, TypeOK, WorkerType
<1>. QED  BY <1>1, <1>3, AccountKept

LEMMA AccountedStep ==
    ASSUME TypeOK, [Next]_vars, Accounted
    PROVE  Accounted'
<1>1. CASE Handlers
  <2>1. PICK f \in Findings :
          \/ Commit(f) \/ Publish(f) \/ PublishFails(f)
          \/ Reenrich(f) \/ ReenrichInline(f) \/ Delete(f)
    BY <1>1 DEF Handlers
  <2>2. UNCHANGED todo /\ (Add(f) \/ UNCHANGED streamVars)
    BY <2>1 DEF Commit, Publish, PublishFails, Reenrich, ReenrichInline, Delete, workerVars
  <2>. QED  BY <2>2, AccountAdd, AccountKept
<1>2. CASE Sweeping
  <2>1. UNCHANGED todo /\ UNCHANGED streamVars
    BY <1>2 DEF Sweeping, SweepStart, SweepQuery, SweepQueryFails, SweepOne, workerVars
  <2>. QED  BY <2>1, AccountKept
<1>3. ASSUME NEW w \in Workers, Worker(w)
      PROVE  Accounted'
  <2>1. CASE ListenRead(w)
    <3>1. PICK T \in SUBSET Undelivered :
            /\ IsBatch(T, Undelivered)
            /\ Deliver(w, T)
            /\ todo' = [todo EXCEPT ![w] = T]
      BY <2>1 DEF ListenRead
    <3>2. \A v \in Workers : todo'[v] \subseteq (IF v = w THEN todo[v] \union T ELSE todo[v])
      BY <3>1 DEF TypeOK, WorkerType
    <3>. QED  BY <2>1, <3>1, <3>2, AccountDeliver DEF ListenRead
  <2>2. CASE ListenReplyLost(w)
    <3>1. PICK T \in SUBSET Undelivered : IsBatch(T, Undelivered) /\ Deliver(w, T)
      BY <2>2 DEF ListenReplyLost
    <3>2. \A v \in Workers : todo'[v] \subseteq (IF v = w THEN todo[v] \union T ELSE todo[v])
      BY <2>2 DEF ListenReplyLost, workerVars
    <3>. QED  BY <2>2, <3>1, <3>2, AccountDeliver DEF ListenReplyLost
  <2>3. CASE RecoverRead(w)
    <3>1. UNCHANGED <<kept, group, last, pel, acked>>
      BY <2>3 DEF RecoverRead, streamVars
    <3>2. \A v \in Workers : todo'[v] \subseteq todo[v] \union pel[v]
      BY <2>3 DEF RecoverRead, TypeOK, WorkerType
    <3>. QED
      BY <3>1, <3>2 DEF Accounted, NothingLost, InOnePlace, PendingInStream, PendingOnce,
                        HeldIsPending, NoGroupNoCursor
  <2>4. CASE RecoverEnds(w)
    BY <2>4, AccountKept DEF RecoverEnds
  <2>. QED  BY <1>3, <2>1, <2>2, <2>3, <2>4, AccountLeave, AccountAck DEF Worker
<1>4. CASE Process
  <2>1. CASE StartWithoutWorkers
    BY <2>1, AccountKept DEF StartWithoutWorkers, workerVars
  <2>2. CASE Stop
    BY <2>2, AccountKept DEF Stop
  <2>. QED  BY <1>4, <2>1, <2>2, AccountStart, AccountEvict DEF Process
<1>5. CASE UNCHANGED vars
  BY <1>5, AccountKept DEF vars, workerVars
<1>. QED  BY <1>1, <1>2, <1>3, <1>4, <1>5 DEF Next

-----------------------------------------------------------------------------
(***************************************************************************)
(* The inductive invariant: what the properties say, together with what    *)
(* handlers, workers and the group keep true in between.                   *)
(***************************************************************************)
THEOREM Invariance == Spec => []IInv
<1>1. Init => IInv
  <2> SUFFICES ASSUME Init
               PROVE  IInv
    OBVIOUS
  <2>1. Entries = {}
    BY DEF Init, Entries
  <2>2. PublishedIsCommitted /\ OutboxCommitted /\ AckedEnriched
    BY <2>1 DEF Init, PublishedIsCommitted, OutboxCommitted, AckedEnriched
  <2>3. AckAfterScore
    BY DEF Init, AckAfterScore
  <2>4. NothingLost /\ NoGroupNoCursor
    BY DEF Init, NothingLost, InOnePlace, PendingInStream, PendingOnce, HeldIsPending,
           NoGroupNoCursor
  <2>. QED  BY <2>2, <2>3, <2>4, TypeInit DEF IInv
<1>2. IInv /\ [Next]_vars => IInv'
  <2> SUFFICES ASSUME IInv, [Next]_vars
               PROVE  IInv'
    OBVIOUS
  <2>1. TypeOK'  BY TypeStep DEF IInv
  <2>2. PublishedIsCommitted' /\ OutboxCommitted'  BY CommittedStep DEF IInv
  <2>3. AckedEnriched' /\ AckAfterScore'  BY AckedStep DEF IInv
  <2>4. NothingLost' /\ NoGroupNoCursor'  BY AccountedStep DEF IInv, Accounted
  <2>. QED  BY <2>1, <2>2, <2>3, <2>4 DEF IInv
<1>. QED  BY <1>1, <1>2, PTL DEF Spec

(***************************************************************************)
(* XACK only on success (worker.go:160-170): no crash, redelivery, failed  *)
(* query or concurrent deletion makes the pipeline acknowledge a message   *)
(* of a finding that is neither enriched nor deleted.                      *)
(***************************************************************************)
THEOREM AckOnlyOnSuccess == Spec => []AckedEnriched
<1>1. IInv => AckedEnriched
  BY DEF IInv
<1>. QED  BY <1>1, Invariance, PTL

(***************************************************************************)
(* Publishing after the commit (scans.go:212-222): no message names a      *)
(* finding that is not in the database yet, but for those handleEnrich-    *)
(* Finding publishes by an id that names no row when it is asked.          *)
(***************************************************************************)
THEOREM PublishAfterCommit == Spec => []PublishedIsCommitted
<1>1. IInv => PublishedIsCommitted
  BY DEF IInv
<1>. QED  BY <1>1, Invariance, PTL

(***************************************************************************)
(* The stream and its group account for every message: waiting, pending at *)
(* one consumer, or acknowledged, for any number of workers.               *)
(***************************************************************************)
THEOREM EveryEntryAccountedFor == Spec => []NothingLost
<1>1. IInv => NothingLost
  BY DEF IInv
<1>. QED  BY <1>1, Invariance, PTL

-----------------------------------------------------------------------------
(***************************************************************************)
(* The pipeline implements DeliveryContract.  StatusMap and SettledSet are *)
(* the values the contract's two variables have under the mapping of       *)
(* EnrichmentQueue: each lemma below says what one kind of step does to    *)
(* them.                                                                   *)
(***************************************************************************)
StatusMap  == [e \in 1..MaxLog |-> Status(e)]
SettledSet == {e \in Entries : Settled(log[e])}

LogBounded == Len(log) <= MaxLog

(* No publication goes beyond the bound on the stream's history.              *)
LEMMA LogBoundedStep ==
    ASSUME TypeOK, [Next]_vars, LogBounded
    PROVE  LogBounded'
<1>1. CASE UNCHANGED log
  BY <1>1 DEF LogBounded
<1>2. ASSUME NEW f \in Findings, Add(f)
      PROVE  LogBounded'
  BY <1>2, AppendEntry, QueueAssumption DEF Add, LogBounded, TypeOK, StreamType, QueueAssumption
<1>. QED  BY <1>1, <1>2, LogGrows

(* ... so the contract has a name for every entry.                            *)
LEMMA EntriesBounded ==
    ASSUME TypeOK, LogBounded
    PROVE  Entries \subseteq 1..MaxLog /\ kept \subseteq 1..MaxLog
<1>1. Len(log) \in Nat
  BY DEF TypeOK, StreamType
<1>2. Entries \subseteq 1..MaxLog
  BY <1>1, QueueAssumption DEF Entries, LogBounded, QueueAssumption
<1>. QED  BY <1>2 DEF TypeOK, StreamType

(* A message whose finding is enriched or deleted stays so.                   *)
LEMMA SettledGrows ==
    ASSUME TypeOK, [Next]_vars
    PROVE  SettledSet \subseteq SettledSet'
<1> SUFFICES ASSUME NEW e \in Entries, Settled(log[e])
             PROVE  e \in Entries' /\ Settled(log[e])'
  BY DEF SettledSet
<1>1. e \in Entries' /\ log'[e] = log[e] /\ log[e] \in Findings
  BY EntriesStay
<1>2. db'[log[e]] \in {"scored", "deleted"}
  BY <1>1, RowsAdvance
<1>. QED  BY <1>1, <1>2 DEF Settled

(* A step that leaves the stream alone enriches or deletes findings at most.  *)
LEMMA RefineSettle ==
    ASSUME TypeOK, LogBounded, [Next]_vars, UNCHANGED <<log, kept, last, acked>>
    PROVE  Contract!Next
<1>1. \A e : Status(e)' = Status(e)
  BY DEF Status, Entries
<1>2. StatusMap' = StatusMap
  BY <1>1 DEF StatusMap
<1>3. SettledSet' = SettledSet \union SettledSet'
  BY SettledGrows
<1>4. SettledSet' \in SUBSET (1..MaxLog)
  <2>1. Entries' = Entries
    BY DEF Entries
  <2>. QED  BY <2>1, EntriesBounded DEF SettledSet
<1>5. Contract!Settle(SettledSet')
  BY <1>2, <1>3 DEF Contract!Settle, StatusMap, SettledSet
<1>. QED  BY <1>4, <1>5 DEF Contract!Next

(* Publish: the entry is new and ready.                                       *)
LEMMA RefinePublish ==
    ASSUME TypeOK, LogBounded, NEW f \in Findings, Add(f), UNCHANGED db
    PROVE  Contract!Next
<1>0. PICK n : n = Len(log) + 1
  OBVIOUS
<1>1. /\ log' = Append(log, f) /\ kept' = kept \union {n}
      /\ UNCHANGED <<last, acked>>
  BY <1>0 DEF Add
<1>2. /\ Len(log) \in Nat /\ Len(log') = n /\ log'[n] = f
      /\ \A e \in Entries : log'[e] = log[e]
  BY <1>0, <1>1, AppendEntry DEF TypeOK, StreamType, Entries
<1>3. n \in 1..MaxLog /\ Entries' = Entries \union {n} /\ n \notin Entries
  BY <1>0, <1>2, QueueAssumption DEF Add, Entries, QueueAssumption
<1>4. n > last /\ n \notin kept /\ n \notin acked
  BY <1>0, <1>2, <1>3 DEF TypeOK, StreamType
<1>5. Status(n) = "none" /\ Status(n)' = "ready"
  BY <1>1, <1>3, <1>4 DEF Status
<1>6. ASSUME NEW e \in 1..MaxLog, e # n
      PROVE  Status(e)' = Status(e)
  BY <1>1, <1>3, <1>6 DEF Status
<1>7. StatusMap' = [StatusMap EXCEPT ![n] = "ready"]
  BY <1>3, <1>5, <1>6 DEF StatusMap
<1>8. SettledSet' \in {SettledSet, SettledSet \union {n}}
  <2>1. \A e \in Entries : Settled(log[e])' <=> Settled(log[e])
    BY <1>2 DEF Settled
  <2>. QED  BY <1>3, <2>1 DEF SettledSet
<1>9. Contract!Publish(n)
  BY <1>3, <1>5, <1>7, <1>8 DEF Contract!Publish, StatusMap, SettledSet
<1>. QED  BY <1>3, <1>9 DEF Contract!Next

(* XREADGROUP: a ready batch is claimed, whether or not the reply arrives.    *)
LEMMA RefineClaim ==
    ASSUME TypeOK, LogBounded, NothingLost, UNCHANGED db,
           NEW w \in Workers, NEW T \in SUBSET Undelivered,
           IsBatch(T, Undelivered), Deliver(w, T)
    PROVE  Contract!Next
<1>1. PICK m \in T : (\A e \in T : e <= m) /\ last' = m
  BY DEF Deliver
<1>2. UNCHANGED <<log, kept, acked>>
  BY DEF Deliver
<1>3. /\ m \in Int /\ last \in Int /\ last < m
      /\ \A e \in kept : e \in Int /\ ((e > last /\ e <= m) <=> e \in T)
  BY <1>1, BatchIsPrefix
<1>4. T \in SUBSET (1..MaxLog) /\ T \subseteq Entries
  BY EntriesBounded DEF Undelivered, TypeOK, StreamType
<1>5. ASSUME NEW e \in T
      PROVE  Status(e) = "ready" /\ Status(e)' = "claimed"
  <2>1. e \in kept /\ e \in Entries /\ e > last /\ e <= m
    BY <1>1, <1>4 DEF Undelivered
  <2>2. ~(e <= last) /\ ~(e > m)
    BY <1>3, <2>1
  <2>3. e \notin acked
    BY <2>1, <2>2 DEF NothingLost, InOnePlace
  <2>. QED  BY <1>1, <1>2, <2>1, <2>2, <2>3 DEF Status, Entries
<1>6. ASSUME NEW e \in 1..MaxLog, e \notin T
      PROVE  Status(e)' = Status(e)
  <2>1. e \in kept => (e > last <=> e > m)
    BY <1>3, <1>6
  <2>. QED  BY <1>1, <1>2, <2>1 DEF Status, Entries
<1>7. StatusMap' = [e \in 1..MaxLog |-> IF e \in T THEN "claimed" ELSE StatusMap[e]]
  BY <1>5, <1>6 DEF StatusMap
<1>8. SettledSet' = SettledSet
  BY <1>2 DEF SettledSet, Entries, Settled
<1>9. Contract!Claim(T)
  BY <1>4, <1>5, <1>7, <1>8 DEF Contract!Claim, StatusMap, SettledSet
<1>. QED  BY <1>4, <1>9 DEF Contract!Next

(* XACK of a pending entry completes it; of any other it is a no-op.          *)
LEMMA RefineAck ==
    ASSUME TypeOK, LogBounded, AckAfterScore, NothingLost, NEW w \in Workers, Ack(w)
    PROVE  [Contract!Next]_<<StatusMap, SettledSet>>
<1>1. UNCHANGED <<log, kept, last, db>> /\ pc[w] = "ack"
  BY DEF Ack, dbVars
<1>2. SettledSet' = SettledSet
  BY <1>1 DEF SettledSet, Entries, Settled
<1>3. CASE UNCHANGED acked
  <2>1. StatusMap' = StatusMap
    BY <1>1, <1>3 DEF StatusMap, Status, Entries
  <2>. QED  BY <1>2, <2>1
<1>4. CASE ~UNCHANGED acked
  <2>1. PICK e \in todo[w] : IsCurrent(w, e) /\ acked' = acked \union ({e} \intersect pel[w])
    BY <1>4 DEF Ack
  <2>2. e \in pel[w] /\ acked' = acked \union {e}
    BY <1>4, <2>1
  <2>3. e \in kept /\ e <= last /\ e \notin acked
    BY <2>2 DEF NothingLost, PendingInStream
  <2>4. e \in Entries /\ e \in 1..MaxLog /\ ~(e > last)
    BY <2>3, EntriesBounded DEF TypeOK, StreamType, Entries
  <2>5. Settled(log[e])
    BY <1>1, <2>1 DEF AckAfterScore
  <2>6. Status(e) = "claimed" /\ Status(e)' = "done"
    BY <1>1, <2>2, <2>3, <2>4 DEF Status, Entries
  <2>7. ASSUME NEW d \in 1..MaxLog, d # e
        PROVE  Status(d)' = Status(d)
    BY <1>1, <2>2, <2>7 DEF Status, Entries
  <2>8. StatusMap' = [StatusMap EXCEPT ![e] = "done"]
    BY <2>4, <2>6, <2>7 DEF StatusMap
  <2>9. Contract!Complete(e)
    BY <1>2, <2>4, <2>5, <2>6, <2>8 DEF Contract!Complete, StatusMap, SettledSet
  <2>. QED  BY <2>4, <2>9 DEF Contract!Next
<1>. QED  BY <1>3, <1>4

(* Eviction of the key loses everything published so far, at once.            *)
LEMMA RefineEvict ==
    ASSUME TypeOK, Evict
    PROVE  Contract!Next
<1>1. kept' = {} /\ UNCHANGED <<log, db>>
  BY DEF Evict, dbVars
<1>2. ASSUME NEW e \in 1..MaxLog
      PROVE  Status(e)' = IF Status(e) = "none" THEN "none" ELSE "lost"
  BY <1>1 DEF Status, Entries
<1>3. StatusMap' = [e \in 1..MaxLog |-> IF StatusMap[e] = "none" THEN "none" ELSE "lost"]
  BY <1>2 DEF StatusMap
<1>4. SettledSet' = SettledSet
  BY <1>1 DEF SettledSet, Entries, Settled
<1>5. Contract!Lose
  BY <1>3, <1>4 DEF Contract!Lose, StatusMap, SettledSet
<1>. QED  BY <1>5 DEF Contract!Next

LEMMA RefineStep ==
    ASSUME IInv, LogBounded, [Next]_vars
    PROVE  [Contract!Next]_<<StatusMap, SettledSet>>
<1> USE DEF IInv
<1>1. CASE UNCHANGED <<log, kept, last, acked>>
  BY <1>1, RefineSettle
<1>2. CASE Handlers
  <2>1. PICK f \in Findings :
          \/ Commit(f) \/ Publish(f) \/ PublishFails(f)
          \/ Reenrich(f) \/ ReenrichInline(f) \/ Delete(f)
    BY <1>2 DEF Handlers
  <2>2. CASE Publish(f) \/ Reenrich(f)
    BY <2>2, RefinePublish DEF Publish, Reenrich, dbVars
  <2>3. CASE ~(Publish(f) \/ Reenrich(f))
    BY <1>1, <2>1, <2>3 DEF Commit, PublishFails, ReenrichInline, Delete, streamVars
  <2>. QED  BY <2>2, <2>3
<1>3. CASE Sweeping
  BY <1>1, <1>3 DEF Sweeping, SweepStart, SweepQuery, SweepQueryFails, SweepOne, streamVars
<1>4. ASSUME NEW w \in Workers, Worker(w)
      PROVE  [Contract!Next]_<<StatusMap, SettledSet>>
  <2>1. CASE ListenRead(w) \/ ListenReplyLost(w)
    <3>1. PICK T \in SUBSET Undelivered : IsBatch(T, Undelivered) /\ Deliver(w, T)
      BY <2>1 DEF ListenRead, ListenReplyLost
    <3>. QED  BY <2>1, <3>1, RefineClaim DEF ListenRead, ListenReplyLost, dbVars
  <2>2. CASE Ack(w)
    BY <2>2, RefineAck
  <2>3. CASE RecoverRead(w) \/ RecoverEnds(w) \/ Load(w) \/ Score(w)
    BY <1>1, <2>3 DEF RecoverRead, RecoverEnds, Load, Score, streamVars
  <2>. QED  BY <1>4, <2>1, <2>2, <2>3 DEF Worker
<1>5. CASE Process
  <2>1. CASE Evict
    BY <2>1, RefineEvict
  <2>2. CASE Start
    BY <1>1, <2>2 DEF Start, CreateGroup, NoGroupNoCursor
  <2>3. CASE StartWithoutWorkers \/ Stop
    BY <1>1, <2>3 DEF StartWithoutWorkers, Stop, streamVars
  <2>. QED  BY <1>5, <2>1, <2>2, <2>3 DEF Process
<1>6. CASE UNCHANGED vars
  BY <1>1, <1>6 DEF vars, streamVars
<1>. QED  BY <1>2, <1>3, <1>4, <1>5, <1>6 DEF Next

(***************************************************************************)
(* At-least-once delivery: whatever workers, batches, crashes, lost        *)
(* replies and evictions do, each step of the pipeline is a step of        *)
(* DeliveryContract or changes neither the stage of an entry nor what is   *)
(* settled.                                                                *)
(***************************************************************************)
THEOREM PipelineImplementsContract == Spec => ImplementsContract
<1>1. Spec => []LogBounded
  <2>1. Init => LogBounded
    BY QueueAssumption DEF Init, LogBounded, QueueAssumption
  <2>2. TypeOK /\ LogBounded /\ [Next]_vars => LogBounded'
    BY LogBoundedStep
  <2>. QED  BY <2>1, <2>2, TypeCorrect, PTL DEF Spec
<1>2. Init => Contract!Init
  BY DEF Init, Contract!Init, Status, Entries
<1>3. IInv /\ LogBounded /\ [Next]_vars => [Contract!Next]_(Contract!vars)
  BY RefineStep DEF Contract!vars, StatusMap, SettledSet
<1>. QED  BY <1>1, <1>2, <1>3, Invariance, PTL DEF Spec, ImplementsContract, Contract!Spec
============================================================================
