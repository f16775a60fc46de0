----------------------------- MODULE ScanImport -----------------------------
(***************************************************************************)
(* How reports become findings.  handleCreateScan (internal/api/scans.go)  *)
(* upserts a whole report in one transaction and keeps the lock of every   *)
(* row it has written until it ends; handleImport (internal/api/import.go) *)
(* upserts each finding in a statement of its own and adds an event.  Both *)
(* meet on the UNIQUE fingerprint of table findings, with each other and   *)
(* with handleDeleteFinding.  Both publish to the enrichment stream when   *)
(* they are done (what happens then is in EnrichmentQueue).                *)
(***************************************************************************)
EXTENDS Integers, Sequences, FiniteSets

CONSTANTS
    Fingerprints,
    Projects,
    Scans,      \* requests to POST /scans; each is served once
    Imports,    \* requests to POST /import
    Reports,    \* the reports a scanner may upload: sequences of fingerprints
    None,
    MaxFaults,  \* bound: how many statements fail, connections break, clients leave
    MaxDeletes  \* bound: how many findings an administrator deletes

Requests == Scans \union Imports

\* The uuid the handler makes for an entry: the request and the position.
Ids  == Requests \X (Nat \ {0})
Rows == [id : Ids, project : Projects, times : Nat \ {0}]
ScanRows == [status : {"completed", "failed"}, imported : Nat, updated : Nat]

ASSUME ImportAssumption ==
    /\ Scans \intersect Imports = {}
    /\ Reports \subseteq Seq(Fingerprints)
    /\ None \notin Requests \union Ids \union Rows \union ScanRows
    /\ MaxFaults \in Nat
    /\ MaxDeletes \in Nat

VARIABLES
    table,     \* table[fp]: the committed row of findings with fingerprint fp
    draft,     \* draft[s]: the rows scan s has written and not committed
    lock,      \* lock[fp]: the transaction that holds the row, or its index entry
    links,     \* finding_scan_links
    scans,     \* scans[s]: the committed row of table scans
    events,    \* finding_events
    published, \* the finding ids given to PublishEnrichment (history)
    pc,
    job,       \* job[r]: the project and the report of request r
    got,       \* got[r]: id and isNew of the entries of the report already upserted
    faults, deletes

dbVars == <<table, draft, lock, links, scans, events>>
vars   == <<dbVars, published, pc, job, got, faults, deletes>>

TypeOK ==
    /\ table \in [Fingerprints -> Rows \union {None}]
    /\ draft \in [Scans -> [Fingerprints -> Rows \union {None}]]
    /\ lock \in [Fingerprints -> Scans \union {None}]
    /\ links \subseteq [id : Ids, scan : Scans, new : BOOLEAN]
    /\ scans \in [Scans -> ScanRows \union {None}]
    /\ events \subseteq Ids \X {"created", "seen_again"}
    /\ published \subseteq Ids
    /\ pc \in [Requests -> {"idle", "upsert", "event", "publish", "fail", "done", "failed"}]
    /\ job \in [Requests -> [project : Projects, report : Reports]]
    /\ got \in [Requests -> Seq([id : Ids \union {None}, new : BOOLEAN])]
    /\ faults \in 0..MaxFaults
    /\ deletes \in 0..MaxDeletes

Init ==
    /\ table = [fp \in Fingerprints |-> None]
    /\ draft = [s \in Scans |-> [fp \in Fingerprints |-> None]]
    /\ lock = [fp \in Fingerprints |-> None]
    /\ links = {}
    /\ scans = [s \in Scans |-> None]
    /\ events = {}
    /\ published = {}
    /\ pc = [r \in Requests |-> IF r \in Scans THEN "idle" ELSE "upsert"]
    /\ job \in [Requests -> [project : Projects, report : Reports]]
    /\ got = [r \in Requests |-> <<>>]
    /\ faults = 0
    /\ deletes = 0

Goto(r, step) == pc' = [pc EXCEPT ![r] = step]

Fault == faults < MaxFaults /\ faults' = faults + 1

-----------------------------------------------------------------------------
(* INSERT ... ON CONFLICT (fingerprint) DO UPDATE *)

Todo(r)  == Len(got[r]) < Len(job[r].report)
Entry(r) == job[r].report[Len(got[r]) + 1]
NewId(r) == <<r, Len(got[r]) + 1>>

\* The row after the upsert of the next entry of r, over the one it finds.
Upserted(r, row) ==
    IF row = None
    THEN [id |-> NewId(r), project |-> job[r].project, times |-> 1]
    ELSE [row EXCEPT !.times = @ + 1]

\* Mutant: xmax = 0 also for a row that this request has itself inserted before.
ReturnedNewAgain(r, row) ==
    [id |-> Upserted(r, row).id, new |-> Upserted(r, row).id[1] = r]

\* RETURNING id, (xmax = 0).
Returned(r, row) == [id |-> Upserted(r, row).id, new |-> row = None]

-----------------------------------------------------------------------------
(* handleCreateScan *)

\* Begin, the INSERT of the scan and DetectAndParse: the report can be read ...
BeginScan(s) ==
    /\ pc[s] = "idle"
    /\ Goto(s, "upsert")
    /\ UNCHANGED <<dbVars, published, job, got, faults, deletes>>

\* ... or not: nothing has been written that another transaction waits for.
ParseFails(s) ==
    /\ pc[s] = "idle"
    /\ Goto(s, "fail")
    /\ UNCHANGED <<dbVars, published, job, got, faults, deletes>>

ReleasedBy(s) == [fp \in Fingerprints |-> IF lock[fp] = s THEN None ELSE lock[fp]]

\* Mutant: an error path returns without Rollback.
RollbackForgotten(s) == Goto(s, "fail") /\ UNCHANGED <<draft, lock>>

Rollback(s) ==
    /\ draft' = [draft EXCEPT ![s] = [fp \in Fingerprints |-> None]]
    /\ lock' = ReleasedBy(s)
    /\ Goto(s, "fail")

\* Mutant: the upsert runs on the pool (Create) and not in the transaction.
UpsertOutsideTx(s) ==
    /\ pc[s] = "upsert"
    /\ Todo(s)
    /\ lock[Entry(s)] = None
    /\ table' = [table EXCEPT ![Entry(s)] = Upserted(s, @)]
    /\ got' = [got EXCEPT ![s] = Append(@, Returned(s, table[Entry(s)]))]
    /\ UNCHANGED <<draft, lock, links, scans, events, published, pc, job, faults, deletes>>

\* Mutant: a SELECT before the INSERT or UPDATE, and no wait for the row.
UpsertUnlocked(s) ==
    /\ pc[s] = "upsert"
    /\ Todo(s)
    /\ LET fp  == Entry(s)
           row == IF draft[s][fp] # None THEN draft[s][fp] ELSE table[fp]
       IN  /\ lock' = [lock EXCEPT ![fp] = s]
           /\ draft' = [draft EXCEPT ![s][fp] = Upserted(s, row)]
           /\ got' = [got EXCEPT ![s] = Append(@, Returned(s, row))]
    /\ UNCHANGED <<table, links, scans, events, published, pc, job, faults, deletes>>

\* CreateTx and LinkFinding of one entry.  The upsert waits for a transaction
\* that has written the row or is inserting the same fingerprint, and then
\* works on what that one committed.
Upsert(s) ==
    /\ pc[s] = "upsert"
    /\ Todo(s)
    /\ LET fp  == Entry(s)
           row == IF draft[s][fp] # None THEN draft[s][fp] ELSE table[fp]
       IN  /\ lock[fp] \in {None, s}
           /\ lock' = [lock EXCEPT ![fp] = s]
           /\ draft' = [draft EXCEPT ![s][fp] = Upserted(s, row)]
           /\ got' = [got EXCEPT ![s] = Append(@, Returned(s, row))]
    /\ UNCHANGED <<table, links, scans, events, published, pc, job, faults, deletes>>

\* Scan s waits for a row that scan t has written.
WaitsFor(s, t) == pc[s] = "upsert" /\ Todo(s) /\ lock[Entry(s)] = t /\ t # s

\* PostgreSQL finds s on a cycle of waiting transactions and aborts it.
DeadlockDetected(s) ==
    /\ \E C \in SUBSET Scans :
          s \in C /\ \A t \in C : /\ \E u \in C : WaitsFor(t, u)
                                  /\ \E u \in C : WaitsFor(u, t)
    /\ Rollback(s)
    /\ UNCHANGED <<table, links, scans, events, published, job, got, faults, deletes>>

\* A statement or the COMMIT fails; the handler rolls back.
StatementFails(s) ==
    /\ pc[s] = "upsert"
    /\ Fault
    /\ Rollback(s)
    /\ UNCHANGED <<table, links, scans, events, published, job, got, deletes>>

\* Mutant: LinkFinding updates the link that is there.
LinksOfLast(s) ==
    {[id |-> got[s][i].id, scan |-> s, new |-> got[s][i].new] :
        i \in {i \in DOMAIN got[s] :
                  \A j \in DOMAIN got[s] : j > i => got[s][j].id # got[s][i].id}}

\* LinkFinding keeps the first link of a finding (ON CONFLICT DO NOTHING).
LinksOf(s) ==
    {[id |-> got[s][i].id, scan |-> s, new |-> got[s][i].new] :
        i \in {i \in DOMAIN got[s] :
                  \A j \in DOMAIN got[s] : j < i => got[s][j].id # got[s][i].id}}

CountNew(r, b) == Cardinality({i \in DOMAIN got[r] : got[r][i].new = b})

\* Everything the transaction has written becomes visible.
Committed(s) ==
    /\ table' = [fp \in Fingerprints |-> IF draft[s][fp] # None THEN draft[s][fp] ELSE table[fp]]
    /\ draft' = [draft EXCEPT ![s] = [fp \in Fingerprints |-> None]]
    /\ lock' = ReleasedBy(s)
    /\ links' = links \union LinksOf(s)
    /\ scans' = [scans EXCEPT ![s] = [status |-> "completed", imported |-> CountNew(s, TRUE),
                                      updated |-> CountNew(s, FALSE)]]

\* Complete and Commit.
Commit(s) ==
    /\ pc[s] = "upsert"
    /\ ~Todo(s)
    /\ Committed(s)
    /\ Goto(s, "publish")
    /\ UNCHANGED <<events, published, job, got, faults, deletes>>

\* The database commits and the connection breaks before it says so.
CommitUnacknowledged(s) ==
    /\ pc[s] = "upsert"
    /\ ~Todo(s)
    /\ Fault
    /\ Committed(s)
    /\ Goto(s, "fail")
    /\ UNCHANGED <<events, published, job, got, deletes>>

\* Fail, on the pool: it finds the row of the scan only if that was committed.
Fail(s) ==
    /\ pc[s] = "fail"
    /\ scans' = [scans EXCEPT ![s] =
          IF @ = None THEN None ELSE [status |-> "failed", imported |-> 0, updated |-> 0]]
    /\ Goto(s, "failed")
    /\ UNCHANGED <<table, draft, lock, links, events, published, job, got, faults, deletes>>

-----------------------------------------------------------------------------
(* handleImport *)

\* Create: a transaction of one statement.
ImportUpsert(r) ==
    /\ pc[r] = "upsert"
    /\ Todo(r)
    /\ lock[Entry(r)] = None
    /\ table' = [table EXCEPT ![Entry(r)] = Upserted(r, @)]
    /\ got' = [got EXCEPT ![r] = Append(@, Returned(r, table[Entry(r)]))]
    /\ Goto(r, "event")
    /\ UNCHANGED <<draft, lock, links, scans, events, published, job, faults, deletes>>

\* An entry that is refused or whose upsert fails is passed over.
ImportSkip(r) ==
    /\ pc[r] = "upsert"
    /\ Todo(r)
    /\ Fault
    /\ got' = [got EXCEPT ![r] = Append(@, [id |-> None, new |-> FALSE])]
    /\ UNCHANGED <<dbVars, published, pc, job, deletes>>

Exists(id) == \E fp \in Fingerprints : table[fp] # None /\ table[fp].id = id

\* The created or seen_again event of the entry just upserted.  A unique index
\* keeps one seen_again a day (a run of the model lasts no longer); the event of
\* a finding deleted meanwhile is refused by its foreign key.  Errors are only
\* logged.
ImportEvent(r) ==
    /\ pc[r] = "event"
    /\ LET e == got[r][Len(got[r])]
       IN  events' = IF Exists(e.id)
                     THEN events \union {<<e.id, IF e.new THEN "created" ELSE "seen_again">>}
                     ELSE events
    /\ Goto(r, "upsert")
    /\ UNCHANGED <<table, draft, lock, links, scans, published, job, got, faults, deletes>>

-----------------------------------------------------------------------------
(* Both, and their surroundings *)

\* A scan publishes every finding it has seen, an import those it has created.
Outbox(r) == {got[r][i].id : i \in {i \in DOMAIN got[r] : r \in Scans \/ got[r][i].new}}

Publish(r) ==
    /\ pc[r] = "publish" \/ (r \in Imports /\ pc[r] = "upsert" /\ ~Todo(r))
    /\ published' = published \union Outbox(r)
    /\ Goto(r, "done")
    /\ UNCHANGED <<dbVars, job, got, faults, deletes>>

\* The client leaves, Redis fails or the process stops: what request r still had
\* to do is not done.  PostgreSQL rolls an open transaction back.
Die(r) ==
    /\ pc[r] \notin {"idle", "done", "failed"}
    /\ Fault
    /\ lock' = ReleasedBy(r)
    /\ draft' = [s \in Scans |-> IF s = r THEN [fp \in Fingerprints |-> None] ELSE draft[s]]
    /\ Goto(r, "failed")
    /\ UNCHANGED <<table, links, scans, events, published, job, got, deletes>>

\* handleDeleteFinding: the DELETE waits for the row and cascades to its links
\* and events.
DeleteFinding(fp) ==
    /\ deletes < MaxDeletes
    /\ table[fp] # None
    /\ lock[fp] = None
    /\ deletes' = deletes + 1
    /\ table' = [table EXCEPT ![fp] = None]
    /\ links' = {l \in links : l.id # table[fp].id}
    /\ events' = {e \in events : e[1] # table[fp].id}
    /\ UNCHANGED <<draft, lock, scans, published, pc, job, got, faults>>

ScanStep(s) ==
    \/ Upsert(s) \/ DeadlockDetected(s) \/ Commit(s) \/ Fail(s)
ImportStep(r) == ImportUpsert(r) \/ ImportEvent(r)

Next ==
    \/ \E s \in Scans :
          \/ BeginScan(s) \/ ParseFails(s) \/ ScanStep(s) \/ StatementFails(s) \/ CommitUnacknowledged(s)
    \/ \E r \in Imports : ImportStep(r) \/ ImportSkip(r)
    \/ \E r \in Requests : Publish(r) \/ Die(r)
    \/ \E fp \in Fingerprints : DeleteFinding(fp)

Spec == Init /\ [][Next]_vars

\* A goroutine that can go on does; PostgreSQL grants a lock that is free and
\* breaks a deadlock.
Fairness ==
    /\ \A s \in Scans : WF_vars(ScanStep(s) \/ Publish(s))
    /\ \A r \in Imports : WF_vars(ImportStep(r) \/ Publish(r))

FairSpec == Spec /\ Fairness

-----------------------------------------------------------------------------
(* Properties *)

\* The entries whose upsert was committed: those of the imports and those of the
\* scans that have a row in table scans.
Sightings ==
    UNION {{r} \X DOMAIN got[r] : r \in {r \in Requests : r \in Scans => scans[r] # None}}

SightingsOf(id) == {x \in Sightings : got[x[1]][x[2]].id = id}

Stored == {table[fp].id : fp \in {fp \in Fingerprints : table[fp] # None}}

\* times_seen (README.md:40): a finding counts each committed sighting once,
\* those of a request that was rolled back never, whatever ran in parallel.
TimesSeenCounts ==
    \A fp \in Fingerprints :
        table[fp] # None => table[fp].times = Cardinality(SightingsOf(table[fp].id))

\* Of all the requests that have seen a finding exactly one calls it new, and
\* once: imported and updated, which CI reports and dashboards show, add up.
NewExactlyOnce ==
    \A id \in Stored : Cardinality({x \in SightingsOf(id) : got[x[1]][x[2]].new}) = 1

\* "findings+links are atomic" (scans.go:179): a completed scan is linked to every
\* finding of its report that still exists, once, as new exactly if it created
\* it; and there is no link without a committed scan and a finding.
ScanIsWhole ==
    /\ \A s \in Scans : scans[s] # None =>
          \A i \in DOMAIN got[s] : got[s][i].id \in Stored =>
              {l \in links : l.scan = s /\ l.id = got[s][i].id}
                  = {[id |-> got[s][i].id, scan |-> s, new |-> got[s][i].id[1] = s]}
    /\ \A l \in links : scans[l.scan] # None /\ l.id \in Stored

\* handleCreateScan is one transaction: scans that write their rows one by one,
\* wait for each other's, overtake imports and deletions and are rolled back or
\* cut off, have the effect of scans imported one after the other, each with its
\* whole report at once (SerialImports).
Serial == INSTANCE SerialImports WITH findings <- table
ImplementsSerial == Serial!Spec

\* A request that has started ends: two scans that lock the same findings in a
\* different order do not wait for each other for ever, and no error path leaves
\* a row locked.
EveryRequestEnds ==
    \A r \in Requests : pc[r] # "idle" ~> pc[r] \in {"done", "failed"}

\* docs/import-formats.md:359: a finding is not created again when its
\* fingerprint is known "in the project".  So once a report is imported into a
\* project, that project has a finding of each of its fingerprints.
FoundInItsProject ==
    \A s \in Scans : pc[s] = "done" =>
        \A i \in DOMAIN job[s].report :
            \E fp \in Fingerprints :
                fp = job[s].report[i] /\ table[fp] # None /\ table[fp].project = job[s].project
=============================================================================
