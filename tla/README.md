# RedLycoris: specification, model checking and proofs

This directory holds TLA+ specifications of the concurrent and fault-tolerant
parts of RedLycoris, the configurations that check them with TLC, and theorems
checked by TLAPS. Paths are relative to `src/backend/` unless they start with
`docs/` or `README.md` (the repository's).

## 1. The system

RedLycoris collects findings of security scanners. One Go process serves the
HTTP API, enriches findings in the background and mirrors public vulnerability
catalogues. PostgreSQL holds everything that lasts, Redis holds a stream of
findings to enrich, a cache and login counters. Docker restarts the process
when it stops (`restart: unless-stopped`).

| Component | State | Operations | What is hard | What makes it correct |
|---|---|---|---|---|
| Enrichment queue (`internal/enrichment/worker.go`, `enrich.go`, `internal/api/enrichment.go`) | stream `enrichment:pending`, group cursor and pending lists in Redis; `finding_scores` | publish, read, recover, enrich, acknowledge, enrich-all | crash between any two steps, lost replies, redelivery, deleted rows, eviction | acknowledged only when enriched, published only when committed, nothing lost, everything delivered |
| Catalogue synchronisation (`scheduler.go`, `pipeline.go`, `nvd/sync.go`, six more sources) | `sync_status`, catalogue tables, the running map | tick, manual trigger, pages, windows, checkpoints | the catalogue changes while it is read; failure and restart at any page | one run at a time, nothing before the watermark is missing, all is loaded in the end |
| Triage (`internal/api/triage.go`, `domain/triage_action.go`, `storage/findings_repo.go`, `closure_reasons_repo.go`) | triage columns of `findings`, `finding_events`, cached closure reasons | set, close, reopen, assign, unassign, in bulk | two users on one finding, a stale read before the lock, a first load that fails, the pool | history and row agree, reason and status agree, every request ends |
| Scans and imports (`internal/api/scans.go`, `import.go`, `storage/scans_repo.go`, `findings_repo.go`) | `findings`, `scans`, `finding_scan_links`, `finding_events` | upload a report | overlapping reports, deadlocks, failures in the middle, an unacknowledged commit | counters and new marks are exact, a scan is whole or absent |
| Users and sessions (`internal/api/admin_*.go`, `auth.go`, `internal/auth`, triggers of migration 028) | `users`, `user_roles`, `sessions` | create, change role, activate, deactivate, delete, reset, in bulk; log in and out, change the password | check-then-act without a transaction, a statement of several that fails, sessions in use | an administrator and the system account remain, flag and role agree, old sessions end |
| Projects and members (`internal/api/projects.go`, `project_members.go`, their repositories) | `projects`, `user_project_roles` | create, update, pin, delete; add, regrade, remove a member; pages of the list | an update writes the row it has read before; the last administrator is checked before the write | no edit is lost, an administrator remains, source and repository agree |
| Audit log (`internal/audit/writer.go`, `internal/api/audit_middleware.go`, `admin_audit.go`) | `audit_log`, an in-memory queue, the cursors of two readers | submit, write, close; stream, export | full queue, close while submitting, readers of a growing log with records out of order | the queue is drained, readers miss nothing |
| Login rate limit (`internal/api/ratelimit.go`) | Redis counters | count an attempt, set the expiry, reset | commands that fail or whose answer is lost | five attempts in a quarter of an hour, then again |
| Listing and export (`storage/findings_repo.go`, `internal/api/findings.go`, `export*.go`, `internal/export`) | cursors, counters of slots in Redis | page, facet, group, bulk action on a group, export in four formats | every page is a query of its own; slots under errors and expiry | every finding once, counts true, exports limited |
| Other catalogues (`enrichment/kev`, `cwe`, `bdu`, `osv`, `epss`, `cpe`) | their tables and rows of `sync_status` | download, parse, store in batches, page | failures between batches, duplicates, late files, pages that shift | what `sync_status` says is true of the tables |
| Fingerprints, scoring, classification, parsers (`internal/domain`, `internal/parser`) | none | pure functions | boundaries, collisions | agree with their definition |
| Dashboard, comments, saved views, tokens, observability, frontend, tools | rows of their own tables | queries and single statements | | the queries |

How they meet: scans, imports and the manual endpoint publish finding ids on
the stream after the rows are committed; workers read them and write scores;
deletion cascades to scores, links and events; synchronisation fills the
tables enrichment reads; triage, scans and deletion meet on the row locks of
`findings`, and readers page through them meanwhile; every request passes the
middlewares that judge its session and leaves a record for the audit log;
everything shares the connection pool.

The hazards of each component, with the line where each bites and the property
that covers it, are listed in `PROJECT.json`.

## 2. The modules

| Module | Models | Composes or extends |
|---|---|---|
| `EnrichmentQueue` | publication, consumer group, workers, enrich-all, process and Redis failures | `DeliveryContract` through a refinement mapping |
| `DeliveryContract` | at-least-once delivery, the abstract promise of the stream | |
| `EnrichmentQueueProofs` | theorems about `EnrichmentQueue` | `EnrichmentQueue` |
| `NvdSync` | scheduler exclusion, `RunSync`, NVD full and incremental loads | |
| `NvdSyncProofs` | theorems about `NvdSync` | `NvdSync` |
| `FindingTriage` | triage transactions, closure reasons, connection pool | `TriageHistory` through a refinement mapping |
| `TriageHistory` | an append-only history that tells the truth, the abstract promise of triage | |
| `FindingTriageProofs` | theorems about `FindingTriage` | `FindingTriage` |
| `ScanImport` | reports to findings: transactions, locks, links, events | `SerialImports` through a refinement mapping |
| `SerialImports` | scans imported one after the other, each at once, the abstract promise of imports | |
| `ScanImportProofs` | theorems about `ScanImport` | `ScanImport` |
| `Access` | users, roles, sessions, logins, statement by statement | |
| `Projects` | a project, its members and the requests on them | |
| `AccessProofs` | theorems about `Access` | `Access` |
| `ProjectsProofs` | theorems about `Projects` | `Projects` |
| `AuditTrail` | records, the queue and goroutine that write them, shutdown, event stream, export of the log | |
| `LoginRateLimit` | the counter of an address, command by command | |
| `ExportSlots` | the slots and the window of a user's exports, command by command | |
| `Catalogues` | loads of KEV, CWE, BDU and OSV | |
| `EpssScores` | mirrors, dates and the two tables of EPSS | |
| `CpeDictionary` | pages and windows of the CPE dictionary | |
| `Listing` | filters, keyset pages, exports, facets, groups of findings | |
| `ProjectList` | keyset pages of the projects | |
| `ServicesProofs` | theorems about `LoginRateLimit`, `EpssScores`, `ExportSlots`, `CpeDictionary`, `Catalogues` | these five |
| `PagesProofs` | theorems about `AuditTrail`, `Listing`, `ProjectList` | these three |
| `MCAccess` | values of the constants for TLC | `Access`, `Projects` |
| `MCServices` | values of the constants for TLC | `AuditTrail` to `ProjectList` |
| other `MC*` | values of the constants for TLC | the module of the same name |

### EnrichmentQueue

`log` is the history of every XADD, so an entry is a position in it; `kept`,
`group`, `last` and `pel` are what Redis keeps; `db` is the row and score of
each finding; `outbox` holds findings whose handler has committed and has not
published yet. A worker is the pair `mode` (in `processPending` or in the main
loop) and `pc`, with the rest of its batch in `todo`. One action is one command
of Redis or one statement that other processes can see:

| Action | Code |
|---|---|
| `Commit`, `Publish`, `PublishFails` | `handleCreateScan`, `handleImport`: COMMIT, then `PublishEnrichment` |
| `Reenrich`, `ReenrichInline` | `handleEnrichFinding` and its synchronous fallback |
| `SweepStart` .. `SweepOne` | the goroutine of `handleEnrichAll`, `EnrichBatch` |
| `ListenRead`, `ListenReplyLost` | XREADGROUP `>` in `Worker.run` |
| `RecoverRead`, `RecoverEnds` | `processPending` |
| `Load`, `Score`, `Ack` | `processMessage`: `EnrichFinding` from the SELECT to the score upsert, XACK |
| `Start`, `StartWithoutWorkers`, `Stop`, `Evict` | `StartWorkers`, its early return, a crash or shutdown, allkeys-lru |

What `EnrichFinding` reads from the catalogues and writes to
`finding_enrichments` between its first and its last statement does not decide
whether it succeeds (errors there are logged), and is left out. Ids are
published one by one; the pipelined XADDs of one call may be cut anywhere,
which is the same. `handleEnrichFinding` does not look its finding up, and a
global administrator passes the middleware without a lookup, so `Reenrich`
publishes any id; `blind` remembers the entries whose id named no row when they
were published. They are what a message of a deleted finding is: `Dead`, never
acknowledged. Group creation is part of `Start`, which runs before the
server serves.

### NvdSync

Time counts the modifications of the catalogue (`clock`), and every instant in
the code (watermark, window ends) is such a count. `job` is the local state of
a run. `Begin` stands for the write of `RunSync` and for the second one of
`markSyncRunning`, which sets the same columns. A page is fetched and committed
in one step: `upsertBatch` is one transaction, and what happens upstream while
it runs is indistinguishable from a change after the fetch. Retries of one
request (`fetchPage`) are inside that step. Assumed of NVD, which is outside
the repository: results are listed in the order of publication, a page has
`resultsPerPage` records except the last one, and that field of the answer is
the number of its records.

### FindingTriage

A request is a goroutine (`pc`) with the action it serves and the row it has
read (`req`). `lock` is the row lock of SELECT FOR UPDATE, `once` and
`snapshot` are the fields of `ClosureReasonsRepo`, and the number of open
transactions against `MaxConns` is the pool. UPDATE, event and COMMIT under the
row lock are one step, because nothing else can see the row in between. The
action `update` is `handleUpdateStatus` with status open, which first reads the
row without a lock to choose between a change and a reopening. Three closure
reasons, one for each closed status, stand for the five of migration 008.

`TriageHistory` is what a reader of `finding_events` relies on, with no request,
lock or pool in it: one event of one finding at a time, appended together with
its effect, and true of the state it was applied to. Its `state` is `row`, its
`history` is `events`; every step but a COMMIT is a stutter.

### ScanImport

`draft[s]` are the uncommitted rows of scan `s`, which it alone sees, and
`lock` the rows, or the unique index entries, that make others wait. `got[r]`
is what the upserts of request `r` have returned. An import commits each upsert
by itself. `DeadlockDetected` is PostgreSQL's: it aborts a transaction that is
on a cycle of waiting ones. `Die` is a client that leaves, a command that
fails in the publication, or a process that stops.

`SerialImports` has no locks, drafts or partial reports: a scan imports its
whole report in one step, judging by the findings there are at that instant
what is new, and an import one entry. Its `findings` is `table`; a COMMIT is the
import of a report, also one whose acknowledgement is lost (`Disown` is the
failure recorded afterwards), and every step before it a stutter.

### Access

`user[u]` joins the row of `users`, its credentials and its rows of
`user_roles`; triggers are part of the statement that fires them. No handler
uses a transaction, so `call[c]` is a request with the next statement it will
execute:

| Action | Code |
|---|---|
| `CallAdmin`, `CallOwn`, `CallLogin` | the middlewares judge session and role once; what a handler asks for comes with it |
| `Fetch`, `Count`, `Write` | `GetByID` and the guards of `canModifyUser`, the count of active administrators, `UsersRepo.Update` |
| `Must`, `Revoke` | `SetMustChangePassword`, `RevokeAllForUser` or `Revoke` |
| `CheckEmail`, `Insert`, `AssignRole`, `UnassignRoles` | `handleAdminCreateUser` and `AssignUserRole` |
| `Open` | the INSERT of a session after the password of `Fetch` |
| `Fail` | a statement fails: 500, what is written remains; a bulk request goes on |

`epoch` and `temp` of a row, `late` of a session and `past` are history
variables: writes that call for the end of all sessions, a password that an
administrator chose, a login that had read the row before such a write, and
which promises have been voided. They make exceptions in the properties
precise: two removals that overlapped (`overlapped`), a request cut short
between two statements (`cut`), a reset that met the user's own change of
password (`crossed`).

### Projects

A request moves from `Authorize` (the middleware that reads the role) to its
read and its write. `Update` writes the row that `Read` returned with the
request's columns over it (`StoredRow`), which is what
`ProjectsRepo.Update` does, `pinned` apart. `AppliedSource` is
`applyProjectSource` together with the older `repo_url` of the same request.
Members go through `FindMember`, `CountAdmins` and `StoreMember`. The column of
the role is any smallint: `lower` are the roles below `project_admin` (2),
`higher` those above, which the handlers of members accept and store, the
middleware takes for an administrator's, and the guard for the last
administrator neither recognises nor counts. `wanted`, `writes` and `excuse` are
history: the values last asked for, whether two edits overlapped, and whether
the last administrator was taken while another request changed one, or by a
request that nothing guards.

### AuditTrail

Records are numbered by `created_at`, which `AuditMiddleware` takes before it
calls `Submit`. `record[n]` tells where record n is; `Admit` and `Send` are the
two halves of `Submit` around the unlock. A full channel hands the record to a
goroutine (`handed`). `Signal`, `CloseWriter`, `WriterClosed` and `Exit` are the
order of shutdown in `main.go`, and `rushed` remembers that a deadline passed.
The stream keeps the last event sent as cursor and continues from it after a
break; the export pages downwards and reads one row more than a page. `late`
remembers records inserted behind the cursor of the stream.

### LoginRateLimit and ExportSlots

Each Redis command is a step that may fail; INCR and the later EXPIRE are two
commands. `IncrementFails` also covers an INCR that counted and whose answer
was lost; `unset` remembers a window whose expiry was never set. In
`ExportSlots` a request goes through `TakeSlot`, `StartWindow`, `prepareExport`
and the stream to `ReleaseSlot`; `Html` are the requests of the handler that
defers the release before `prepareExport`. `leaked` counts slots kept by
requests that ended without releasing, and `drifted` remembers that the counter
lost count (an expiry under a running export, a lost INCR).

### Catalogues, EpssScores and CpeDictionary

A catalogue is a table of bodies under identifiers; an archive is a sequence of
entries, of which body 0 is one that the parser drops; what a parser keeps is a
set of places of the archive, read in order (`Kept`). KEV and CWE are parsed
as a whole and stored in one transaction; BDU and OSV gather batches
(`ParseVul`, `ParseAdvisory`) and store each in a transaction (`Upsert`), which
refuses an identifier twice, as ON CONFLICT DO UPDATE does (`Refused`; a row
that OSV's statement leaves alone may come again). A transaction is stored,
fails, or takes effect with the answer to its COMMIT lost, which the load takes
for a failure (`lost`). OSV does this for each ecosystem and goes on after one
that failed. `hurt` remembers a fault from outside. `EpssScores` asks all dates of one mirror before the next one
(`Candidates`) and writes score and history together. `CpeDictionary` is the
paged load with the total of its first page; `sound` is the start of the last
load that left no gap.

### Listing and ProjectList

`BaseWhere` is `buildBaseWhere` with the dimension that a facet leaves out;
`Rows` is the query of a page, ordered by the column asked for and cut by the
cursor, which is `(first_seen, id)` for every order. A page is one step, and
findings come, change and go between two of them. The exports count while they
read (`Tallied`), and the total is counted before. For a user of no project
`Parsed` keeps what `parseFindingsFilter` has read by then, the project asked
for, and no other condition. A new finding may be older than those present:
`first_seen` is taken before the transaction of the scan. Group keys are put
together by one query (`GroupKeys`) and taken apart by another (`InGroup`);
names and rules are sequences of words, so that an `@` in a version, or the dash
between blanks that a rule's key has between id and name (`RuleKey`), may also be
part of a name. `GroupIds` is what a bulk action takes, which is refused for an
empty key and beyond `BulkLimit`.

`ProjectList` has the cursor `(pinned, id)` under any order, and what the list
is ordered by changes between two pages (`Reorder`): findings, scans and edits
of a project. `apart` remembers that a page was read in an order that is not the
cursor's.

## 3. Runs

| Run | Instance | What it shows |
|---|---|---|
| `enrichment_safety` | 2 findings, 2 workers, 2 entries, batch 2, 1 fault, 1 stop | `AckedEnriched`, `PublishedIsCommitted`, `NothingLost` and `ImplementsContract`: the pipeline implements `DeliveryContract` |
| `enrichment_liveness` | 2 findings, 1 worker, 2 entries, batch 1, 1 fault, 1 stop | `EventuallyDelivered`, `RecoveryRetries`, `SweepClearsBacklog` |
| `enrichment_retry` | 1 finding, 1 fault, no stop | violation of `FailedMessageRetried` |
| `enrichment_orphans` | 1 finding, 1 fault, no stop | violation of `OrphansSwept` |
| `nvd_sync` | 3 CVEs, pages of 1, windows of 2, 4 instants, 2 callers, 1 fault, 1 stop | `OneRunAtATime`, `NothingSkipped`, `WatermarkNeverRetreats`, `CatchesUp` |
| `nvd_bootstrap` | 2 CVEs, a new installation, 1 fault | violation of `IncrementalAfterSuccess` |
| `triage` | 1 finding, 2 goroutines, 3 actions, 2 connections, 1 fault | `HistoryReplays`, `ReasonFitsStatus`, `EveryRequestEnds`, and `ImplementsHistory`: triage implements `TriageHistory` |
| `triage_reasons` | the same with 3 connections | violation of `ReasonsGetReady` |
| `scan_import` | 2 scans, 1 import, 2 fingerprints, a report that repeats one and another in the opposite order, 1 fault, 1 deletion | `TimesSeenCounts`, `NewExactlyOnce`, `ScanIsWhole`, `EveryRequestEnds`, and `ImplementsSerial`: scans are serialisable, they implement `SerialImports` |
| `scan_projects` | 2 scans of one report in 2 projects | violation of `FoundInItsProject` |
| `access` | 3 users (two administrators, one of them perhaps the system account, and a member, an auditor, an inactive user or none), 2 goroutines, 2 requests, 1 failing statement; 3 people and 2 requests on a project | `SomeoneAdministers`, `SystemAccountStays`, `AdminFlagIsRole`, `OldSessionsEnd`, `AdminPasswordIsTemporary`; `ProjectKeepsAdmin`, `NoEditIsLost`, `GitHasRepository` |
| `services` | eight services; see below | `QueueIsDrained`, `ReadersMissNothing`; `LockoutEnds`; `ExportsAreLimited`; `ResultIsTrue`; `ScoreIsInHistory`; `DictionaryFollows`; `PagesAreComplete`, `CountsAreTrue`, `GroupActsOnItsRows`; `BoardIsComplete` |

`access` and `services` hold modules that share no variable. A behaviour takes
the steps of one of them, chosen at first (`focus`), and the others stay at one
initial state: all states of each are reached, not their product.

Why the bounds are enough. Two workers and two entries give every order of
delivery, failure, restart and redelivery between competitors; a batch of two
leaves an entry held and not yet processed, and a batch of one makes a poison
message hide another. Three CVEs on pages of one shift under a load that is
half read, and windows of two over four instants need several windows and
checkpoints. Two goroutines suffice for every conflict on one row, and three
actions for one to come after a conflict. Two fingerprints locked in opposite
orders are the smallest deadlock, and the import is a third party that meets
both. One fault and one stop are enough to reach every error path; the theorems
of section 5 hold for any number of both. Deadlock is not checked in `triage`
`scan_import`, `access` and `services`, whose requests are bounded and end.

Two requests on three users are every pair of an administrator's action with
another, with a login or with a change of password, and one statement that
fails cuts each of them anywhere; a bulk request names two users, so that a
failure leaves its first one done. In `services`: three records on a channel of
one give a queued, a handed and a late one, pages of one and polls of two need
several of them; five attempts against a limit of two pass it, lose a command
and start again; three exports of two slots, one of them HTML, refuse one and
leak one; archives of up to three entries in batches of two have a full batch,
a rest, a duplicate within a batch and one across batches, an entry that is
dropped and an empty file, and two ecosystems share identifiers; two mirrors
and three days are the smallest case where yesterday's file of one hides
today's of the other; three products on pages of one shift between pages; five
findings, three of them seen at one instant on pages of two, put a tie across
a page; four projects on pages of two do so for the list of projects.

### What the violations say

Each states what a comment or a document of the repository says, and shows a
behaviour that contradicts it; details and quotations are in `PROJECT.json`.

- `enrichment_retry`: a message that fails stays pending "for retry", but the
  pending list is read only when a worker starts.
- `enrichment_orphans`: a finding whose publication failed is left to "the
  periodic handleEnrichAll", which nothing calls periodically.
- `nvd_bootstrap`: the first run's row already carries a watermark, so an
  interrupted first full load is followed by an incremental one, and the rest
  of the catalogue is never asked for. `NothingSkipped` and `CatchesUp` are
  therefore stated from the first complete full load on.
- `triage_reasons`: `sync.Once` is used up by a first load that fails; triage
  then fails until a restart.
- `scan_projects`: the fingerprint is unique over all projects, so a second
  project that uploads the same report gets no findings.

Two properties name a weakness in their statement rather than exclude it from
the model: `EventuallyDelivered` holds only while some worker is not caught in
`processPending` by a message of a deleted finding (`Poisoned`), and
`EveryRequestEnds` of `FindingTriage` only unless the first load of the closure
reasons finds the pool exhausted by transactions that wait for it
(`PoolExhausted`).

### What the properties of `access` and `services` except

These runs pass; their statements name what the code does not promise, and the
history variables keep the exception as small as it is:

- Two administrators can remove each other, and two requests can take the last
  administrator from a project: the count precedes the write
  (`SomeoneAdministers`, `ProjectKeepsAdmin`). `handleAddMember` lowers the
  last administrator without any check. So does `handleUpdateMember` in two
  requests, one after the other: a role above 2 passes its guard
  (`api/project_members.go:103`), which then does not protect the holder. The creation of a user counts as a
  removal too: between the two statements of `AssignUserRole` another
  administrator may make the new user an administrator, and the DELETE of its
  other roles takes that away again. The proof of `AnAdministratorRemains` found
  this case; small runs had not reached it.
- A login that has read the row before a deactivation opens a session after it
  (`OldSessionsEnd`), which the middleware refuses for as long as the user is
  inactive.
- Two edits of a project overlap and the later one writes back what the earlier
  one changed (`NoEditIsLost`).
- A record handed to a goroutine because the queue was full is lost at shutdown,
  and one that is inserted late is not sent on the stream (`QueueIsDrained`,
  `ReadersMissNothing`).
- An address stays locked out when the EXPIRE of its counter was lost
  (`LockoutEnds`).
- CSV, JSON and XLSX keep the slot when `prepareExport` fails or refuses
  (`api/export.go:384-402`); an export longer than the expiry of the counter
  releases a slot of another (`ExportsAreLimited`).
- An OSV run is a success although ecosystems failed, and an advisory of two
  ecosystems is found under the one loaded last; a CWE or BDU identifier that
  comes twice in a transaction fails the load, in KEV it does not; and when only
  the answer to COMMIT was lost, `sync_status` says error of a catalogue that has
  been replaced as a whole (`ResultIsTrue`).
- The CPE watermark is never found (`cpe/sync.go:106` reads a row that is
  `running` by then), so a load always asks for 24 hours: a gap of more than a
  day between loads is never made up for (`DictionaryFollows`), and an empty
  page ends a load as a success.
- Pages under any order but `first_seen` skip and repeat findings
  (`PagesAreComplete`); so do those of projects under an order that is not that
  of `(pinned, id)` when a page is read (`BoardIsComplete`).
- The total of an export is 0 for a user of no project, whose rows are not cut
  (`CountsAreTrue`).
- A bulk action on a group ignores the filter of the list, takes a rule's
  findings whatever their names, cuts a rule's key at the first dash between
  blanks, which may be in the id, and splits a component at its last `@`; it is
  refused for a group that is too large or whose key is empty
  (`GroupActsOnItsRows`).
- A message may name no row when it is published by `handleEnrichFinding`
  (`PublishedIsCommitted`, in `enrichment_safety`).

## 4. Fairness

- Goroutines that can take a step do (WF of `Worker`, of a handler's
  `Publish \/ PublishFails`, of the sweep, of `Step`, `Serve`, `ScanStep`,
  `ImportStep`): the Go scheduler runs every goroutine that is ready, and every
  wait in the code ends with its network timeout or its context.
- A stopped process is started again (WF of `Start`): docker's restart policy.
- The NVD ticker attempts a run again and again (SF of `Trigger`): it fires
  every two hours, and a run lasts at most four (`defaultRunTimeout`). Weak
  fairness would not do, because manual runs may come between.
- PostgreSQL grants a free lock and breaks a deadlock; this is within the
  fairness of the request that waits. In `FindingTriage` and `ScanImport`
  the bound on the requests keeps a stream of newcomers from starving one.
- Redis removes a key whose expiry is set, and a request that has counted an
  attempt goes on to the next command (`LimitFairness`: WF of `WindowEnds` and
  of `Expire \/ ExpireFails`). The other services have only safety properties.
- Clients, faults, stops, evictions, deletions and `SweepStart` have no
  fairness: nothing in the program makes them happen.

## 5. Proofs

TLAPS checks what follows for every value of the constants, from the named
assumptions of the modules, which say of numbers that they are natural and of
sets that `None` is not in them. The invariants were checked by TLC on small
instances before they were proved. In each module one lemma for
each action says that it keeps the invariant, and lemmas about the operators
come before them.

### EnrichmentQueue

`EnrichmentQueueProofs`, for every set of findings and of workers, every batch
size and every value of the bounds (`QueueAssumption`: they are natural
numbers, the batch and the sweep are not empty):

| Theorem | Says |
|---|---|
| `TypeCorrect`, `Invariance` | `Spec => []TypeOK`, `Spec => []IInv` |
| `AckOnlyOnSuccess` | `Spec => []AckedEnriched` |
| `PublishAfterCommit` | `Spec => []PublishedIsCommitted` |
| `EveryEntryAccountedFor` | `Spec => []NothingLost` |
| `PipelineImplementsContract` | `Spec => ImplementsContract`: the safety of `DeliveryContract`, under the refinement mapping |

The properties are not inductive by themselves. A worker that acknowledges does
so because of what it found two steps earlier, so `IInv` adds `AckAfterScore`:
at `pc = "ack"` the current finding is enriched or deleted. A published id is
committed because its handler had committed it, so it adds `OutboxCommitted`;
the entries of `handleEnrichFinding` that name no row are `blind`.
That a delivered entry is in exactly one place needs the cursor to restart at 0
only when the stream is gone (`NoGroupNoCursor`), since `CreateGroup` starts
from 0. For the refinement every action maps to a step of the contract or to a
stutter; it needs `IInv` in the state before, and that the log never exceeds
its bound (`LogBounded`).

### NvdSync

`NvdSyncProofs`, for any catalogue, page size, window, number of callers,
faults and stops:

| Theorem | Says |
|---|---|
| `TypeCorrect`, `Invariance` | `Spec => []TypeOK`, `Spec => []IInv` |
| `NeverTwoRuns` | `Spec => []OneRunAtATime` |
| `NothingIsSkipped` | `Spec => []NothingSkipped` |
| `WatermarkIsMonotone` | `Spec => WatermarkNeverRetreats`, an action property |

`NothingSkipped` speaks of the watermark, which moves at a checkpoint and at the
end of a run; until then the invariant follows the pages (`JobInv`). A full load reads by position:
`FullProgress` says that what is below the index is stored unless it was
modified after the load began, for which CVEs must be published in catalogue
order (`InOrder`). The result of an incremental window can only shrink, and
positions shift when it does: `WindowProgress` says that its size is at most
the total of the first page, and that as long as they are equal nothing has
shifted, so the positions read are those of the CVEs stored. If it did shrink,
the pages do not reach the total and the run ends with an error
(`FetchNothing`). At a checkpoint the whole window is `Covered`. `InWindow` keeps every window across the watermark
and in the past, which also gives its monotonicity.

### FindingTriage

`FindingTriageProofs`, for any findings, goroutines, actions and connections:

| Theorem | Says |
|---|---|
| `TypeCorrect`, `Invariance` | `Spec => []TypeOK`, `Spec => []IInv` |
| `HistoryIsComplete` | `Spec => []HistoryReplays` |
| `ReasonsFit` | `Spec => []ReasonFitsStatus` |
| `RowLockWorks` | `Spec => []RowIsExclusive`: no two transactions are past SELECT FOR UPDATE on one row, and what one has read there stays the row |
| `ReasonsLoadedOnce` | `Spec => []LoadedOnce`: one transaction loads the closure reasons, and they are in memory before an action is applied |
| `TriageImplementsHistory` | `Spec => ImplementsHistory`, the refinement of `TriageHistory` |

Row and history agree because the event is computed from the row that was read
under the lock, and nobody can have changed it since (`LockHeld`,
`NoLockLeaks`); an action read without a lock is chosen before
(`ActionChosen`). `History` is a recursive function over the events of a
finding. That it is what its equation says, and that one more event replays
one row further, is shown without an induction theorem: of the lengths at which
it failed, a set of naturals, there would be a least one.

The refinement says more than `HistoryReplays`, which speaks of a state: events
are never removed or rewritten, and row and history of at most one finding move
in a step. Only `Apply` moves them (`LedgerStep`); there the invariant makes the
row it read the row it writes, and by `AcceptedIsChange` each kind of action is
the step of the abstract history with the same event.

### ScanImport

`ScanImportProofs`, for any reports, scans, imports and fingerprints, with any
number of faults, deletions and deadlocks:

| Theorem | Says |
|---|---|
| `TypeCorrect`, `Invariance` | `Spec => []TypeOK`, `Spec => []IInv` |
| `SightingsAreCounted` | `Spec => []TimesSeenCounts` |
| `ScansAreWhole` | `Spec => []ScanIsWhole` |
| `NewOnce` | `Spec => []NewExactlyOnce` |
| `ImportsAreSerial` | `Spec => ImplementsSerial`, the refinement of `SerialImports` |

An id names the request and the position in its report for which it was made,
so every row, draft and entry can be traced (`MadeFor`). `EntryOK` says that an
entry is new exactly if its id was made for it, and that any other id was made
earlier by the same request or by one whose rows are visible. `DraftOK` ties the
uncommitted row of a scan to its lock and to the committed row under it: its
`times_seen` is that of the table and the scan's own sightings, which is what
the table must hold after COMMIT. Sightings are finite, for their
cardinalities; the links of a COMMIT are found by the first entry with an id,
the least of a set of naturals. `NewExactlyOnce` follows from the invariant:
the entry an id was made for exists, is committed, and is the only new one.

For the refinement, `ProjectKept` is added: a row written by a scan has the
project of the committed row under it, which nobody moves while it is locked
(`DraftMoves`). At the end of its report (`AtEnd`) the results of a scan are
compared with the report as a whole: an id is a fingerprint (`SameFinding`), new
is what the report names first and the table has not (`NewIsNews`), the
sightings of a row are as many as its places (`OwnArePlaces`, a bijection). So
rows, links and counters of the COMMIT are those of the report read at once
against the table of that instant (`RowsAtOnce`, `LinksAtOnce`,
`CountsAtOnce`), although it was read entry by entry against earlier ones.

### Access

`AccessProofs`, for every finite set of users, any number of goroutines,
requests and failures, every list of a bulk request, and every set of first
administrators (`AccessAssumption`; the theorems assume `admins \in SUBSET
Users`, the last three also that it is not empty, and any `marked`):

| Theorem | Says |
|---|---|
| `AccessTyped` | `AccessSpec(admins, marked) => []AccessTypeOK` |
| `SystemAccountsStay` | `... => []SystemAccountStays` |
| `FlagsAgree` | `... => []AdminFlagIsRole` |
| `AnAdministratorRemains` | `... => []SomeoneAdministers` |
| `SessionsEnd` | `... => []OldSessionsEnd` |
| `ChosenPasswordsMustChange` | `... => []AdminPasswordIsTemporary` |

`AccessInv` is the types, `RowOK` of every row (flag and role agree; a system
account exists, is active and administers) and `CallOK` of every request. A
request about to write has judged a row that may be old by then, and is sound
because no statement makes a system account, so a target that was none when it
was read is none when it is written; and a request between `AssignRole` and
`UnassignRoles` has a target whose roles contain the one it keeps.

For the last three `PromiseInv` adds what a request in progress knows: as long
as nobody has taken administration from anyone since it began, its caller still
administers, and the user it is about to write is another one (`RemovalOK`);
that a reset has left the password temporary until the user's own change of it
crosses (`PasswordOK`); and that sessions belong to users that exist.

### Projects

`ProjectsProofs`, for any people, requests and texts:

| Theorem | Says |
|---|---|
| `ProjectsTyped` | `ProjectsSpec => []ProjectsTypeOK` |
| `RepositoryGoesWithGit` | `... => []GitHasRepository` |
| `EditsStay` | `... => []NoEditIsLost` |
| `AdminsStay` | `... => []ProjectKeepsAdmin` |

The invariant says of each request what its earlier statements have found and
until when it holds: the row an edit has read is still the row, the pin apart,
unless another edit came between (`SeenIsRow`); a member who is about to lose
the role is still an administrator, and another one is left, unless another
change of an administrator's role came between (`MemberFound`).

### The audit trail and the lists

`PagesProofs`, for any number of records, projects and findings, any channel,
filter, page and poll:

| Theorem | Says |
|---|---|
| `TheQueueIsDrained` | `AuditSpec => []QueueIsDrained` |
| `ReadersSeeAll` | `AuditSpec => []ReadersMissNothing` |
| `EveryProjectIsListed` | `BoardSpec => []BoardIsComplete` |
| `PagesAreWhole` | `ListingSpec => []PagesAreComplete` |
| `NumbersAreTrue` | `ListingSpec => []CountsAreTrue` |
| `BulkTakesTheGroup` | `ListingSpec => []GroupActsOnItsRows` |

They rest on one lemma on ORDER BY: where rows are totally ordered and finitely
many, the number of those before a row is its place, and every place is taken
(`PlacesAreTaken`); hence they can be listed (`OrderLists`).

`QueueInv`: the channel holds the queued records and no other, each once, and
`ShutdownInOrder` says where records may be in each phase of a shutdown that no
deadline has cut short. `ReaderInv`: a stream has sent, in order, all it selects
up to its cursor that did not come late; an export has written all that was
there when it began, down to its cursor. Stored records stay stored because the
channel holds only queued ones. A page is what ORDER BY and LIMIT say
(`LowestPage`, `HighestPage`): nothing in it is passed over, and one shorter than
its limit is all there is.

`BoardInv` says that, while nobody pins and every page was read where the two
orders agree, a reader has each project once that is not below its cursor, and
at the end all of them; a change of what the list is ordered by does not move
the cursor (`ReorderStep`). ORDER
BY is a strict total order because ids differ (`PrecedesIsOrder`); where it
agrees with that of `(pinned, id)`, to come after the last row is to be below the
cursor (`CursorIsPlace`).

`ListingInv` says the same of findings and of any sort while there is but one
page (`LinesOK`), of findings that matched at first and have not been changed
since: the others come, go and match otherwise as they like. A page that is not
the last is full and its last row the cursor (`CursorOK`), so one page in another
order than `first_seen` is the last. `SumsOK`: the workbook, which counts batch
by batch, and the report, which counts at the end, have counted their lines
(`CountsAdd`). A key of a group is divided where it was joined unless its version
has an @ (`DividedWhereJoined`) or its rule a dash (`RuleDivided`).

Assumed of the constants: projects and findings are finitely many, no finding is
numbered 0 (the cursor of no finding), ids and the columns sorted by are ordered
like integers. A table and its sort columns give that. STRING and the characters
between names are beyond the encoding of the SMT backend, hence `Words` in
`Listing`, where `blank` and `dash` stand for them.

### The services

`ServicesProofs`, for every value of the constants:

| Theorem | Says |
|---|---|
| `LoginsAreLimited` | `LimitSpec => []WindowIsLimited` |
| `ScoresAreInHistory` | `EpssSpec => []ScoreIsInHistory` |
| `ScoresGoBackOneDay` | `EpssSpec => ScoreGoesBackOneDay`, an action property |
| `SlotsAreCounted` | `SlotsSpec => []SlotsAreReturned` |
| `RunningExportsAreLimited` | `SlotsSpec => []ExportsAreLimited` |
| `DictionaryIsCurrent` | `CpeSpec => []DictionaryFollows` |
| `ResultsAreTrue` | `CataloguesSpec => []ResultIsTrue` |

`LimitInv` adds that no more attempts pass than are counted. `EpssInv` adds
that a file is one of the run's two days, and that no score is newer than the
day the run began: no other run stores while it lasts. `SlotsInv` counts
requests by set cardinalities: while nothing has drifted, the counter is the
number of holders and of leaked slots, and those admitted are at most `Slots`;
a lemma for a request that joins a set, one for one that leaves it.

`CpeInv` says of a load in progress that there is a set of products that it has
read, as many as its index, out of those that its first page counted, and that
none of them is listed beyond the index (`ReadOf`). Products leave the window
when they are modified and others move up, never down, so no page repeats what
was read; if the pages add up to the total, nothing was passed over. A load
that passes something over can only end by an empty page, which is not a sound
end.

`CataloguesInv` follows an archive through a load. What was loaded to the end
is stored (`PlaceOK`); what was read before `pos` is refused, stored, or waits
in the batch, which holds nothing else (`BatchOK`); KEV and CWE write nothing
before their one transaction, whose answer may be lost, and a batch of KEV has nothing twice
(`OneTransaction`); of a BDU archive some number n of valid entries is stored,
whole batches of them, and the batch is the next ones (`Flushed`). Whether an
entry is stored is asked of all archives the run has read (`Offers`), because a
later entry or ecosystem overwrites it. Entries kept are counted by their place
(`UpTo`) instead of by a recursion over the archive, which makes the next entry
of the batch a fact about cardinalities (`KeptInOrder`), and two batches one
after the other are one longer batch (`OverlaidTwice`). The result of a failed
load is part of the invariant: it is all that remains of a load that is over.

### What is not proved

`AccessTypeOK`, `ProjectsTypeOK`, `TypeOK` of `EnrichmentQueue`, `FindingTriage`
and `ScanImport`,
`RowIsExclusive`, `LoadedOnce`, `WindowIsLimited`, `SlotsAreReturned` and
`ScoreGoesBackOneDay` hold by these theorems and are in no run.

Only model-checked: all liveness (`EventuallyDelivered`, `RecoveryRetries`,
`SweepClearsBacklog`, `CatchesUp`, the two `EveryRequestEnds`, `LockoutEnds`),
out of the reach of the prover as is ENABLED. Every safety property of a passing
run is a theorem.

## 6. Not modelled

Every component without a module is in `PROJECT.json` with the reason: pure
functions over strings and floating-point numbers (fingerprints, parsers,
scoring), single statements (tokens, comments, saved views), derived data
(dashboard, materialised views, cache), the frontend and the tools.

Within the modelled components: wording, metrics, the contents of enrichments,
catalogue records and audit records, times (`last_seen`, `closed_at`), and
messages without a finding id, which no code of the repository publishes. Of
users: names and email (`handleUpdateUser`), groups and identities, the expiry
and the refresh of sessions and their cleanup, hashing and tokens. Of the
server: creation of partitions, migrations, configuration. Of listings: the
text search, the trend and quick peek of projects. Retries of one HTTP request
are inside the step of the request, except in `Catalogues`.

Smaller simplifications, none of which a property relies on silently:
`handleListClosureReasons` loads the closure reasons without a transaction and
is left out of `FindingTriage`, whose requests hold one; a trigger of `Access`
reads and writes in one step, though its SELECT and its UPDATE take a READ
COMMITTED snapshot each; and a rule's id or name holds no unit separator, which
the group query joins them with.

## 7. Plan

Done: `EnrichmentQueue` with its contract; `NvdSync`; `FindingTriage`;
`ScanImport`; `Access` and `Projects`; the eight services; the proofs of the
safety of all of them, and of the refinements of `DeliveryContract`,
`TriageHistory` and `SerialImports`.

Left, in this order:

1. A clock in `ScanImport` for `last_seen`; expiry and refresh of sessions and
   `handleUpdateUser` in `Access`.
