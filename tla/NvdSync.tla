------------------------------- MODULE NvdSync -------------------------------
(***************************************************************************)
(* Synchronisation of the NVD catalogue: the scheduler's exclusion of      *)
(* overlapping runs, RunSync with its row in sync_status, and the full and *)
(* incremental loads of nvd/sync.go.                                       *)
(*                                                                         *)
(* Time is counted in modifications of the catalogue, so two instants      *)
(* between which nothing changed upstream are the same instant.  A CVE is  *)
(* a position in the catalogue's order, that of publication.  The program  *)
(* may stop at any step and docker restarts it.                            *)
(***************************************************************************)
EXTENDS Integers, FiniteSets

CONSTANTS
    Catalogue,  \* how many CVEs can ever be published
    Callers,    \* goroutines that trigger a run: the ticker's, manual ones
    PageSize,   \* resultsPerPage (2000)
    Overlap,    \* windowOverlap (5 minutes)
    MaxRange,   \* maxDateRange (120 days)
    Loaded,     \* may the initial state be that after a complete full load
    MaxClock,   \* bound: how many modifications happen
    MaxFaults,  \* bound: how many runs fail
    MaxStops    \* bound: how many times the process stops

ASSUME NvdAssumption ==
    /\ Catalogue \in Nat \ {0}
    /\ PageSize \in Nat \ {0}
    /\ Overlap \in Nat \ {0}
    /\ MaxRange \in Nat /\ Overlap < MaxRange
    /\ Loaded \in BOOLEAN
    /\ MaxClock \in Nat \ {0}
    /\ MaxFaults \in Nat
    /\ MaxStops \in Nat

VARIABLES
    clock,    \* modifications of the catalogue so far
    mod,      \* mod[c]: when c was last modified (0: not published yet)
    got,      \* got[c]: the modification of c that table nvd_cves holds (0: no row)
    status,   \* column status of the row of sync_status
    mark,     \* its column last_sync_at, the watermark
    running,  \* Scheduler.running["nvd"]
    pc,       \* pc[a]: the next step of caller a
    job,      \* job[a]: the locals of its run
    up,       \* is the process running
    complete, \* has a full load ever completed (history)
    synced,   \* has a run ever completed (history)
    faults, stops

upstream == <<clock, mod>>
rowVars  == <<status, mark>>
histVars == <<complete, synced>>
envVars  == <<up, faults, stops>>
vars     == <<upstream, got, rowVars, running, pc, job, histVars, envVars>>

CVEs == 1..Catalogue

\* full: is the load a full one; lo, hi: the modification window asked for
\* (hi is the watermark a full load will set); now: the end of the last
\* window; index, total: the position and the size of the paged result.
Jobs == [full : BOOLEAN, lo : Int, hi : Nat, now : Nat, index : Nat, total : Nat \union {-1}]
NoJob == [full |-> FALSE, lo |-> 0, hi |-> 0, now |-> 0, index |-> 0, total |-> -1]
NoMark == -1

TypeOK ==
    /\ clock \in 0..MaxClock
    /\ mod \in [CVEs -> 0..clock]
    /\ got \in [CVEs -> 0..clock]
    /\ status \in {"absent", "running", "error", "success"}
    /\ mark \in -1..clock
    /\ running \in BOOLEAN
    /\ pc \in [Callers -> {"idle", "begin", "choose", "page", "checkpoint", "finish", "report"}]
    /\ job \in [Callers -> Jobs]
    /\ up \in BOOLEAN
    /\ complete \in BOOLEAN
    /\ synced \in BOOLEAN
    /\ faults \in 0..MaxFaults
    /\ stops \in 0..MaxStops

\* A new installation: no row in sync_status, an empty table ...
Fresh ==
    /\ got = [c \in CVEs |-> 0]
    /\ status = "absent"
    /\ mark = NoMark
    /\ complete = FALSE

\* ... or one whose full load has completed.
AfterFullLoad ==
    /\ got = mod
    /\ status = "success"
    /\ mark = clock
    /\ complete = TRUE

Init ==
    /\ clock = 1
    /\ mod = [c \in CVEs |-> IF c = 1 THEN 1 ELSE 0]
    /\ Fresh \/ (Loaded /\ AfterFullLoad)
    /\ running = FALSE
    /\ pc = [a \in Callers |-> "idle"]
    /\ job = [a \in Callers |-> NoJob]
    /\ up = TRUE
    /\ synced = complete
    /\ faults = 0
    /\ stops = 0

-----------------------------------------------------------------------------
(* The catalogue *)

\* A CVE is published or modified; CVEs are published in catalogue order.
Modify(c) ==
    /\ clock < MaxClock
    /\ \A d \in CVEs : d < c => mod[d] > 0
    /\ clock' = clock + 1
    /\ mod' = [mod EXCEPT ![c] = clock + 1]
    /\ UNCHANGED <<got, rowVars, running, pc, job, histVars, envVars>>

\* What a query with job j's window lists: positions index+1 .. index+PageSize
\* of the CVEs that match when it is answered.
Matching(j) == {c \in CVEs : mod[c] > 0 /\ (j.full \/ mod[c] \in j.lo .. j.hi)}
Rank(c, S) == Cardinality({d \in S : d <= c})
Page(j) == {c \in Matching(j) : Rank(c, Matching(j)) \in j.index + 1 .. j.index + PageSize}

-----------------------------------------------------------------------------
(* The scheduler and RunSync *)

\* Mutant: a full synchronisation does not look at Scheduler.running.
TriggerUnchecked(a, full) ==
    /\ up
    /\ pc[a] = "idle"
    /\ ~running \/ full
    /\ running' = TRUE
    /\ pc' = [pc EXCEPT ![a] = "begin"]
    /\ job' = [job EXCEPT ![a] = [NoJob EXCEPT !.full = full]]
    /\ UNCHANGED <<upstream, got, rowVars, histVars, envVars>>

\* runIfNotRunning: the check and the mark are made under the mutex; a caller
\* that finds a run in progress is refused (ErrAlreadyRunning).
Trigger(a, full) ==
    /\ up
    /\ pc[a] = "idle"
    /\ ~running
    /\ running' = TRUE
    /\ pc' = [pc EXCEPT ![a] = "begin"]
    /\ job' = [job EXCEPT ![a] = [NoJob EXCEPT !.full = full]]
    /\ UNCHANGED <<upstream, got, rowVars, histVars, envVars>>

\* The run is over: the deferred functions of runIfNotRunning.
Release(a) ==
    /\ running' = FALSE
    /\ pc' = [pc EXCEPT ![a] = "idle"]
    /\ job' = [job EXCEPT ![a] = NoJob]

\* RunSync (and again markSyncRunning) set the row to running; the INSERT of
\* the first run ever also sets last_sync_at to now().
Begin(a) ==
    /\ pc[a] = "begin"
    /\ status' = "running"
    /\ mark' = IF status = "absent" THEN clock ELSE mark
    /\ pc' = [pc EXCEPT ![a] = "choose"]
    /\ UNCHANGED <<upstream, got, running, job, histVars, envVars>>

\* Mutant: RunSync sets last_sync_at to now() for every source.
ReportNow(a) ==
    /\ pc[a] = "report"
    /\ status' = "success"
    /\ mark' = clock
    /\ Release(a)
    /\ UNCHANGED <<upstream, got, histVars, envVars>>

\* RunSync after a successful Sync: the watermark is the syncer's business
\* (PreserveSyncWatermark).
Report(a) ==
    /\ pc[a] = "report"
    /\ status' = "success"
    /\ Release(a)
    /\ UNCHANGED <<upstream, got, mark, histVars, envVars>>

\* Any query or request of a run fails.  markSyncFailed and RunSync set the
\* row to error and leave the watermark; after a panic or with an expired
\* context they write nothing and the row stays as it is, as it does when one
\* of RunSync's own two writes fails.
Fail(a) ==
    /\ pc[a] # "idle"
    /\ faults < MaxFaults
    /\ faults' = faults + 1
    /\ status' \in IF pc[a] \in {"begin", "report"} THEN {status} ELSE {status, "error"}
    /\ Release(a)
    /\ UNCHANGED <<upstream, got, mark, histVars, up, stops>>

-----------------------------------------------------------------------------
(* The loads *)

MinOf(x, y) == IF x < y THEN x ELSE y

\* Mutant: a window is always MaxRange long, and may end in the future.
IncrementalUncapped(from) ==
    [full  |-> FALSE, lo |-> from, hi |-> from + MaxRange,
     now   |-> clock, index |-> 0, total |-> -1]

\* The first window of an incremental load starts Overlap before the watermark.
Incremental(from) ==
    [full  |-> FALSE, lo |-> from, hi |-> MinOf(from + MaxRange, clock),
     now   |-> clock, index |-> 0, total |-> -1]

NextWindow(j) ==
    [j EXCEPT !.lo = j.hi, !.hi = MinOf(j.hi + MaxRange, j.now), !.index = 0, !.total = -1]

FullLoad == [NoJob EXCEPT !.full = TRUE, !.hi = clock]

\* runSync and syncFromState: a full load if asked for, if the table is empty
\* or if there is no watermark, an incremental one otherwise.
Choose(a) ==
    /\ pc[a] = "choose"
    /\ job' = [job EXCEPT ![a] =
          IF job[a].full \/ (\A c \in CVEs : got[c] = 0) \/ mark = NoMark THEN FullLoad
          ELSE Incremental(MinOf(mark, clock) - Overlap)]
    /\ pc' = [pc EXCEPT ![a] = "page"]
    /\ UNCHANGED <<upstream, got, rowVars, running, histVars, envVars>>

AfterLoad(a) == IF job[a].full THEN "finish" ELSE "checkpoint"

\* Mutant: an empty page ends the load instead of failing it.
FetchPageLenient(a) ==
    /\ pc[a] = "page"
    /\ LET j     == job[a]
           page  == Page(j)
           total == IF j.total = -1 THEN Cardinality(Matching(j)) ELSE j.total
           next  == j.index + Cardinality(page)
       IN  /\ got' = [c \in CVEs |-> IF c \in page THEN mod[c] ELSE got[c]]
           /\ job' = [job EXCEPT ![a].index = next, ![a].total = total]
           /\ pc' = [pc EXCEPT ![a] =
                        IF page = {} \/ next >= total THEN AfterLoad(a) ELSE "page"]
    /\ UNCHANGED <<upstream, rowVars, running, histVars, envVars>>

\* One turn of fetchAndStore: a page is fetched and committed.  The number of
\* results is that of the first page.
FetchPage(a) ==
    /\ pc[a] = "page"
    /\ LET j     == job[a]
           page  == Page(j)
           total == IF j.total = -1 THEN Cardinality(Matching(j)) ELSE j.total
           next  == j.index + Cardinality(page)
       IN  /\ total > 0 => page # {}
           /\ got' = [c \in CVEs |-> IF c \in page THEN mod[c] ELSE got[c]]
           /\ job' = [job EXCEPT ![a].index = next, ![a].total = total]
           /\ pc' = [pc EXCEPT ![a] = IF next >= total THEN AfterLoad(a) ELSE "page"]
    /\ UNCHANGED <<upstream, rowVars, running, histVars, envVars>>

\* An empty page before the end (the result has shrunk under the load, since a
\* CVE modified again leaves its window) is an error: resultsPerPage is 0.
FetchNothing(a) ==
    /\ pc[a] = "page"
    /\ job[a].total > 0
    /\ Page(job[a]) = {}
    /\ status' = "error"
    /\ Release(a)
    /\ UNCHANGED <<upstream, got, mark, histVars, envVars>>

\* Mutant: the checkpoint is the start of the window, not its end.
CheckpointStart(a) ==
    /\ pc[a] = "checkpoint"
    /\ mark' = job[a].lo
    /\ status' = "running"
    /\ IF job[a].hi = job[a].now
       THEN /\ pc' = [pc EXCEPT ![a] = "finish"]
            /\ UNCHANGED job
       ELSE /\ pc' = [pc EXCEPT ![a] = "page"]
            /\ job' = [job EXCEPT ![a] = NextWindow(@)]
    /\ UNCHANGED <<upstream, got, running, histVars, envVars>>

\* The end of a window: its end becomes the watermark, and the next one starts
\* there.
Checkpoint(a) ==
    /\ pc[a] = "checkpoint"
    /\ mark' = job[a].hi
    /\ status' = "running"
    /\ IF job[a].hi = job[a].now
       THEN /\ pc' = [pc EXCEPT ![a] = "finish"]
            /\ UNCHANGED job
       ELSE /\ pc' = [pc EXCEPT ![a] = "page"]
            /\ job' = [job EXCEPT ![a] = NextWindow(@)]
    /\ UNCHANGED <<upstream, got, running, histVars, envVars>>

\* markSyncSuccess: the watermark of a full load is the instant it started.
Finish(a) ==
    /\ pc[a] = "finish"
    /\ status' = "success"
    /\ mark' = job[a].hi
    /\ complete' = (complete \/ job[a].full)
    /\ synced' = TRUE
    /\ pc' = [pc EXCEPT ![a] = "report"]
    /\ UNCHANGED <<upstream, got, running, job, envVars>>

-----------------------------------------------------------------------------
(* The process *)

Stop ==
    /\ up
    /\ stops < MaxStops
    /\ stops' = stops + 1
    /\ up' = FALSE
    /\ running' = FALSE
    /\ pc' = [a \in Callers |-> "idle"]
    /\ job' = [a \in Callers |-> NoJob]
    /\ UNCHANGED <<upstream, got, rowVars, histVars, faults>>

Start ==
    /\ ~up
    /\ up' = TRUE
    /\ UNCHANGED <<upstream, got, rowVars, running, pc, job, histVars, faults, stops>>

\* A run in progress goes on.
Step(a) ==
    \/ Begin(a) \/ Choose(a) \/ FetchPage(a) \/ FetchNothing(a)
    \/ Checkpoint(a) \/ Finish(a) \/ Report(a)

Run(a) == Trigger(a, TRUE) \/ Trigger(a, FALSE) \/ Step(a) \/ Fail(a)

Next ==
    \/ \E c \in CVEs : Modify(c)
    \/ \E a \in Callers : Run(a)
    \/ Stop
    \/ Start

Spec == Init /\ [][Next]_vars

\* The ticker fires every two hours for as long as the process runs: a run is
\* attempted again and again.  What it starts goes on, and docker restarts.
Fairness ==
    /\ \A a \in Callers : WF_vars(Step(a))
    /\ \E a \in Callers : SF_vars(Trigger(a, FALSE))
    /\ WF_vars(Start)

FairSpec == Spec /\ Fairness

-----------------------------------------------------------------------------
(* Properties *)

\* The running map of the scheduler: never two runs of one source at a time,
\* whatever triggers them.
OneRunAtATime ==
    /\ \A a, b \in Callers : pc[a] # "idle" /\ pc[b] # "idle" => a = b
    /\ running <=> \E a \in Callers : pc[a] # "idle"

\* Once a full load has completed, every CVE whose last modification is not
\* after the watermark is stored with it: incremental loads that start from
\* the watermark skip nothing, whatever failed, stopped or was modified while
\* pages were being read.
NothingSkipped ==
    complete => \A c \in CVEs : mod[c] > 0 /\ mod[c] <= mark => got[c] = mod[c]

\* The watermark never goes back, although every incremental load starts
\* before it and checkpoints its windows.
WatermarkNeverRetreats == [][mark' >= mark]_vars

\* Once a full load has completed, every modification of the catalogue is
\* loaded in the end.
CatchesUp ==
    \A c \in CVEs : complete /\ got[c] # mod[c] ~> got[c] = mod[c]

\* nvd/sync.go:142: without the watermark of a successful run (the code calls
\* it LastSuccessAt) the start of an incremental window cannot be determined
\* safely, so a full load is forced.  Hence no incremental load before a run
\* has succeeded, in particular after an interrupted first load.
IncrementalAfterSuccess ==
    \A a \in Callers : pc[a] \in {"page", "checkpoint"} /\ ~job[a].full => synced
============================================================================
