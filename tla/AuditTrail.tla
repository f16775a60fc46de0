----------------------------- MODULE AuditTrail -----------------------------
(***************************************************************************)
(* The audit log: records made by AuditMiddleware and the admin handlers   *)
(* (internal/api/audit_middleware.go), the queue and goroutine that write  *)
(* them (internal/audit/writer.go), the shutdown of cmd/server/main.go,    *)
(* and the two readers that work through the log while it grows: the event *)
(* stream and the export (internal/api/admin_audit.go).                    *)
(***************************************************************************)
EXTENDS Integers, Sequences, FiniteSets, SequencesExt

CONSTANTS
    MaxRecords,   \* bound: records made; record n is the n-th by created_at
    Capacity,     \* length of the channel of the writer
    PageLimit,    \* rows of a page of the export
    StreamLimit,  \* rows of a poll of the stream
    Selected,     \* the records that the filter of the readers selects
    MaxErrors     \* bound: inserts and reads that fail

ASSUME AuditAssumption ==
    /\ MaxRecords \in Nat /\ Capacity \in Nat /\ MaxErrors \in Nat
    /\ PageLimit \in Nat \ {0} /\ StreamLimit \in Nat \ {0}
    /\ Selected \subseteq 1..MaxRecords

VARIABLES
    record,   \* record[n]: where record n is
    queue,    \* the channel of the writer
    server,   \* how far the shutdown has come
    stream,   \* an event stream: its cursor and what its client has got
    export,   \* an export: its cursor and the lines written
    errors,
    rushed,   \* history: a deadline of the shutdown passed
    late      \* history: records inserted behind the cursor of the stream

auditVars == <<record, queue, server, stream, export, errors, rushed, late>>

Records == 1..MaxRecords
Places == {"none", "built", "admitted", "queued", "taken", "handed",
           "stored", "refused", "panicked", "failed", "lost", "dropped"}
Phases == {"serving", "shutdown", "closing", "exiting", "exited"}

AuditInit ==
    /\ record = [n \in Records |-> "none"]
    /\ queue = <<>>
    /\ server = "serving"
    /\ stream = [open |-> FALSE, from |-> 0, cursor |-> 0, sent |-> <<>>]
    /\ export = [at |-> "idle", cursor |-> 0, lines |-> <<>>, before |-> {}]
    /\ errors = 0
    /\ rushed = FALSE
    /\ late = {}

Put(n, place) == record' = [record EXCEPT ![n] = place]
Stored == {n \in Records : record[n] = "stored"}

\* The rows that match the filter of a reader.
Chosen == Stored \intersect Selected

-----------------------------------------------------------------------------
(* Writing *)

\* The handler has answered and AuditMiddleware takes the time.
Build(n) ==
    /\ server # "exited"
    /\ \A m \in Records : m < n <=> record[m] # "none"
    /\ server = "serving" \/ rushed
    /\ Put(n, "built")
    /\ UNCHANGED <<queue, server, stream, export, errors, rushed, late>>

Closed == server \in {"closing", "exiting", "exited"}

\* Submit, first half: dead is read under the lock, which is then released.
Admit(n) ==
    /\ record[n] = "built" /\ server # "exited"
    /\ Put(n, IF Closed THEN "refused" ELSE "admitted")
    /\ UNCHANGED <<queue, server, stream, export, errors, rushed, late>>

\* Submit, second half: a closed channel panics, a full one means a goroutine.
Send(n) ==
    /\ record[n] = "admitted" /\ server # "exited"
    /\ \/ Closed /\ Put(n, "panicked") /\ UNCHANGED queue
       \/ /\ ~Closed /\ Len(queue) < Capacity
          /\ Put(n, "queued") /\ queue' = Append(queue, n)
       \/ /\ ~Closed /\ Len(queue) = Capacity
          /\ Put(n, "handed") /\ UNCHANGED queue
    /\ UNCHANGED <<server, stream, export, errors, rushed, late>>

\* The goroutine of the writer receives the next record.
Take ==
    /\ queue # <<>> /\ server # "exited"
    /\ \A n \in Records : record[n] # "taken"
    /\ Put(Head(queue), "taken")
    /\ queue' = Tail(queue)
    /\ UNCHANGED <<server, stream, export, errors, rushed, late>>

\* AuditLogRepo.Create; a pool that is closing gives no connection, and every
\* error is ignored.
Insert(n) ==
    /\ record[n] \in {"taken", "handed"} /\ server # "exited"
    /\ \/ /\ server # "exiting"
          /\ Put(n, "stored")
          /\ late' = IF n \in Selected /\ n <= stream.cursor
                     THEN late \union {n} ELSE late
          /\ UNCHANGED errors
       \/ /\ server = "exiting"
          /\ Put(n, IF record[n] = "handed" THEN "dropped" ELSE "lost")
          /\ UNCHANGED <<errors, late>>
       \/ /\ errors < MaxErrors
          /\ Put(n, "failed") /\ errors' = errors + 1 /\ UNCHANGED late
    /\ UNCHANGED <<queue, server, stream, export, rushed>>

-----------------------------------------------------------------------------
(* Shutdown *)

Enter(phase) ==
    /\ server' = phase
    /\ UNCHANGED <<record, queue, stream, export, errors, late>>

\* A signal: http.Server.Shutdown accepts no new request.
Signal == server = "serving" /\ Enter("shutdown") /\ UNCHANGED rushed

Handling == \E n \in Records : record[n] \in {"built", "admitted"}

\* Shutdown returns when no request is left, an open stream being one, or at
\* its deadline; Writer.Close closes the channel.
CloseWriter ==
    /\ server = "shutdown"
    /\ rushed' = (rushed \/ Handling \/ stream.open)
    /\ Enter("closing")

\* Mutant: Close does not wait for the goroutine.
WriterLeft ==
    /\ server = "closing"
    /\ UNCHANGED rushed
    /\ Enter("exiting")

\* Close returns when the queue is drained, or at its deadline.
WriterClosed ==
    /\ server = "closing"
    /\ rushed' = (rushed \/ queue # <<>> \/ \E n \in Records : record[n] = "taken")
    /\ Enter("exiting")

\* main returns.
Exit == server = "exiting" /\ Enter("exited") /\ UNCHANGED rushed

-----------------------------------------------------------------------------
(* The event stream *)

\* The numbers of S, smallest first, and greatest first: ORDER BY created_at.
Ascending(S) ==
    CHOOSE s \in [1..Cardinality(S) -> S] : \A i, j \in DOMAIN s : i < j => s[i] < s[j]
Descending(S) ==
    CHOOSE s \in [1..Cardinality(S) -> S] : \A i, j \in DOMAIN s : i < j => s[i] > s[j]

\* LIMIT: the first limit numbers from below, and from above.
Lowest(S, limit) == Ascending({n \in S : Cardinality({m \in S : m < n}) < limit})
Highest(S, limit) == Descending({n \in S : Cardinality({m \in S : m > n}) < limit})

\* handleAuditStream: from the event the client names, or three seconds ago.
Connect ==
    /\ ~stream.open /\ server = "serving"
    /\ \/ /\ stream.sent # <<>>
          /\ stream' = [stream EXCEPT !.open = TRUE, !.cursor = Last(stream.sent)]
          /\ UNCHANGED late
       \/ /\ stream.sent = <<>>
          /\ \E k \in 0..MaxRecords :
                /\ k > 0 => record[k] # "none"
                /\ stream' = [stream EXCEPT !.open = TRUE, !.from = k, !.cursor = k]
          /\ late' = {}
    /\ UNCHANGED <<record, queue, server, export, errors, rushed>>

\* Mutant: the cursor moves to the time of the poll.
PollsNow ==
    /\ stream.open /\ server # "exited"
    /\ LET items == Lowest({n \in Chosen : n > stream.cursor}, StreamLimit)
       IN stream' = [stream EXCEPT !.sent = @ \o items,
                                   !.cursor = Cardinality({n \in Records : record[n] # "none"})]
    /\ UNCHANGED <<record, queue, server, export, errors, rushed, late>>

\* A tick: ListAfter the cursor, which moves to the last event sent.
Poll ==
    /\ stream.open /\ server # "exited"
    /\ LET items == Lowest({n \in Chosen : n > stream.cursor}, StreamLimit)
       IN /\ items # <<>>
          /\ stream' = [stream EXCEPT !.sent = @ \o items, !.cursor = Last(items)]
    /\ UNCHANGED <<record, queue, server, export, errors, rushed, late>>

\* The client goes, or a read fails and the handler returns.
Disconnect ==
    /\ stream.open
    /\ stream' = [stream EXCEPT !.open = FALSE]
    /\ UNCHANGED <<record, queue, server, export, errors, rushed, late>>

-----------------------------------------------------------------------------
(* The export *)

StartExport ==
    /\ export.at = "idle" /\ server = "serving"
    /\ export' = [at |-> "paging", cursor |-> MaxRecords + 1, lines |-> <<>>,
                  before |-> Chosen]
    /\ UNCHANGED <<record, queue, server, stream, errors, rushed, late>>

\* Mutant: the cursor is the extra row that was read to know of a next page.
CursorIsExtraRow ==
    /\ export.at = "paging" /\ server # "exited"
    /\ LET rows == Highest({n \in Chosen : n < export.cursor}, PageLimit + 1)
           page == SubSeq(rows, 1, IF Len(rows) > PageLimit THEN PageLimit ELSE Len(rows))
       IN export' = [export EXCEPT !.lines = @ \o page,
                                   !.cursor = IF Len(rows) > PageLimit THEN Last(rows) ELSE @,
                                   !.at = IF Len(rows) > PageLimit THEN "paging" ELSE "done"]
    /\ UNCHANGED <<record, queue, server, stream, errors, rushed, late>>

\* AuditLogRepo.List reads one row more than the page to know of a next one.
ExportPage ==
    /\ export.at = "paging" /\ server # "exited"
    /\ LET rows == Highest({n \in Chosen : n < export.cursor}, PageLimit + 1)
           page == SubSeq(rows, 1, IF Len(rows) > PageLimit THEN PageLimit ELSE Len(rows))
       IN export' = [export EXCEPT !.lines = @ \o page,
                                   !.cursor = IF Len(rows) > PageLimit THEN Last(page) ELSE @,
                                   !.at = IF Len(rows) > PageLimit THEN "paging" ELSE "done"]
    /\ UNCHANGED <<record, queue, server, stream, errors, rushed, late>>

\* A page cannot be read: the handler returns and the file ends there.
ExportBreaks ==
    /\ export.at = "paging" /\ server # "exited" /\ errors < MaxErrors
    /\ errors' = errors + 1
    /\ export' = [export EXCEPT !.at = "broken"]
    /\ UNCHANGED <<record, queue, server, stream, rushed, late>>

AuditNext ==
    \/ \E n \in Records : Build(n) \/ Admit(n) \/ Send(n) \/ Insert(n)
    \/ Take
    \/ Signal \/ CloseWriter \/ WriterClosed \/ Exit
    \/ Connect \/ Poll \/ Disconnect
    \/ StartExport \/ ExportPage \/ ExportBreaks

AuditSpec == AuditInit /\ [][AuditNext]_auditVars

-----------------------------------------------------------------------------
(* Properties *)

(* Close drains the channel: at the end no record is missing that was put in  *)
(* the queue, whatever arrives during the shutdown, unless a deadline passed  *)
(* or its insert failed; nor does Submit panic then.  A record handed to a    *)
(* goroutine of its own because the queue was full may be lost.               *)
QueueIsDrained ==
    server = "exited" =>
        \/ rushed
        \/ \A n \in Records : record[n] \in {"none", "stored", "failed", "handed", "dropped"}

(* The stream sends events once and in order and leaves out only those that   *)
(* were inserted after a later one had been sent, also when it breaks and the *)
(* client comes back with the last event it has seen.                         *)
StreamSkipsOnlyLate ==
    /\ \A i, j \in DOMAIN stream.sent : i < j => stream.sent[i] < stream.sent[j]
    /\ stream.open =>
         \A n \in Chosen :
             stream.from < n /\ n <= stream.cursor => n \in Range(stream.sent) \union late

(* A complete export has every record once that was in the log when it began, *)
(* although the log grows between two pages.                                  *)
ExportIsComplete ==
    export.at = "done" =>
        /\ export.before \subseteq Range(export.lines)
        /\ \A i, j \in DOMAIN export.lines : i < j => export.lines[i] > export.lines[j]

(* Both readers of the log, though it grows while they read and records are   *)
(* inserted out of order, miss nothing but what came behind the stream.       *)
ReadersMissNothing == StreamSkipsOnlyLate /\ ExportIsComplete
=============================================================================
