---------------------------- MODULE FindingTriage ----------------------------
(***************************************************************************)
(* Triage of findings: the handlers of internal/api/triage.go, alone or as *)
(* the parallel goroutines of a bulk request, run ApplyTriageAction, a     *)
(* transaction that locks the row (SELECT FOR UPDATE), applies the action  *)
(* and writes the row and an event.  The closure reasons are cached: the   *)
(* first transaction that needs them loads them, once, on a second         *)
(* connection of the pool, while it holds its own.                         *)
(***************************************************************************)
EXTENDS Integers, Sequences, FiniteSets

CONSTANTS
    Findings,
    Requests,   \* goroutines that may serve a triage action at a time
    None,       \* SQL NULL, and a lock nobody holds
    MaxConns,   \* connections of the pool (DATABASE_MAX_CONNS)
    MaxSent,    \* bound: how many actions are submitted
    MaxFaults   \* bound: how many statements fail or clients give up

ASSUME TriageAssumption ==
    /\ Findings # {}
    /\ None \notin Requests
    /\ MaxConns \in Nat \ {0}
    /\ MaxSent \in Nat
    /\ MaxFaults \in Nat

VARIABLES
    row,      \* row[f]: the triage columns of f
    events,   \* events[f]: its finding_events, oldest first
    lock,     \* lock[f]: the transaction that holds the row lock of f
    once,     \* sync.Once of ClosureReasonsRepo: "fresh", "loading" or "done"
    snapshot, \* are the closure reasons in memory
    pc,       \* pc[r]: the next step of request r
    req,      \* req[r]: its finding, its action and the row it has read
    sent, faults

vars == <<row, events, lock, once, snapshot, pc, req, sent, faults>>

\* The closure reasons of migration 008 and the status each leads to.
Target == [false_positive |-> "fp", mitigated |-> "resolved", acceptable_risk |-> "accepted"]
Reasons == DOMAIN Target
Closed == {"fp", "resolved", "accepted"}
Statuses == {"open", "confirmed"} \union Closed

Rows == [status : Statuses, closure : Reasons \union {None}, assigned : BOOLEAN]

\* "set": ChangeStatusAction; "invalid" stands for a closing that is refused: an
\* unknown or inactive reason, or a missing note.  "update": handleUpdateStatus
\* with status open, which has still to choose between set and reopen.
Actions ==
    [op : {"set"}, arg : {"open", "confirmed"}]
    \union [op : {"close"}, arg : Reasons \union {"invalid"}]
    \union [op : {"update", "reopen", "assign", "unassign"}, arg : {"-"}]

Events ==
    [type : {"status_changed"}, from : Statuses, to : Statuses]
    \union [type : {"closed"}, reason : Reasons, to : Closed]
    \union [type : {"reopened"}, from : Closed, reason : Reasons \union {None}]
    \union [type : {"assigned", "unassigned"}]

NoRow == [status |-> "open", closure |-> None, assigned |-> FALSE]

TypeOK ==
    /\ row \in [Findings -> Rows]
    /\ events \in [Findings -> Seq(Events)]
    /\ lock \in [Findings -> Requests \union {None}]
    /\ once \in {"fresh", "loading", "done"}
    /\ snapshot \in BOOLEAN
    /\ pc \in [Requests -> {"idle", "look", "begin", "lock", "ensure", "load", "apply"}]
    /\ req \in [Requests -> [f : Findings, act : Actions, read : Rows]]
    /\ sent \in 0..MaxSent
    /\ faults \in 0..MaxFaults

\* A finding is imported open or, by the generic parser, with any status.
Imported == {[NoRow EXCEPT !.status = s] : s \in {"open", "resolved"}}

Init ==
    /\ row \in [Findings -> Imported]
    /\ events = [f \in Findings |-> <<>>]
    /\ lock = [f \in Findings |-> None]
    /\ once = "fresh"
    /\ snapshot = FALSE
    /\ pc = [r \in Requests |-> "idle"]
    /\ req \in [Requests -> {[f |-> f, act |-> [op |-> "unassign", arg |-> "-"], read |-> NoRow]
                                : f \in {CHOOSE f \in Findings : TRUE}}]
    /\ sent = 0
    /\ faults = 0

-----------------------------------------------------------------------------
(* The actions of domain/triage_action.go *)

\* Does ApplyTo accept action a on row x?
Accepts(a, x) ==
    /\ a.op = "close" => a.arg # "invalid"
    /\ a.op = "reopen" => x.status \in Closed

\* Mutant: a closing keeps the reason that is there (COALESCE).
AppliedFirstReason(a, x) ==
    CASE a.op = "set"      -> [x EXCEPT !.status = a.arg]
      [] a.op = "close"    -> [x EXCEPT !.status = Target[a.arg],
                                        !.closure = IF @ = None THEN a.arg ELSE @]
      [] a.op = "reopen"   -> [x EXCEPT !.status = "open", !.closure = None]
      [] a.op = "assign"   -> [x EXCEPT !.assigned = TRUE]
      [] a.op = "unassign" -> [x EXCEPT !.assigned = FALSE]

\* ApplyTo: the row after the action.
Applied(a, x) ==
    CASE a.op = "set"      -> [x EXCEPT !.status = a.arg]
      [] a.op = "close"    -> [x EXCEPT !.status = Target[a.arg], !.closure = a.arg]
      [] a.op = "reopen"   -> [x EXCEPT !.status = "open", !.closure = None]
      [] a.op = "assign"   -> [x EXCEPT !.assigned = TRUE]
      [] a.op = "unassign" -> [x EXCEPT !.assigned = FALSE]

\* Mutant: BuildEvent before ApplyTo, its target still 0 (open).
EventOfUnapplied(a, x) ==
    CASE a.op = "set"      -> [type |-> "status_changed", from |-> "open", to |-> a.arg]
      [] a.op = "close"    -> [type |-> "closed", reason |-> a.arg, to |-> "open"]
      [] a.op = "reopen"   -> [type |-> "reopened", from |-> "open", reason |-> None]
      [] a.op = "assign"   -> [type |-> "assigned"]
      [] a.op = "unassign" -> [type |-> "unassigned"]

\* BuildEvent: the event of action a applied to row x.
EventOf(a, x) ==
    CASE a.op = "set"      -> [type |-> "status_changed", from |-> x.status, to |-> a.arg]
      [] a.op = "close"    -> [type |-> "closed", reason |-> a.arg, to |-> Target[a.arg]]
      [] a.op = "reopen"   -> [type |-> "reopened", from |-> x.status, reason |-> x.closure]
      [] a.op = "assign"   -> [type |-> "assigned"]
      [] a.op = "unassign" -> [type |-> "unassigned"]

-----------------------------------------------------------------------------
(* The transaction *)

InTransaction(r) == pc[r] \in {"lock", "ensure", "load", "apply"}
FreeConn == Cardinality({r \in Requests : InTransaction(r)}) < MaxConns

Goto(r, step) == pc' = [pc EXCEPT ![r] = step]

\* The end of the transaction: the row lock and the connection are given back.
Unlocked(r) == [f \in Findings |-> IF lock[f] = r THEN None ELSE lock[f]]

Submit(r, f, a) ==
    /\ pc[r] = "idle"
    /\ sent < MaxSent
    /\ sent' = sent + 1
    /\ req' = [req EXCEPT ![r] = [f |-> f, act |-> a, read |-> NoRow]]
    /\ Goto(r, IF a.op = "update" THEN "look" ELSE "begin")
    /\ UNCHANGED <<row, events, lock, once, snapshot, faults>>

\* handleUpdateStatus reads the finding outside any transaction and chooses.
Look(r) ==
    /\ pc[r] = "look"
    /\ FreeConn
    /\ req' = [req EXCEPT ![r].act =
          IF row[req[r].f].status \in Closed
          THEN [op |-> "reopen", arg |-> "-"] ELSE [op |-> "set", arg |-> "open"]]
    /\ Goto(r, "begin")
    /\ UNCHANGED <<row, events, lock, once, snapshot, sent, faults>>

Begin(r) ==
    /\ pc[r] = "begin"
    /\ FreeConn
    /\ Goto(r, "lock")
    /\ UNCHANGED <<row, events, lock, once, snapshot, req, sent, faults>>

\* Mutant: SELECT without FOR UPDATE.
ReadUnlocked(r) ==
    /\ pc[r] = "lock"
    /\ req' = [req EXCEPT ![r].read = row[req[r].f]]
    /\ Goto(r, "ensure")
    /\ UNCHANGED <<row, events, lock, once, snapshot, sent, faults>>

\* getForUpdate waits for the row lock, then reads.
Lock(r) ==
    /\ pc[r] = "lock"
    /\ lock[req[r].f] = None
    /\ lock' = [lock EXCEPT ![req[r].f] = r]
    /\ req' = [req EXCEPT ![r].read = row[req[r].f]]
    /\ Goto(r, "ensure")
    /\ UNCHANGED <<row, events, once, snapshot, sent, faults>>

\* Mutant: an early return leaves the transaction open.
AbortKeepsLock(r) == Goto(r, "idle") /\ UNCHANGED lock

\* An error: the deferred Rollback.
Abort(r) == Goto(r, "idle") /\ lock' = Unlocked(r)

\* EnsureLoaded: the first caller loads, the others wait for it in once.Do; when
\* that is done without a snapshot the action is refused.
Ensure(r) ==
    /\ pc[r] = "ensure"
    /\ \/ /\ once = "fresh"
          /\ once' = "loading"
          /\ Goto(r, "load")
          /\ UNCHANGED lock
       \/ /\ once = "done"
          /\ snapshot
          /\ Goto(r, "apply")
          /\ UNCHANGED <<once, lock>>
       \/ /\ once = "done"
          /\ ~snapshot
          /\ Abort(r)
          /\ UNCHANGED once
    /\ UNCHANGED <<row, events, snapshot, req, sent, faults>>

\* reload, on a connection of its own.
Load(r) ==
    /\ pc[r] = "load"
    /\ FreeConn
    /\ snapshot' = TRUE
    /\ once' = "done"
    /\ Goto(r, "apply")
    /\ UNCHANGED <<row, events, lock, req, sent, faults>>

\* It fails, or the client of this request gives up (the query runs in its
\* context): once.Do is over all the same.
LoadFails(r) ==
    /\ pc[r] = "load"
    /\ faults < MaxFaults
    /\ faults' = faults + 1
    /\ once' = "done"
    /\ Abort(r)
    /\ UNCHANGED <<row, events, snapshot, req, sent>>

\* ApplyTo, UPDATE, INSERT of the event and COMMIT; the statements of one
\* transaction under the row lock are one step.  An action that is refused is
\* rolled back.
Apply(r) ==
    /\ pc[r] = "apply"
    /\ LET f == req[r].f  a == req[r].act  x == req[r].read
       IN  \/ /\ Accepts(a, x)
              /\ row' = [row EXCEPT ![f] = Applied(a, x)]
              /\ events' = [events EXCEPT ![f] = Append(@, EventOf(a, x))]
           \/ /\ ~Accepts(a, x)
              /\ UNCHANGED <<row, events>>
    /\ Abort(r)
    /\ UNCHANGED <<once, snapshot, req, sent, faults>>

\* Any other statement fails, or the client gives up; one that waits in once.Do
\* notices only afterwards.
Fail(r) ==
    /\ pc[r] \in {"look", "begin", "lock", "apply"}
    /\ faults < MaxFaults
    /\ faults' = faults + 1
    /\ Abort(r)
    /\ UNCHANGED <<row, events, once, snapshot, req, sent>>

Serve(r) ==
    \/ Look(r) \/ Begin(r) \/ Lock(r) \/ Ensure(r) \/ Load(r) \/ Apply(r)

Next ==
    \E r \in Requests :
        \/ \E f \in Findings, a \in Actions : Submit(r, f, a)
        \/ Serve(r)
        \/ LoadFails(r)
        \/ Fail(r)

Spec == Init /\ [][Next]_vars

\* The goroutines run, PostgreSQL grants the locks and the pool the connections.
FairSpec == Spec /\ \A r \in Requests : WF_vars(Serve(r))

-----------------------------------------------------------------------------
(* Properties *)

\* The row that a history leads to, from the one imported.
Replay(x, e) ==
    CASE e.type = "status_changed" -> [x EXCEPT !.status = e.to]
      [] e.type = "closed"         -> [x EXCEPT !.status = e.to, !.closure = e.reason]
      [] e.type = "reopened"       -> [x EXCEPT !.status = "open", !.closure = None]
      [] e.type = "assigned"       -> [x EXCEPT !.assigned = TRUE]
      [] e.type = "unassigned"     -> [x EXCEPT !.assigned = FALSE]

\* The rows that the events of s, replayed from row x, lead through.
History(x, s) ==
    LET h[i \in 0..Len(s)] == IF i = 0 THEN x ELSE Replay(h[i - 1], s[i])
    IN  h

\* Event e tells the state it started from.
TellsOf(e, x) ==
    /\ e.type \in {"status_changed", "reopened"} => e.from = x.status
    /\ e.type = "reopened" => x.status \in Closed /\ e.reason = x.closure

\* README.md:41, "the complete history of events of every finding": the events
\* replayed from an imported row give the row, whatever actions ran in
\* parallel, failed or were refused; and every event tells the state it really
\* started from.
HistoryReplays ==
    \A f \in Findings : \E x \in Imported :
        LET h == History(x, events[f])
        IN  /\ h[Len(events[f])] = row[f]
            /\ \A i \in 1..Len(events[f]) : TellsOf(events[f][i], h[i - 1])

\* ApplyTriageAction (findings_repo.go): requests that lock, fail, give up and
\* choose from a row they read earlier are, for whoever reads the history, one
\* change of one finding at a time, each with its event (TriageHistory): no event
\* is ever lost, rewritten or out of step with the row.
Ledger == INSTANCE TriageHistory WITH state <- row, history <- events
ImplementsHistory == Ledger!Spec

\* The reason a finding is closed for is one that leads to its status: two
\* closings, or a closing and a reopening, never mix.
ReasonFitsStatus ==
    \A f \in Findings :
        row[f].status \in Closed /\ row[f].closure # None =>
            row[f].status = Target[row[f].closure]

\* Every connection is held by a transaction, and one of them is to load the
\* closure reasons on a further connection.
PoolExhausted == ~FreeConn /\ \E r \in Requests : pc[r] = "load"

\* An open transaction never waits for ever, not for a row lock and not for the
\* closure reasons another one loads, unless the first load finds the pool
\* exhausted: findings_repo.go:1198 loads inside the transaction.
EveryRequestEnds ==
    \A r \in Requests : pc[r] # "idle" ~> (pc[r] = "idle" \/ PoolExhausted)

\* closure_reasons_repo.go:31 and :43: EnsureLoaded ensures the reasons are
\* loaded and an error says they are "not ready", that is not yet.  So a
\* transaction that asks for them when nothing fails any more gets them.
ReasonsGetReady ==
    \A r \in Requests :
        (pc[r] = "ensure" /\ faults = MaxFaults) ~> snapshot
============================================================================
