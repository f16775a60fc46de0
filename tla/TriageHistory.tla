---------------------------- MODULE TriageHistory ----------------------------
(***************************************************************************)
(* What triage promises the reader of a finding's history, whatever the    *)
(* requests that meet on it: it only grows, one event at a time, together  *)
(* with the state of the finding; and an event tells what really happened: *)
(* the state before it is the one it names, or allows, and the state after *)
(* it differs in what it names and in nothing else.                        *)
(***************************************************************************)
EXTENDS Sequences

CONSTANTS
    Findings,
    None,      \* no closure reason
    Target,    \* Target[c]: the status closure reason c leads to
    Imported   \* states a finding starts in

VARIABLES
    state,     \* state[f]: status, closure reason and assignment of f
    history    \* history[f]: the events of f, oldest first

vars == <<state, history>>

Final == {Target[c] : c \in DOMAIN Target}

Init ==
    /\ state \in [Findings -> Imported]
    /\ history = [f \in Findings |-> <<>>]

\* Finding f comes to state y, and e is written down.
Happens(f, e, y) ==
    /\ state' = [state EXCEPT ![f] = y]
    /\ history' = [history EXCEPT ![f] = Append(@, e)]

\* A closed finding may be given an open status directly; it keeps its reason.
Change(f) ==
    \E s \in {"open", "confirmed"} :
        Happens(f, [type |-> "status_changed", from |-> state[f].status, to |-> s],
                [state[f] EXCEPT !.status = s])

\* Closing again, for another reason, is allowed.
Close(f) ==
    \E c \in DOMAIN Target :
        Happens(f, [type |-> "closed", reason |-> c, to |-> Target[c]],
                [state[f] EXCEPT !.status = Target[c], !.closure = c])

Reopen(f) ==
    /\ state[f].status \in Final
    /\ Happens(f, [type |-> "reopened", from |-> state[f].status,
                   reason |-> state[f].closure],
               [state[f] EXCEPT !.status = "open", !.closure = None])

Assign(f) == Happens(f, [type |-> "assigned"], [state[f] EXCEPT !.assigned = TRUE])
Unassign(f) == Happens(f, [type |-> "unassigned"], [state[f] EXCEPT !.assigned = FALSE])

Next ==
    \E f \in Findings : Change(f) \/ Close(f) \/ Reopen(f) \/ Assign(f) \/ Unassign(f)

Spec == Init /\ [][Next]_vars
=============================================================================
