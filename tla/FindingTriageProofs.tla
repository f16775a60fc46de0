------------------------ MODULE FindingTriageProofs ------------------------
(***************************************************************************)
(* For any findings, goroutines, connections and bounds, the safety        *)
(* properties of FindingTriage hold in every reachable state.              *)
(***************************************************************************)
EXTENDS FindingTriage, TLAPS, WellFoundedInduction

\* r is past SELECT FOR UPDATE: it holds the row it read.
Holds(r) == pc[r] \in {"ensure", "load", "apply"}

\* What a transaction read under the row lock stays true until it ends.
LockHeld ==
    \A r \in Requests : Holds(r) =>
        lock[req[r].f] = r /\ req[r].read = row[req[r].f]

\* A row lock belongs to a transaction in progress on that row.
NoLockLeaks ==
    \A f \in Findings, r \in Requests : lock[f] = r => Holds(r) /\ req[r].f = f

\* No two transactions are past SELECT FOR UPDATE on the same row.
RowIsExclusive ==
    /\ \A q, r \in Requests : Holds(q) /\ Holds(r) /\ req[q].f = req[r].f => q = r
    /\ \A r \in Requests : Holds(r) => req[r].read = row[req[r].f]
    /\ NoLockLeaks

\* A transaction is given an action that is no longer to be chosen.
ActionChosen ==
    \A r \in Requests : pc[r] \notin {"idle", "look"} => req[r].act.op # "update"

\* The closure reasons are loaded at most once, by one transaction while every
\* other waits, and are in memory before an action is applied.
LoadedOnce ==
    /\ \A r \in Requests : pc[r] = "load" => once = "loading"
    /\ \A q, r \in Requests : pc[q] = "load" /\ pc[r] = "load" => q = r
    /\ once = "loading" => \E r \in Requests : pc[r] = "load"
    /\ snapshot => once = "done"
    /\ \A r \in Requests : pc[r] = "apply" => snapshot

IInv ==
    /\ TypeOK
    /\ LockHeld /\ NoLockLeaks
    /\ ActionChosen /\ LoadedOnce
    /\ ReasonFitsStatus /\ HistoryReplays

-----------------------------------------------------------------------------
(* Sets of naturals have a least element: the induction the lemmas on         *)
(* histories rest on.                                                         *)
LEMMA LeastElement ==
    ASSUME NEW T \in SUBSET Nat, T # {}
    PROVE  \E m \in T : \A k \in T : m <= k
<1> DEFINE R == {p \in Nat \X Nat : p[1] < p[2]}
<1>1. OpToRel(<, Nat) = R
  BY Zenon DEF OpToRel
<1>2. IsWellFoundedOn(R, Nat)
  BY <1>1, NatLessThanWellFounded, Zenon
<1>3. ASSUME NEW k \in Nat, NEW m \in Nat, k < m
      PROVE  <<k, m>> \in R
  <2>1. <<k, m>> \in Nat \X Nat /\ <<k, m>>[1] < <<k, m>>[2]
    BY <1>3
  <2>. QED  BY <2>1
<1> HIDE DEF R
<1>4. PICK m \in T : \A k \in T : ~ (<<k, m>> \in R)
  BY <1>2, WFMin
<1>5. ASSUME NEW k \in T
      PROVE  m <= k
  <2>1. k \in Nat /\ m \in Nat /\ ~(k < m)
    BY <1>3, <1>4
  <2>. QED  BY <2>1
<1>. QED  BY <1>5

(* The rows a history leads through exist and follow from one another.        *)
LEMMA HistoryDef ==
    ASSUME NEW S, NEW s \in Seq(S), NEW x
    PROVE  History(x, s) = [i \in 0..Len(s) |->
                IF i = 0 THEN x ELSE Replay(History(x, s)[i - 1], s[i])]
<1> DEFINE T == {n \in 0..Len(s) :
                    ~ \E h : h = [i \in 0..n |->
                                     IF i = 0 THEN x ELSE Replay(h[i - 1], s[i])]}
<1>1. T = {}
  <2> SUFFICES ASSUME T # {}
               PROVE  FALSE
    OBVIOUS
  <2>1. PICK m \in T : \A k \in T : m <= k
    <3>1. T \in SUBSET Nat
      OBVIOUS
    <3> HIDE DEF T
    <3>. QED  BY <3>1, LeastElement
  <2>2. m # 0
    <3> DEFINE h == [i \in 0..0 |-> x]
    <3>1. h = [i \in 0..0 |-> IF i = 0 THEN x ELSE Replay(h[i - 1], s[i])]
      OBVIOUS
    <3>. QED  BY <3>1
  <2>3. m - 1 \in 0..Len(s) /\ m - 1 \notin T
    <3>1. m \in 0..Len(s) /\ Len(s) \in Nat
      OBVIOUS
    <3> HIDE DEF T
    <3>. QED  BY <2>1, <2>2, <3>1
  <2>4. PICK g : g = [i \in 0..(m - 1) |-> IF i = 0 THEN x ELSE Replay(g[i - 1], s[i])]
    BY <2>3
  <2> DEFINE h == [i \in 0..m |-> IF i < m THEN g[i] ELSE Replay(g[m - 1], s[m])]
  <2>5. h = [i \in 0..m |-> IF i = 0 THEN x ELSE Replay(h[i - 1], s[i])]
    <3>1. ASSUME NEW i \in 0..m
          PROVE  h[i] = IF i = 0 THEN x ELSE Replay(h[i - 1], s[i])
      <4>1. CASE i = m
        BY <2>2, <4>1
      <4>2. CASE i < m
        BY <2>2, <2>4, <4>2
      <4>. QED  BY <4>1, <4>2
    <3>. QED  BY <3>1
  <2>. QED  BY <2>5
<1>2. \E h : h = [i \in 0..Len(s) |-> IF i = 0 THEN x ELSE Replay(h[i - 1], s[i])]
  <2>1. Len(s) \in 0..Len(s)
    OBVIOUS
  <2>. QED  BY <1>1, <2>1
<1>. QED  BY <1>2 DEF History

(* One more event leads one step further and changes nothing before.          *)
LEMMA HistoryAppend ==
    ASSUME NEW S, NEW s \in Seq(S), NEW e \in S, NEW x
    PROVE  /\ \A i \in 0..Len(s) : History(x, Append(s, e))[i] = History(x, s)[i]
           /\ History(x, Append(s, e))[Len(s) + 1] = Replay(History(x, s)[Len(s)], e)
<1> DEFINE t == Append(s, e)
           h == History(x, s)
           g == History(x, t)
<1>1. /\ t \in Seq(S) /\ Len(t) = Len(s) + 1 /\ Len(s) \in Nat
      /\ \A i \in 1..Len(s) : t[i] = s[i]
      /\ t[Len(s) + 1] = e
  OBVIOUS
<1>2. /\ \A i \in 0..Len(s) : h[i] = IF i = 0 THEN x ELSE Replay(h[i - 1], s[i])
      /\ \A i \in 0..Len(t) : g[i] = IF i = 0 THEN x ELSE Replay(g[i - 1], t[i])
  <2>1. h = [i \in 0..Len(s) |-> IF i = 0 THEN x ELSE Replay(h[i - 1], s[i])]
    BY HistoryDef
  <2>2. g = [i \in 0..Len(t) |-> IF i = 0 THEN x ELSE Replay(g[i - 1], t[i])]
    BY <1>1, HistoryDef
  <2> HIDE DEF g, h, t
  <2>. QED  BY <2>1, <2>2
<1> HIDE DEF g, h, t
<1> DEFINE D == {i \in 0..Len(s) : g[i] # h[i]}
<1>3. D = {}
  <2> SUFFICES ASSUME D # {}
               PROVE  FALSE
    OBVIOUS
  <2>1. PICK m \in D : \A k \in D : m <= k
    <3>1. D \in SUBSET Nat
      OBVIOUS
    <3> HIDE DEF D
    <3>. QED  BY <3>1, LeastElement
  <2>2. m # 0
    BY <1>1, <1>2
  <2>3. m \in 1..Len(s) /\ m - 1 \in 0..Len(s) /\ m - 1 \notin D
    <3>1. m \in 0..Len(s)
      OBVIOUS
    <3> HIDE DEF D
    <3>. QED  BY <1>1, <2>1, <2>2, <3>1
  <2>4. g[m - 1] = h[m - 1]
    BY <2>3
  <2>5. g[m] = Replay(g[m - 1], t[m]) /\ h[m] = Replay(h[m - 1], s[m]) /\ t[m] = s[m]
    BY <1>1, <1>2, <2>2, <2>3
  <2>. QED  BY <2>4, <2>5
<1>4. g[Len(s) + 1] = Replay(g[Len(s)], e)
  BY <1>1, <1>2
<1>5. \A i \in 0..Len(s) : g[i] = h[i]
  BY <1>3
<1>. QED  BY <1>1, <1>4, <1>5 DEF g, h, t

-----------------------------------------------------------------------------
(* Each reason leads to a closed status.                                      *)
LEMMA TargetClosed ==
    /\ Reasons = {"false_positive", "mitigated", "acceptable_risk"}
    /\ \A c \in Reasons : Target[c] \in Closed
<1>1. DOMAIN Target = {"false_positive", "mitigated", "acceptable_risk"}
  BY DEF Target
<1>2. Target["false_positive"] = "fp" /\ Target["mitigated"] = "resolved"
      /\ Target["acceptable_risk"] = "accepted"
  BY DEF Target
<1>. QED  BY <1>1, <1>2 DEF Reasons, Closed

(* Each action a transaction is given is of one of these forms.               *)
LEMMA ActionForms ==
    ASSUME NEW a \in Actions, a.op # "update"
    PROVE  \/ a.op = "set" /\ a.arg \in {"open", "confirmed"}
           \/ a.op = "close" /\ a.arg \in Reasons \union {"invalid"}
           \/ a.op = "reopen"
           \/ a.op = "assign"
           \/ a.op = "unassign"
  BY DEF Actions

(* What an accepted action makes of a row is what replaying its event makes,  *)
(* and the event tells the row it started from.                               *)
LEMMA ActionAndEvent ==
    ASSUME NEW a \in Actions, a.op # "update", NEW x \in Rows, Accepts(a, x)
    PROVE  /\ Applied(a, x) \in Rows
           /\ EventOf(a, x) \in Events
           /\ Replay(x, EventOf(a, x)) = Applied(a, x)
           /\ TellsOf(EventOf(a, x), x)
<1> DEFINE e == EventOf(a, x)
<1>1. CASE a.op = "set"
  <2>1. a.arg \in {"open", "confirmed"}
    BY <1>1, ActionForms
  <2>2. e = [type |-> "status_changed", from |-> x.status, to |-> a.arg]
    BY <1>1 DEF EventOf
  <2>3. Applied(a, x) = [x EXCEPT !.status = a.arg]
    BY <1>1 DEF Applied
  <2>4. e \in Events /\ TellsOf(e, x)
    BY <2>1, <2>2 DEF Events, Rows, Statuses, TellsOf
  <2>5. Applied(a, x) \in Rows
    BY <2>1, <2>3 DEF Rows, Statuses
  <2>6. Replay(x, e) = [x EXCEPT !.status = a.arg]
    BY <2>2 DEF Replay
  <2>. QED  BY <2>3, <2>4, <2>5, <2>6
<1>2. CASE a.op = "close"
  <2>1. a.arg \in Reasons /\ Target[a.arg] \in Closed
    BY <1>2, ActionForms, TargetClosed DEF Accepts
  <2>2. e = [type |-> "closed", reason |-> a.arg, to |-> Target[a.arg]]
    BY <1>2 DEF EventOf
  <2>3. Applied(a, x) = [x EXCEPT !.status = Target[a.arg], !.closure = a.arg]
    BY <1>2 DEF Applied
  <2>4. e \in Events /\ TellsOf(e, x)
    BY <2>1, <2>2 DEF Events, TellsOf
  <2>5. Applied(a, x) \in Rows
    BY <2>1, <2>3 DEF Rows, Statuses
  <2>6. Replay(x, e) = [x EXCEPT !.status = Target[a.arg], !.closure = a.arg]
    BY <2>2 DEF Replay
  <2>. QED  BY <2>3, <2>4, <2>5, <2>6
<1>3. CASE a.op = "reopen"
  <2>1. x.status \in Closed
    BY <1>3 DEF Accepts
  <2>2. e = [type |-> "reopened", from |-> x.status, reason |-> x.closure]
    BY <1>3 DEF EventOf
  <2>3. Applied(a, x) = [x EXCEPT !.status = "open", !.closure = None]
    BY <1>3 DEF Applied
  <2>4. e \in Events /\ TellsOf(e, x)
    BY <2>1, <2>2 DEF Events, Rows, TellsOf
  <2>5. Applied(a, x) \in Rows
    BY <2>3 DEF Rows, Statuses
  <2>6. Replay(x, e) = [x EXCEPT !.status = "open", !.closure = None]
    BY <2>2 DEF Replay
  <2>. QED  BY <2>3, <2>4, <2>5, <2>6
<1>4. CASE a.op \in {"assign", "unassign"}
  <2>1. PICK b \in BOOLEAN, t \in {"assigned", "unassigned"} :
          e = [type |-> t] /\ Applied(a, x) = [x EXCEPT !.assigned = b]
          /\ Replay(x, e) = [x EXCEPT !.assigned = b]
    BY <1>4, Zenon DEF EventOf, Applied, Replay
  <2>2. e \in Events /\ TellsOf(e, x)
    BY <2>1 DEF Events, TellsOf
  <2>3. Applied(a, x) \in Rows
    BY <2>1 DEF Rows
  <2>. QED  BY <2>1, <2>2, <2>3
<1>. QED  BY <1>1, <1>2, <1>3, <1>4, ActionForms

(* An action that is accepted keeps the closure reason and the status in step. *)
LEMMA ActionKeepsReason ==
    ASSUME NEW a \in Actions, a.op # "update", NEW x \in Rows, Accepts(a, x),
           x.status \in Closed /\ x.closure # None => x.status = Target[x.closure],
           Applied(a, x).status \in Closed, Applied(a, x).closure # None
    PROVE  Applied(a, x).status = Target[Applied(a, x).closure]
<1>1. CASE a.op = "set"
  BY <1>1, ActionForms DEF Applied, Rows, Closed
<1>2. CASE a.op = "close"
  <2>1. Applied(a, x) = [x EXCEPT !.status = Target[a.arg], !.closure = a.arg]
    BY <1>2 DEF Applied
  <2>. QED  BY <2>1 DEF Rows
<1>3. CASE a.op = "reopen"
  BY <1>3 DEF Applied, Rows, Closed
<1>4. CASE a.op \in {"assign", "unassign"}
  <2>1. PICK b \in BOOLEAN : Applied(a, x) = [x EXCEPT !.assigned = b]
    BY <1>4, Zenon DEF Applied
  <2>. QED  BY <2>1 DEF Rows
<1>. QED  BY <1>1, <1>2, <1>3, <1>4, ActionForms

-----------------------------------------------------------------------------
(* A request that goes on, or gives up and releases what it locked.           *)
LEMMA GotoType ==
    ASSUME TypeOK, NEW r \in Requests,
           NEW step \in {"idle", "look", "begin", "lock", "ensure", "load", "apply"},
           Goto(r, step)
    PROVE  /\ pc' \in [Requests -> {"idle", "look", "begin", "lock", "ensure", "load", "apply"}]
           /\ \A q \in Requests : pc'[q] = IF q = r THEN step ELSE pc[q]
  BY DEF Goto, TypeOK

LEMMA AbortType ==
    ASSUME TypeOK, NEW r \in Requests, Abort(r)
    PROVE  /\ pc' \in [Requests -> {"idle", "look", "begin", "lock", "ensure", "load", "apply"}]
           /\ \A q \in Requests : pc'[q] = IF q = r THEN "idle" ELSE pc[q]
           /\ lock' \in [Findings -> Requests \union {None}]
           /\ \A f \in Findings : lock'[f] = IF lock[f] = r THEN None ELSE lock[f]
  BY GotoType DEF Abort, Unlocked, TypeOK

LEMMA TypeInit == Init => TypeOK
<1> SUFFICES ASSUME Init
             PROVE  TypeOK
  OBVIOUS
<1>1. PICK b \in BOOLEAN : b = FALSE
  OBVIOUS
<1>2. NoRow = [status |-> "open", closure |-> None, assigned |-> b]
  BY <1>1, Zenon DEF NoRow
<1>3. NoRow \in Rows /\ \A x \in Imported : x \in Rows
  BY <1>2 DEF Rows, Statuses, Closed, Imported
<1>4. row \in [Findings -> Rows] /\ events \in [Findings -> Seq(Events)]
  BY <1>3 DEF Init
<1>5. req \in [Requests -> [f : Findings, act : Actions, read : Rows]]
  <2>1. [op |-> "unassign", arg |-> "-"] \in Actions
    BY DEF Actions
  <2>2. PICK g \in Findings : g = CHOOSE f \in Findings : TRUE
    BY TriageAssumption DEF TriageAssumption
  <2>. QED  BY <1>3, <2>1, <2>2 DEF Init
<1>6. lock \in [Findings -> Requests \union {None}] /\ once \in {"fresh", "loading", "done"}
  BY DEF Init
<1>7. pc \in [Requests -> {"idle", "look", "begin", "lock", "ensure", "load", "apply"}]
  BY DEF Init
<1>8. sent \in 0..MaxSent /\ faults \in 0..MaxFaults
  BY TriageAssumption DEF Init, TriageAssumption
<1>. QED  BY <1>4, <1>5, <1>6, <1>7, <1>8 DEF Init, TypeOK

(* Every step keeps the types; an action is applied only to a row read, and   *)
(* never while it is still to be chosen.                                      *)
LEMMA TypeStep ==
    ASSUME TypeOK, ActionChosen, [Next]_vars
    PROVE  TypeOK'
<1> USE DEF TypeOK
<1>1. ASSUME NEW r \in Requests, NEW f \in Findings, NEW a \in Actions, Submit(r, f, a)
      PROVE  TypeOK'
  <2>1. Goto(r, IF a.op = "update" THEN "look" ELSE "begin")
    BY <1>1 DEF Submit
  <2>2. pc' \in [Requests -> {"idle", "look", "begin", "lock", "ensure", "load", "apply"}]
    BY <2>1 DEF Goto
  <2>3. NoRow \in Rows
    <3>1. PICK b \in BOOLEAN : b = FALSE
      OBVIOUS
    <3>2. NoRow = [status |-> "open", closure |-> None, assigned |-> b]
      BY <3>1, Zenon DEF NoRow
    <3>. QED  BY <3>2 DEF Rows, Statuses
  <2>4. req' \in [Requests -> [f : Findings, act : Actions, read : Rows]]
    BY <1>1, <2>3, ZenonT(60) DEF Submit
  <2>5. sent' \in 0..MaxSent
    BY <1>1, TriageAssumption DEF Submit, TriageAssumption
  <2>. QED  BY <1>1, <2>2, <2>4, <2>5 DEF Submit
<1>2. ASSUME NEW r \in Requests, Look(r)
      PROVE  TypeOK'
  <2>1. pc' \in [Requests -> {"idle", "look", "begin", "lock", "ensure", "load", "apply"}]
    BY <1>2, GotoType DEF Look
  <2>2. /\ [op |-> "reopen", arg |-> "-"] \in Actions
        /\ [op |-> "set", arg |-> "open"] \in Actions
    BY DEF Actions
  <2>3. req' \in [Requests -> [f : Findings, act : Actions, read : Rows]]
    BY <1>2, <2>2, ZenonT(60) DEF Look
  <2>. QED  BY <1>2, <2>1, <2>3 DEF Look
<1>3. ASSUME NEW r \in Requests, Begin(r)
      PROVE  TypeOK'
  BY <1>3, GotoType DEF Begin
<1>4. ASSUME NEW r \in Requests, Lock(r)
      PROVE  TypeOK'
  <2>1. pc' \in [Requests -> {"idle", "look", "begin", "lock", "ensure", "load", "apply"}]
    BY <1>4, GotoType DEF Lock
  <2>2. req[r].f \in Findings /\ row[req[r].f] \in Rows
    OBVIOUS
  <2>3. req' \in [Requests -> [f : Findings, act : Actions, read : Rows]]
    BY <1>4, <2>2 DEF Lock
  <2>4. lock' \in [Findings -> Requests \union {None}]
    BY <1>4, <2>2 DEF Lock
  <2>. QED  BY <1>4, <2>1, <2>3, <2>4 DEF Lock
<1>5. ASSUME NEW r \in Requests, Ensure(r)
      PROVE  TypeOK'
  BY <1>5, GotoType, AbortType DEF Ensure
<1>6. ASSUME NEW r \in Requests, Load(r)
      PROVE  TypeOK'
  BY <1>6, GotoType DEF Load
<1>7. ASSUME NEW r \in Requests, LoadFails(r) \/ Fail(r)
      PROVE  TypeOK'
  BY <1>7, AbortType, TriageAssumption DEF LoadFails, Fail, TriageAssumption
<1>8. ASSUME NEW r \in Requests, Apply(r)
      PROVE  TypeOK'
  <2>1. /\ pc' \in [Requests -> {"idle", "look", "begin", "lock", "ensure", "load", "apply"}]
        /\ lock' \in [Findings -> Requests \union {None}]
    BY <1>8, AbortType DEF Apply
  <2>2. /\ req[r].f \in Findings /\ req[r].act \in Actions /\ req[r].read \in Rows
        /\ req[r].act.op # "update"
    BY <1>8 DEF Apply, ActionChosen
  <2>3. CASE UNCHANGED <<row, events>>
    BY <1>8, <2>1, <2>3 DEF Apply
  <2>4. CASE /\ Accepts(req[r].act, req[r].read)
             /\ row' = [row EXCEPT ![req[r].f] = Applied(req[r].act, req[r].read)]
             /\ events' = [events EXCEPT ![req[r].f] =
                              Append(@, EventOf(req[r].act, req[r].read))]
    <3>1. /\ Applied(req[r].act, req[r].read) \in Rows
          /\ EventOf(req[r].act, req[r].read) \in Events
      BY <2>2, <2>4, ActionAndEvent
    <3>2. row' \in [Findings -> Rows] /\ events' \in [Findings -> Seq(Events)]
      BY <2>4, <3>1
    <3>. QED  BY <1>8, <2>1, <3>2 DEF Apply
  <2>. QED  BY <1>8, <2>3, <2>4 DEF Apply
<1>9. CASE UNCHANGED vars
  BY <1>9 DEF vars
<1>. QED  BY <1>1, <1>2, <1>3, <1>4, <1>5, <1>6, <1>7, <1>8, <1>9 DEF Next, Serve

-----------------------------------------------------------------------------
(* Only Submit, Look and Lock write a request, and only its own.              *)
LEMMA RequestStays ==
    ASSUME TypeOK, [Next]_vars, NEW r \in Requests
    PROVE  \/ UNCHANGED <<pc[r], req[r]>>
           \/ pc[r] = "idle" /\ pc'[r] \in {"look", "begin"}
              /\ (req'[r].act.op = "update" => pc'[r] = "look")
           \/ pc[r] = "look" /\ pc'[r] = "begin" /\ req'[r].act.op # "update"
           \/ pc[r] = "begin" /\ pc'[r] = "lock" /\ UNCHANGED req[r]
           \/ pc[r] = "lock" /\ pc'[r] = "ensure" /\ Lock(r)
           \/ Holds(r) /\ pc[r] # pc'[r] /\ pc'[r] \in {"load", "apply"} /\ UNCHANGED req[r]
           \/ pc'[r] = "idle" /\ UNCHANGED req[r]
<1> USE DEF TypeOK
<1>1. ASSUME NEW q \in Requests, NEW f \in Findings, NEW a \in Actions, Submit(q, f, a)
      PROVE  \/ UNCHANGED <<pc[r], req[r]>>
             \/ pc[r] = "idle" /\ pc'[r] \in {"look", "begin"}
                /\ (req'[r].act.op = "update" => pc'[r] = "look")
  BY <1>1 DEF Submit, Goto
<1>2. ASSUME NEW q \in Requests, Look(q)
      PROVE  \/ UNCHANGED <<pc[r], req[r]>>
             \/ pc[r] = "look" /\ pc'[r] = "begin" /\ req'[r].act.op # "update"
  BY <1>2 DEF Look, Goto
<1>3. ASSUME NEW q \in Requests, Begin(q)
      PROVE  \/ UNCHANGED <<pc[r], req[r]>>
             \/ pc[r] = "begin" /\ pc'[r] = "lock" /\ UNCHANGED req[r]
  BY <1>3 DEF Begin, Goto
<1>4. ASSUME NEW q \in Requests, Lock(q)
      PROVE  \/ UNCHANGED <<pc[r], req[r]>>
             \/ pc[r] = "lock" /\ pc'[r] = "ensure" /\ Lock(r)
  BY <1>4 DEF Lock, Goto
<1>5. ASSUME NEW q \in Requests, Ensure(q) \/ Load(q) \/ Apply(q) \/ LoadFails(q) \/ Fail(q)
      PROVE  \/ UNCHANGED <<pc[r], req[r]>>
             \/ Holds(r) /\ pc[r] # pc'[r] /\ pc'[r] \in {"load", "apply"} /\ UNCHANGED req[r]
             \/ pc'[r] = "idle" /\ UNCHANGED req[r]
  BY <1>5 DEF Ensure, Load, Apply, LoadFails, Fail, Goto, Abort, Holds
<1>6. CASE UNCHANGED vars
  BY <1>6 DEF vars
<1>. QED  BY <1>1, <1>2, <1>3, <1>4, <1>5, <1>6 DEF Next, Serve

LEMMA ChosenStep ==
    ASSUME TypeOK, ActionChosen, [Next]_vars
    PROVE  ActionChosen'
<1> SUFFICES ASSUME NEW r \in Requests, pc'[r] \notin {"idle", "look"}
             PROVE  req'[r].act.op # "update"
  BY DEF ActionChosen
<1>1. CASE Lock(r)
  <2>1. req'[r].act = req[r].act /\ pc[r] = "lock"
    BY <1>1 DEF Lock, TypeOK
  <2>. QED  BY <2>1 DEF ActionChosen
<1>2. CASE UNCHANGED req[r] /\ pc[r] \notin {"idle", "look"}
  BY <1>2 DEF ActionChosen
<1>. QED  BY <1>1, <1>2, RequestStays DEF Holds

(* A row lock is taken when free and given back at the end.                   *)
LEMMA LockMoves ==
    ASSUME TypeOK, [Next]_vars, NEW f \in Findings
    PROVE  \/ UNCHANGED lock[f]
           \/ \E r \in Requests :
                 /\ Lock(r) /\ req[r].f = f
                 /\ lock[f] = None /\ lock'[f] = r
           \/ /\ lock[f] \in Requests /\ pc'[lock[f]] = "idle"
              /\ lock'[f] = None
<1> USE DEF TypeOK
<1>1. ASSUME NEW r \in Requests, Abort(r)
      PROVE  \/ UNCHANGED lock[f]
             \/ lock[f] \in Requests /\ pc'[lock[f]] = "idle" /\ lock'[f] = None
  BY <1>1, AbortType
<1>2. ASSUME NEW r \in Requests, Lock(r)
      PROVE  UNCHANGED lock[f] \/ (req[r].f = f /\ lock[f] = None /\ lock'[f] = r)
  BY <1>2 DEF Lock
<1>3. \/ UNCHANGED lock
      \/ \E r \in Requests : Abort(r) \/ Lock(r)
  BY DEF Next, Serve, vars, Submit, Look, Begin, Ensure, Load, LoadFails, Apply, Fail
<1>. QED  BY <1>1, <1>2, <1>3

(* A row and its history change together, by the COMMIT of a transaction.     *)
LEMMA RowMoves ==
    ASSUME TypeOK, [Next]_vars, NEW f \in Findings
    PROVE  \/ UNCHANGED <<row[f], events[f]>>
           \/ \E r \in Requests :
                 /\ Apply(r) /\ req[r].f = f /\ pc'[r] = "idle"
                 /\ Accepts(req[r].act, req[r].read)
                 /\ row'[f] = Applied(req[r].act, req[r].read)
                 /\ events'[f] = Append(events[f], EventOf(req[r].act, req[r].read))
<1> USE DEF TypeOK
<1>1. ASSUME NEW r \in Requests, Apply(r)
      PROVE  \/ UNCHANGED <<row[f], events[f]>>
             \/ /\ req[r].f = f /\ pc'[r] = "idle"
                /\ Accepts(req[r].act, req[r].read)
                /\ row'[f] = Applied(req[r].act, req[r].read)
                /\ events'[f] = Append(events[f], EventOf(req[r].act, req[r].read))
  <2>1. pc'[r] = "idle"
    BY <1>1, AbortType DEF Apply
  <2>. QED  BY <1>1, <2>1 DEF Apply
<1>2. \/ UNCHANGED <<row, events>>
      \/ \E r \in Requests : Apply(r)
  BY DEF Next, Serve, vars, Submit, Look, Begin, Lock, Ensure, Load, LoadFails, Fail
<1>. QED  BY <1>1, <1>2

LEMMA LockStep ==
    ASSUME TypeOK, LockHeld, NoLockLeaks, [Next]_vars
    PROVE  LockHeld' /\ NoLockLeaks'
<1>1. ASSUME NEW r \in Requests, Holds(r)'
      PROVE  (lock[req[r].f] = r /\ req[r].read = row[req[r].f])'
  <2>1. CASE Lock(r)
    <3>1. /\ req[r].f \in Findings /\ req'[r].f = req[r].f
          /\ req'[r].read = row[req[r].f] /\ UNCHANGED row
          /\ lock'[req[r].f] = r
      BY <2>1 DEF Lock, TypeOK
    <3>. QED  BY <3>1
  <2>2. CASE Holds(r) /\ UNCHANGED req[r]
    <3>1. PICK f \in Findings : f = req[r].f /\ lock[f] = r /\ req[r].read = row[f]
      BY <2>2 DEF LockHeld, TypeOK
    <3>2. pc'[r] # "idle" /\ r # None
      BY <1>1, TriageAssumption DEF Holds, TriageAssumption
    <3>3. lock'[f] = r
      BY <3>1, <3>2, LockMoves
    <3>4. ASSUME NEW q \in Requests, Apply(q), req[q].f = f, pc'[q] = "idle"
          PROVE  FALSE
      BY <3>1, <3>2, <3>4 DEF LockHeld, Holds, Apply
    <3>5. UNCHANGED row[f]
      BY <3>4, RowMoves
    <3>. QED  BY <2>2, <3>1, <3>3, <3>5
  <2>. QED  BY <1>1, <2>1, <2>2, RequestStays DEF Holds
<1>2. ASSUME NEW f \in Findings, NEW r \in Requests, lock'[f] = r
      PROVE  Holds(r)' /\ req'[r].f = f
  <2>1. r # None
    BY TriageAssumption DEF TriageAssumption
  <2>2. CASE Lock(r) /\ req[r].f = f
    BY <2>2, GotoType DEF Lock, Holds, TypeOK
  <2>3. CASE UNCHANGED lock[f]
    <3>1. Holds(r) /\ req[r].f = f /\ lock[f] = r
      BY <1>2, <2>3 DEF NoLockLeaks
    <3>2. pc'[r] # "idle"
      <4>1. ASSUME Abort(r)
            PROVE  FALSE
        BY <1>2, <2>1, <4>1, AbortType
      <4>2. ASSUME pc'[r] = "idle"
            PROVE  Abort(r)
        <5>1. pc[r] # "idle"
          BY <3>1 DEF Holds
        <5>. QED
          BY <4>2, <5>1 DEF Next, Serve, vars, Submit, Look, Begin, Lock, Ensure, Load,
                            LoadFails, Apply, Fail, Abort, Goto, TypeOK
      <4>. QED  BY <4>1, <4>2
    <3>. QED  BY <3>1, <3>2, RequestStays DEF Holds
  <2>. QED  BY <1>2, <2>1, <2>2, <2>3, LockMoves
<1>. QED  BY <1>1, <1>2 DEF LockHeld, NoLockLeaks

(* sync.Once: one caller loads, every other one waits for it.                 *)
LEMMA LoadedStep ==
    ASSUME TypeOK, LoadedOnce, [Next]_vars
    PROVE  LoadedOnce'
<1> USE DEF TypeOK, LoadedOnce
<1>1. ASSUME UNCHANGED <<once, snapshot>>,
             \A r \in Requests : pc'[r] \in {"load", "apply"} => pc'[r] = pc[r],
             \A r \in Requests : pc[r] = "load" => pc'[r] = "load"
      PROVE  LoadedOnce'
  BY <1>1
<1>2. ASSUME NEW r \in Requests, NEW f \in Findings, NEW a \in Actions, Submit(r, f, a)
      PROVE  LoadedOnce'
  BY <1>1, <1>2 DEF Submit, Goto
<1>3. ASSUME NEW r \in Requests, Look(r) \/ Begin(r) \/ Lock(r)
      PROVE  LoadedOnce'
  BY <1>1, <1>3 DEF Look, Begin, Lock, Goto
<1>4. ASSUME NEW r \in Requests, Apply(r) \/ Fail(r)
      PROVE  LoadedOnce'
  BY <1>1, <1>4 DEF Apply, Fail, Abort, Goto
<1>5. ASSUME NEW r \in Requests, Ensure(r)
      PROVE  LoadedOnce'
  <2>1. CASE once = "fresh" /\ once' = "loading" /\ Goto(r, "load")
    BY <1>5, <2>1 DEF Ensure, Goto
  <2>2. CASE once = "done" /\ snapshot /\ Goto(r, "apply") /\ UNCHANGED once
    BY <1>5, <2>2 DEF Ensure, Goto
  <2>3. CASE Abort(r) /\ UNCHANGED once
    BY <1>1, <1>5, <2>3 DEF Ensure, Abort, Goto
  <2>. QED  BY <1>5, <2>1, <2>2, <2>3 DEF Ensure
<1>6. ASSUME NEW r \in Requests, Load(r)
      PROVE  LoadedOnce'
  BY <1>6 DEF Load, Goto
<1>7. ASSUME NEW r \in Requests, LoadFails(r)
      PROVE  LoadedOnce'
  BY <1>7 DEF LoadFails, Abort, Goto
<1>8. CASE UNCHANGED vars
  BY <1>1, <1>8 DEF vars
<1>. QED  BY <1>2, <1>3, <1>4, <1>5, <1>6, <1>7, <1>8 DEF Next, Serve

-----------------------------------------------------------------------------
(* A transaction applies its action to the row as it is.                      *)
LEMMA AppliedToRow ==
    ASSUME TypeOK, LockHeld, ActionChosen, NEW r \in Requests, Apply(r)
    PROVE  /\ req[r].act \in Actions /\ req[r].act.op # "update"
           /\ req[r].f \in Findings
           /\ req[r].read = row[req[r].f] /\ row[req[r].f] \in Rows
  BY DEF Apply, LockHeld, Holds, ActionChosen, TypeOK

LEMMA ReasonStep ==
    ASSUME TypeOK, LockHeld, ActionChosen, ReasonFitsStatus, [Next]_vars
    PROVE  ReasonFitsStatus'
<1> SUFFICES ASSUME NEW f \in Findings, row'[f].status \in Closed, row'[f].closure # None
             PROVE  row'[f].status = Target[row'[f].closure]
  BY DEF ReasonFitsStatus
<1>1. CASE UNCHANGED row[f]
  BY <1>1 DEF ReasonFitsStatus
<1>2. CASE ~UNCHANGED row[f]
  <2>1. PICK r \in Requests :
          /\ Apply(r) /\ req[r].f = f
          /\ Accepts(req[r].act, req[r].read)
          /\ row'[f] = Applied(req[r].act, req[r].read)
    BY <1>2, RowMoves
  <2>2. /\ req[r].act \in Actions /\ req[r].act.op # "update"
        /\ req[r].read = row[f] /\ row[f] \in Rows
    BY <2>1, AppliedToRow
  <2>3. row[f].status \in Closed /\ row[f].closure # None =>
            row[f].status = Target[row[f].closure]
    BY DEF ReasonFitsStatus
  <2>. QED  BY <2>1, <2>2, <2>3, ActionKeepsReason
<1>. QED  BY <1>1, <1>2

(* The event a transaction adds leads from the old row to the new one.        *)
LEMMA HistoryStep ==
    ASSUME TypeOK, LockHeld, ActionChosen, HistoryReplays, [Next]_vars
    PROVE  HistoryReplays'
<1> SUFFICES ASSUME NEW f \in Findings
             PROVE  \E x \in Imported :
                      /\ History(x, events'[f])[Len(events'[f])] = row'[f]
                      /\ \A i \in 1..Len(events'[f]) :
                            TellsOf(events'[f][i], History(x, events'[f])[i - 1])
  BY DEF HistoryReplays
<1> DEFINE s == events[f]
<1>1. s \in Seq(Events) /\ Len(s) \in Nat
  BY DEF TypeOK
<1>2. PICK x \in Imported :
        /\ History(x, s)[Len(s)] = row[f]
        /\ \A i \in 1..Len(s) : TellsOf(s[i], History(x, s)[i - 1])
  BY DEF HistoryReplays
<1>3. CASE UNCHANGED <<row[f], events[f]>>
  BY <1>2, <1>3
<1>4. ASSUME NEW r \in Requests,
             Apply(r), req[r].f = f, Accepts(req[r].act, req[r].read),
             row'[f] = Applied(req[r].act, req[r].read),
             events'[f] = Append(events[f], EventOf(req[r].act, req[r].read))
      PROVE  /\ History(x, events'[f])[Len(events'[f])] = row'[f]
             /\ \A i \in 1..Len(events'[f]) :
                   TellsOf(events'[f][i], History(x, events'[f])[i - 1])
  <2> DEFINE e == EventOf(req[r].act, req[r].read)
             t == events'[f]
  <2>1. /\ req[r].act \in Actions /\ req[r].act.op # "update"
        /\ req[r].read = row[f] /\ row[f] \in Rows
    BY <1>4, AppliedToRow
  <2>2. e \in Events /\ Replay(row[f], e) = row'[f] /\ TellsOf(e, row[f])
    BY <1>4, <2>1, ActionAndEvent
  <2>3. /\ t = Append(s, e) /\ Len(t) = Len(s) + 1 /\ t[Len(s) + 1] = e
        /\ \A i \in 1..Len(s) : t[i] = s[i]
    BY <1>1, <1>4, <2>2
  <2> HIDE DEF e, s
  <2>4. /\ \A i \in 0..Len(s) : History(x, t)[i] = History(x, s)[i]
        /\ History(x, t)[Len(s) + 1] = Replay(History(x, s)[Len(s)], e)
    BY <1>1, <2>2, <2>3, HistoryAppend
  <2> HIDE DEF t
  <2>5. History(x, t)[Len(t)] = row'[f]
    BY <1>2, <2>2, <2>3, <2>4
  <2>6. ASSUME NEW i \in 1..Len(t)
        PROVE  TellsOf(t[i], History(x, t)[i - 1])
    <3>1. CASE i = Len(s) + 1
      <4>1. t[i] = e /\ History(x, t)[i - 1] = row[f]
        BY <1>1, <1>2, <2>3, <2>4, <3>1
      <4>. QED  BY <2>2, <4>1
    <3>2. CASE i # Len(s) + 1
      <4>1. i \in 1..Len(s) /\ i - 1 \in 0..Len(s)
        BY <1>1, <2>3, <3>2
      <4>. QED  BY <1>2, <2>3, <2>4, <4>1
    <3>. QED  BY <3>1, <3>2
  <2>. QED  BY <2>5, <2>6 DEF t
<1>. QED  BY <1>3, <1>4, RowMoves

-----------------------------------------------------------------------------
(***************************************************************************)
(* The inductive invariant: the row lock makes what a transaction read     *)
(* stay true until it commits, which is what both properties rest on.      *)
(***************************************************************************)
THEOREM Invariance == Spec => []IInv
<1>1. Init => IInv
  <2> SUFFICES ASSUME Init
               PROVE  IInv
    OBVIOUS
  <2>1. LockHeld /\ ActionChosen
    BY DEF Init, LockHeld, ActionChosen, Holds
  <2>2. NoLockLeaks
    BY TriageAssumption DEF Init, NoLockLeaks, TriageAssumption
  <2>3. LoadedOnce
    BY DEF Init, LoadedOnce
  <2>4. ReasonFitsStatus
    <3>1. NoRow.closure = None
      BY DEF NoRow
    <3>2. \A f \in Findings : row[f].closure = None
      BY <3>1 DEF Init, Imported, NoRow
    <3>. QED  BY <3>2 DEF ReasonFitsStatus
  <2>5. HistoryReplays
    <3>1. ASSUME NEW f \in Findings
          PROVE  /\ row[f] \in Imported /\ Len(events[f]) = 0
                 /\ History(row[f], events[f])[0] = row[f]
      <4>1. events[f] = <<>> /\ row[f] \in Imported
        BY DEF Init
      <4>2. PICK s \in Seq(Events) : s = events[f] /\ Len(s) = 0
        <5>1. <<>> \in Seq(Events) /\ Len(<<>>) = 0
          OBVIOUS
        <5>. QED  BY <4>1, <5>1
      <4>3. History(row[f], s)[0] = row[f]
        <5>1. History(row[f], s) = [i \in 0..Len(s) |->
                  IF i = 0 THEN row[f] ELSE Replay(History(row[f], s)[i - 1], s[i])]
          BY HistoryDef
        <5>. QED  BY <4>2, <5>1
      <4>. QED  BY <4>1, <4>2, <4>3
    <3>. QED  BY <3>1 DEF HistoryReplays
  <2>. QED  BY <2>1, <2>2, <2>3, <2>4, <2>5, TypeInit DEF IInv
<1>2. IInv /\ [Next]_vars => IInv'
  <2> SUFFICES ASSUME IInv, [Next]_vars
               PROVE  IInv'
    OBVIOUS
  <2> USE DEF IInv
  <2>1. TypeOK'  BY TypeStep
  <2>2. LockHeld' /\ NoLockLeaks'  BY LockStep
  <2>3. ActionChosen' /\ LoadedOnce'  BY ChosenStep, LoadedStep
  <2>4. ReasonFitsStatus' /\ HistoryReplays'  BY ReasonStep, HistoryStep
  <2>. QED  BY <2>1, <2>2, <2>3, <2>4
<1>. QED  BY <1>1, <1>2, PTL DEF Spec

(***************************************************************************)
(* finding_events (findings_repo.go): for any number of goroutines, rows   *)
(* and actions, the events of a finding replayed from the imported row     *)
(* give its row, and each tells the state it started from.                 *)
(***************************************************************************)
THEOREM HistoryIsComplete == Spec => []HistoryReplays
<1>1. IInv => HistoryReplays
  BY DEF IInv
<1>. QED  BY <1>1, Invariance, PTL

(***************************************************************************)
(* ApplyTo (triage_action.go): a closed finding carries a reason that      *)
(* leads to its status, however closings and reopenings interleave.        *)
(***************************************************************************)
THEOREM ReasonsFit == Spec => []ReasonFitsStatus
<1>1. IInv => ReasonFitsStatus
  BY DEF IInv
<1>. QED  BY <1>1, Invariance, PTL

(***************************************************************************)
(* The types of rows, events, locks and requests.                          *)
(***************************************************************************)
THEOREM TypeCorrect == Spec => []TypeOK
<1>1. IInv => TypeOK
  BY DEF IInv
<1>. QED  BY <1>1, Invariance, PTL

(***************************************************************************)
(* SELECT FOR UPDATE (getForUpdate): two transactions are never past it on *)
(* the same finding, no lock outlives its transaction, and what one has    *)
(* read under the lock is still the row when it writes.                    *)
(***************************************************************************)
THEOREM RowLockWorks == Spec => []RowIsExclusive
<1>1. IInv => RowIsExclusive
  BY DEF IInv, RowIsExclusive, LockHeld
<1>. QED  BY <1>1, Invariance, PTL

(***************************************************************************)
(* ClosureReasonsRepo.EnsureLoaded: the reasons are loaded by one          *)
(* transaction at a time, and no action is applied without them.           *)
(***************************************************************************)
THEOREM ReasonsLoadedOnce == Spec => []LoadedOnce
<1>1. IInv => LoadedOnce
  BY DEF IInv
<1>. QED  BY <1>1, Invariance, PTL
-----------------------------------------------------------------------------
(* The history, as its readers see it (TriageHistory)                          *)

(* The final statuses of the abstract history are those ApplyTo calls closed. *)
LEMMA ClosedIsFinal == Closed \subseteq Ledger!Final
<1>1. /\ {"false_positive", "mitigated", "acceptable_risk"} = DOMAIN Target
      /\ Target["false_positive"] = "fp" /\ Target["mitigated"] = "resolved"
      /\ Target["acceptable_risk"] = "accepted"
  BY DEF Target
<1>. QED  BY <1>1 DEF Closed, Ledger!Final

(* An action that is accepted is one step of the abstract history.            *)
LEMMA AcceptedIsChange ==
    ASSUME NEW f \in Findings, NEW a \in Actions, a.op # "update",
           row[f] \in Rows, Accepts(a, row[f]),
           row' = [row EXCEPT ![f] = Applied(a, row[f])],
           events' = [events EXCEPT ![f] = Append(@, EventOf(a, row[f]))]
    PROVE  Ledger!Next
<1> DEFINE x == row[f]
<1>1. ASSUME NEW e, NEW y, EventOf(a, x) = e, Applied(a, x) = y
      PROVE  Ledger!Happens(f, e, y)
  BY <1>1 DEF Ledger!Happens
<1>2. CASE a.op = "set"
  <2>1. a.arg \in {"open", "confirmed"}
    BY <1>2, ActionForms
  <2>2. /\ EventOf(a, x) = [type |-> "status_changed", from |-> x.status, to |-> a.arg]
        /\ Applied(a, x) = [x EXCEPT !.status = a.arg]
    BY <1>2 DEF EventOf, Applied
  <2>3. Ledger!Change(f)
    BY <1>1, <2>1, <2>2 DEF Ledger!Change
  <2>. QED  BY <2>3 DEF Ledger!Next
<1>3. CASE a.op = "close"
  <2>1. a.arg \in DOMAIN Target
    BY <1>3, ActionForms DEF Accepts, Reasons
  <2>2. /\ EventOf(a, x) = [type |-> "closed", reason |-> a.arg, to |-> Target[a.arg]]
        /\ Applied(a, x) = [x EXCEPT !.status = Target[a.arg], !.closure = a.arg]
    BY <1>3 DEF EventOf, Applied
  <2>3. Ledger!Close(f)
    BY <1>1, <2>1, <2>2 DEF Ledger!Close
  <2>. QED  BY <2>3 DEF Ledger!Next
<1>4. CASE a.op = "reopen"
  <2>1. x.status \in Ledger!Final
    <3>1. x.status \in Closed
      BY <1>4 DEF Accepts
    <3>. QED  BY <3>1, ClosedIsFinal
  <2>2. /\ EventOf(a, x) = [type |-> "reopened", from |-> x.status, reason |-> x.closure]
        /\ Applied(a, x) = [x EXCEPT !.status = "open", !.closure = None]
    BY <1>4 DEF EventOf, Applied
  <2>3. Ledger!Reopen(f)
    BY <1>1, <2>1, <2>2 DEF Ledger!Reopen
  <2>. QED  BY <2>3 DEF Ledger!Next
<1>5. CASE a.op = "assign"
  <2>1. /\ EventOf(a, x) = [type |-> "assigned"]
        /\ Applied(a, x) = [x EXCEPT !.assigned = TRUE]
    BY <1>5 DEF EventOf, Applied
  <2>2. Ledger!Assign(f)
    BY <1>1, <2>1 DEF Ledger!Assign
  <2>. QED  BY <2>2 DEF Ledger!Next
<1>6. CASE a.op = "unassign"
  <2>1. /\ EventOf(a, x) = [type |-> "unassigned"]
        /\ Applied(a, x) = [x EXCEPT !.assigned = FALSE]
    BY <1>6 DEF EventOf, Applied
  <2>2. Ledger!Unassign(f)
    BY <1>1, <2>1 DEF Ledger!Unassign
  <2>. QED  BY <2>2 DEF Ledger!Next
<1>. QED  BY <1>2, <1>3, <1>4, <1>5, <1>6, ActionForms

(* Every step of a request is one of the history's, or leaves it alone.       *)
LEMMA LedgerStep ==
    ASSUME IInv, [Next]_vars
    PROVE  Ledger!Next \/ UNCHANGED <<row, events>>
<1>1. ASSUME NEW r \in Requests, Apply(r)
      PROVE  Ledger!Next \/ UNCHANGED <<row, events>>
  <2> DEFINE f == req[r].f
             a == req[r].act
  <2>1. /\ a \in Actions /\ a.op # "update" /\ f \in Findings
        /\ req[r].read = row[f] /\ row[f] \in Rows
    BY <1>1, AppliedToRow DEF IInv
  <2>2. \/ UNCHANGED <<row, events>>
        \/ /\ Accepts(a, row[f])
           /\ row' = [row EXCEPT ![f] = Applied(a, row[f])]
           /\ events' = [events EXCEPT ![f] = Append(@, EventOf(a, row[f]))]
    BY <1>1, <2>1 DEF Apply
  <2> HIDE DEF f, a
  <2>. QED  BY <2>1, <2>2, AcceptedIsChange
<1>2. \/ UNCHANGED <<row, events>>
      \/ \E r \in Requests : Apply(r)
  BY DEF Next, Serve, vars, Submit, Look, Begin, Lock, Ensure, Load, LoadFails, Fail
<1>. QED  BY <1>1, <1>2

(***************************************************************************)
(* ApplyTriageAction (findings_repo.go): however the requests on a finding *)
(* interleave, fail or act on a row they chose by earlier, its history     *)
(* only grows, and each step of the system is one truthful event of one    *)
(* finding together with its effect, or none: FindingTriage implements     *)
(* TriageHistory.                                                          *)
(***************************************************************************)
THEOREM TriageImplementsHistory == Spec => ImplementsHistory
<1>1. Init => Ledger!Init
  BY DEF Init, Ledger!Init
<1>2. IInv /\ [Next]_vars => [Ledger!Next]_(Ledger!vars)
  BY LedgerStep DEF Ledger!vars
<1>. QED  BY <1>1, <1>2, Invariance, PTL DEF Spec, ImplementsHistory, Ledger!Spec
============================================================================
