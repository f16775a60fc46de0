--------------------------- MODULE ProjectsProofs ---------------------------
(***************************************************************************)
(* For any people and requests: what handlers that read and write in       *)
(* different statements keep of a project, of its repository, of the edits *)
(* that were asked for and of its administrators.                          *)
(***************************************************************************)
EXTENDS Projects, FiniteSetTheorems, TLAPS

-----------------------------------------------------------------------------
(* The inductive invariant *)

SourceOK(source) ==
    /\ source.kind = "git" <=> source.url
    /\ source.autoscan => source.kind = "git"

\* The row that an edit has read is still the row, the pin apart, unless
\* another edit came between or the project is gone.
SeenIsRow(r) ==
    r.at = "update" /\ project.exists /\ r.since = writes.edits =>
        [r.seen EXCEPT !.pinned = project.pinned] = project

\* A member is removed without a role and changed to one.
WellAsked(r) == (r.op = "expel" => r.to = "none") /\ (r.op = "regrade" => r.to # "none")

TakesRole(r) == r.op # "grant" /\ r.to \notin Administrative
Untouched(r) == project.exists /\ r.changed = writes.changes

\* What a request that takes a role away has found is still true, unless
\* another one changed an administrator's between: the member to count is an
\* administrator, and when the role is about to be written either somebody
\* else administers the project too or the guard did not apply.
MemberFound(r) ==
    /\ r.at = "count" => TakesRole(r)
    /\ r.at = "count" /\ Untouched(r) => role[r.whom] = "admin"
    /\ r.at = "store" /\ TakesRole(r) /\ Untouched(r) =>
          \/ excuse.overlap \/ excuse.unguarded \/ role[r.whom] = "higher"
          \/ \E u \in People : u # r.whom /\ AdministersProject(u)

\* A step after which everybody who administered still does, by the same role.
KeepsRoles == \A u \in People : AdministersProject(u) => role'[u] = role[u]

RequestOK(r) ==
    /\ r \in RequestRows /\ WellAsked(r)
    /\ SourceOK(r.seen.source)
    /\ r.since <= writes.edits /\ r.changed <= writes.changes
    /\ r.at = "authorize" => r.op # "none"
    /\ r.at = "find" => r.op \in {"regrade", "expel"}
    /\ SeenIsRow(r)
    /\ MemberFound(r)

ProjectsInv ==
    /\ ProjectsTypeOK
    /\ GitHasRepository
    /\ NoEditIsLost
    /\ ProjectKeepsAdmin
    /\ \A q \in Requests : RequestOK(request[q])

-----------------------------------------------------------------------------
(* The source of a project *)

(* A project that nobody has said a source of.                              *)
LEMMA ManualSource == Manual \in Sources /\ SourceOK(Manual)
<1>1. PICK no \in BOOLEAN : no = FALSE
  OBVIOUS
<1>2. Manual = [kind |-> "manual", url |-> no, autoscan |-> no]
  BY <1>1, Zenon DEF Manual
<1>3. Manual \in Sources /\ Manual.kind = "manual" /\ Manual.url = no /\ Manual.autoscan = no
  BY <1>2 DEF Sources, Kinds
<1>. QED  BY <1>1, <1>3 DEF SourceOK

(* A source object of a request, taken as a whole.                          *)
LEMMA NewSource ==
    ASSUME NEW kind \in Kinds, NEW url \in BOOLEAN, NEW autoscan \in BOOLEAN,
           kind = "git" <=> url, autoscan => kind = "git"
    PROVE  LET source == [kind |-> kind, url |-> url, autoscan |-> autoscan]
           IN  source \in Sources /\ SourceOK(source)
  BY DEF Sources, SourceOK

(* A change of the fields of a source.                                      *)
LEMMA ChangedSource ==
    ASSUME NEW source \in Sources, NEW kind \in Kinds, NEW url \in BOOLEAN,
           kind = "git" <=> url, source.autoscan => kind = "git"
    PROVE  LET next == [source EXCEPT !.url = url, !.kind = kind]
           IN  next \in Sources /\ SourceOK(next)
  BY DEF Sources, SourceOK

(* applyProjectSource and the older fields keep the repository with its kind. *)
LEMMA AppliedKeeps ==
    ASSUME NEW source \in Sources, SourceOK(source), NEW ask \in SourceAsks
    PROVE  AppliedSource(source, ask) \in Sources /\ SourceOK(AppliedSource(source, ask))
<1>1. PICK yes \in BOOLEAN, no \in BOOLEAN : yes = TRUE /\ no = FALSE
  OBVIOUS
<1>2. CASE ask = "keep"
  BY <1>2 DEF AppliedSource
<1>3. CASE ask = "null"
  BY <1>3, ManualSource DEF AppliedSource
<1>4. CASE ask \in {"git", "git-autoscan"}
  <2>1. PICK autoscan \in BOOLEAN : autoscan = (ask = "git-autoscan")
    OBVIOUS
  <2>2. AppliedSource(source, ask) = [kind |-> "git", url |-> yes, autoscan |-> autoscan]
    BY <1>1, <1>4, <2>1, Zenon DEF AppliedSource
  <2>3. "git" \in Kinds
    BY DEF Kinds
  <2>. QED  BY <1>1, <2>2, <2>3, NewSource
<1>5. CASE ask \in {"sarif", "webhook"}
  <2>1. AppliedSource(source, ask) = [kind |-> ask, url |-> no, autoscan |-> no]
    BY <1>1, <1>5, Zenon DEF AppliedSource
  <2>2. ask \in Kinds /\ ask # "git"
    BY <1>5 DEF Kinds
  <2>. QED  BY <1>1, <2>1, <2>2, NewSource
<1>6. CASE ask = "url"
  <2>1. AppliedSource(source, ask) = [source EXCEPT !.url = yes, !.kind = "git"]
    BY <1>1, <1>6, Zenon DEF AppliedSource
  <2>2. PICK kind \in Kinds : kind = "git"
    BY DEF Kinds
  <2>3. /\ [source EXCEPT !.url = yes, !.kind = kind] \in Sources
        /\ SourceOK([source EXCEPT !.url = yes, !.kind = kind])
    <3>1. (kind = "git" <=> yes) /\ (source.autoscan => kind = "git")
      BY <1>1, <2>2
    <3>. QED  BY <3>1, ChangedSource
  <2>. QED  BY <2>1, <2>2, <2>3
<1>7. CASE ask = "no-url"
  <2>1. AppliedSource(source, ask) =
            IF source.kind = "git" THEN Manual ELSE [source EXCEPT !.url = no]
    BY <1>1, <1>7, Zenon DEF AppliedSource
  <2>2. CASE source.kind = "git"
    BY <2>1, <2>2, ManualSource
  <2>3. CASE source.kind # "git"
    BY <1>1, <2>1, <2>3 DEF Sources, SourceOK
  <2>. QED  BY <2>2, <2>3
<1>. QED  BY <1>2, <1>3, <1>4, <1>5, <1>6, <1>7 DEF SourceAsks

-----------------------------------------------------------------------------
(* Rows *)

(* A project that is not there, and a request that has been answered.       *)
LEMMA NothingThere ==
    /\ NoProject \in ProjectRows /\ ~NoProject.exists /\ SourceOK(NoProject.source)
    /\ Unserved \in RequestRows /\ Unserved.at = "new"
    /\ Unserved.since = 0 /\ Unserved.changed = 0 /\ Unserved.op = "none" /\ SourceOK(Unserved.seen.source)
<1>1. PICK no \in BOOLEAN : no = FALSE
  OBVIOUS
<1>2. NoProject = [exists |-> no, text |-> "t1", owner |-> NoOwner, pinned |-> no,
                   source |-> Manual]
  BY <1>1, Zenon DEF NoProject
<1>3. /\ NoProject \in ProjectRows /\ NoProject.exists = no /\ NoProject.source = Manual
  BY <1>2, ManualSource DEF ProjectRows, Texts
<1>4. NoAsk \in EditAsks
  BY DEF NoAsk, EditAsks, SourceAsks
<1>5. /\ Unserved \in RequestRows /\ Unserved.at = "new" /\ Unserved.since = 0
      /\ Unserved.changed = 0 /\ Unserved.op = "none" /\ Unserved.seen = NoProject
  BY <1>3, <1>4, ProjectsAssumption
     DEF Unserved, RequestRows, RequestSteps, RequestOps, Roles, ProjectsAssumption
<1>. QED  BY <1>1, <1>3, <1>5, ManualSource

(* The row that applyProjectUpdate makes.                                   *)
LEMMA EditedRow ==
    ASSUME NEW row \in ProjectRows, SourceOK(row.source), NEW ask \in EditAsks,
           NEW pinned \in BOOLEAN, NEW next, next = [Edited(row, ask) EXCEPT !.pinned = pinned]
    PROVE  \E text \in Texts, owner \in People \union {NoOwner}, source \in Sources :
               /\ text = IF ask.text = "keep" THEN row.text ELSE ask.text
               /\ owner = IF ask.owner = NoOwner THEN row.owner ELSE ask.owner
               /\ source = AppliedSource(row.source, ask.source)
               /\ source = Edited(row, ask).source /\ SourceOK(source)
               /\ next \in ProjectRows
               /\ next = [exists |-> row.exists, text |-> text, owner |-> owner,
                          pinned |-> pinned, source |-> source]
<1>1. PICK text \in Texts : text = IF ask.text = "keep" THEN row.text ELSE ask.text
  BY DEF EditAsks, ProjectRows
<1>2. PICK owner \in People \union {NoOwner} :
        owner = IF ask.owner = NoOwner THEN row.owner ELSE ask.owner
  BY DEF EditAsks, ProjectRows
<1>3. ask.source \in SourceAsks /\ row.source \in Sources
  BY DEF EditAsks, ProjectRows
<1>4. PICK source \in Sources :
        source = AppliedSource(row.source, ask.source) /\ SourceOK(source)
  BY <1>3, AppliedKeeps
<1>5. Edited(row, ask) = [row EXCEPT !.text = text, !.owner = owner, !.source = source]
  BY <1>1, <1>2, <1>4 DEF Edited, ProjectRows
<1>6. Edited(row, ask) = [exists |-> row.exists, text |-> text, owner |-> owner,
                          pinned |-> row.pinned, source |-> source]
  BY <1>5 DEF ProjectRows
<1>7. next = [exists |-> row.exists, text |-> text, owner |-> owner,
              pinned |-> pinned, source |-> source]
  BY <1>6
<1>8. next \in ProjectRows
  <2>1. PICK exists \in BOOLEAN : exists = row.exists
    BY DEF ProjectRows
  <2>2. next = [exists |-> exists, text |-> text, owner |-> owner,
                pinned |-> pinned, source |-> source]
    BY <1>7, <2>1
  <2>3. [exists |-> exists, text |-> text, owner |-> owner, pinned |-> pinned,
         source |-> source] \in ProjectRows
    BY DEF ProjectRows
  <2>. QED  BY <2>2, <2>3, Zenon
<1>. QED  BY <1>1, <1>2, <1>4, <1>6, <1>7, <1>8

-----------------------------------------------------------------------------
(* Requests *)

\* What the step of one request leaves of what the others have found.
Respects ==
    /\ project' \in ProjectRows
    /\ writes' \in [edits : Nat, changes : Nat]
    /\ writes.edits <= writes'.edits /\ writes.changes <= writes'.changes
    /\ writes'.edits = writes.edits /\ project'.exists =>
          project.exists /\ project' = [project EXCEPT !.pinned = project'.pinned]
    /\ writes'.changes = writes.changes /\ project'.exists =>
          project.exists /\ KeepsRoles
    /\ excuse.overlap => excuse'.overlap
    /\ excuse.unguarded => excuse'.unguarded

(* A request between its statements, while another one makes such a step.   *)
LEMMA OthersStay ==
    ASSUME ProjectsTypeOK, Respects, NEW r, RequestOK(r)
    PROVE  RequestOK(r)'
<1>1. /\ r \in RequestRows /\ r.seen \in ProjectRows /\ r.since \in Nat /\ r.changed \in Nat
      /\ r.whom \in People
  BY DEF RequestOK, RequestRows
<1>2. /\ writes.edits \in Nat /\ writes.changes \in Nat
      /\ writes'.edits \in Nat /\ writes'.changes \in Nat
      /\ writes.edits <= writes'.edits /\ writes.changes <= writes'.changes
      /\ project \in ProjectRows /\ project' \in ProjectRows
  BY DEF ProjectsTypeOK, Respects
<1>3. r.since <= writes.edits /\ r.changed <= writes.changes
  BY DEF RequestOK
<1>4. SeenIsRow(r)'
  <2> SUFFICES ASSUME r.at = "update", project'.exists, r.since = writes'.edits
               PROVE  [r.seen EXCEPT !.pinned = project'.pinned] = project'
    BY DEF SeenIsRow
  <2>1. writes'.edits = writes.edits /\ r.since = writes.edits
    BY <1>1, <1>2, <1>3
  <2>2. project.exists /\ project' = [project EXCEPT !.pinned = project'.pinned]
    BY <2>1 DEF Respects
  <2>3. [r.seen EXCEPT !.pinned = project.pinned] = project
    BY <2>1, <2>2 DEF RequestOK, SeenIsRow
  <2>. QED  BY <1>1, <1>2, <2>2, <2>3 DEF ProjectRows
<1>5. MemberFound(r)'
  <2>1. r.at = "count" => TakesRole(r)
    BY DEF RequestOK, MemberFound
  <2>2. ASSUME Untouched(r)'
        PROVE  Untouched(r) /\ KeepsRoles
    <3>1. project'.exists /\ r.changed = writes'.changes
      BY <2>2 DEF Untouched
    <3>2. writes'.changes = writes.changes /\ r.changed = writes.changes
      BY <1>1, <1>2, <1>3, <3>1
    <3>. QED  BY <3>1, <3>2 DEF Respects, Untouched
  <2>3. ASSUME r.at = "count", Untouched(r)'
        PROVE  role'[r.whom] = "admin"
    <3>1. role[r.whom] = "admin"
      BY <2>2, <2>3 DEF RequestOK, MemberFound
    <3>. QED  BY <1>1, <2>2, <2>3, <3>1 DEF KeepsRoles, AdministersProject, Administrative
  <2>4. ASSUME r.at = "store", TakesRole(r), Untouched(r)'
        PROVE  \/ excuse'.overlap \/ excuse'.unguarded \/ role'[r.whom] = "higher"
               \/ \E u \in People : u # r.whom /\ role'[u] \in Administrative
    <3>1. \/ excuse.overlap \/ excuse.unguarded \/ role[r.whom] = "higher"
          \/ \E u \in People : u # r.whom /\ role[u] \in Administrative
      BY <2>2, <2>4 DEF RequestOK, MemberFound, AdministersProject
    <3>2. /\ role[r.whom] = "higher" => role'[r.whom] = "higher"
          /\ \A u \in People : role[u] \in Administrative => role'[u] \in Administrative
      BY <1>1, <2>2, <2>4 DEF KeepsRoles, AdministersProject, Administrative
    <3>. QED  BY <3>1, <3>2 DEF Respects
  <2>. QED  BY <2>1, <2>3, <2>4 DEF MemberFound, TakesRole, AdministersProject, Administrative
<1>. QED  BY <1>1, <1>2, <1>3, <1>4, <1>5 DEF RequestOK

(* The response: nothing is remembered.                                     *)
LEMMA AnsweredOK ==
    ASSUME writes' \in [edits : Nat, changes : Nat]
    PROVE  RequestOK([Unserved EXCEPT !.at = "done"])'
<1>1. PICK r : r = [Unserved EXCEPT !.at = "done"]
  OBVIOUS
<1>2. /\ r \in RequestRows /\ r.at = "done" /\ r.op = "none" /\ r.since = 0 /\ r.changed = 0
      /\ SourceOK(r.seen.source)
  BY <1>1, NothingThere DEF RequestRows, RequestSteps
<1>3. RequestOK(r)'
  BY <1>2 DEF RequestOK, WellAsked, SeenIsRow, MemberFound
<1>. QED  BY <1>1, <1>3

(* One request makes a step that respects the others.                       *)
LEMMA OneServed ==
    ASSUME ProjectsInv, Respects, NEW q \in Requests, NEW r,
           request' = [request EXCEPT ![q] = r], RequestOK(r)'
    PROVE  /\ request' \in [Requests -> RequestRows]
           /\ \A p \in Requests : RequestOK(request[p])'
<1>1. /\ request \in [Requests -> RequestRows] /\ ProjectsTypeOK
      /\ \A p \in Requests : RequestOK(request[p])
  BY DEF ProjectsInv, ProjectsTypeOK
<1>2. r \in RequestRows
  BY DEF RequestOK
<1>3. request' \in [Requests -> RequestRows]
  BY <1>1, <1>2
<1>4. ASSUME NEW p \in Requests
      PROVE  RequestOK(request[p])'
  <2>1. CASE p = q
    <3>1. request'[p] = r
      BY <1>1, <2>1
    <3>. QED  BY <3>1 DEF RequestOK, SeenIsRow, MemberFound, TakesRole, Untouched, AdministersProject
  <2>2. CASE p # q
    <3>1. PICK x : x = request[p] /\ x = request'[p]
      BY <1>1, <2>2
    <3>2. RequestOK(x)'
      BY <1>1, <3>1, OthersStay
    <3>. QED  BY <3>1, <3>2 DEF RequestOK, SeenIsRow, MemberFound, TakesRole, Untouched, AdministersProject
  <2>. QED  BY <2>1, <2>2
<1>. QED  BY <1>3, <1>4

(* ... and is answered.                                                     *)
LEMMA OneAnswered ==
    ASSUME ProjectsInv, Respects, NEW q \in Requests, Reply(q)
    PROVE  /\ request' \in [Requests -> RequestRows]
           /\ \A p \in Requests : RequestOK(request[p])'
<1>1. RequestOK([Unserved EXCEPT !.at = "done"])'
  BY AnsweredOK DEF Respects
<1>. QED  BY <1>1, OneServed DEF Reply

(* A step that only moves a request respects the others, and the properties. *)
LEMMA OnlyMoves ==
    ASSUME ProjectsInv, UNCHANGED <<project, role, wanted, writes, excuse>>
    PROVE  /\ Respects
           /\ /\ request' \in [Requests -> RequestRows]
              /\ \A p \in Requests : RequestOK(request[p])'
              => ProjectsInv'
<1>1. Respects
  BY DEF Respects, KeepsRoles, ProjectsInv, ProjectsTypeOK, ProjectRows
<1>2. ASSUME request' \in [Requests -> RequestRows],
             \A p \in Requests : RequestOK(request[p])'
      PROVE  ProjectsInv'
  <2>1. ProjectsTypeOK'
    BY <1>2 DEF ProjectsInv, ProjectsTypeOK
  <2>2. GitHasRepository' /\ NoEditIsLost' /\ ProjectKeepsAdmin'
    BY DEF ProjectsInv, GitHasRepository, NoEditIsLost, ProjectKeepsAdmin, AdministersProject
  <2>. QED  BY <1>2, <2>1, <2>2 DEF ProjectsInv
<1>. QED  BY <1>1, <1>2

-----------------------------------------------------------------------------
(* The steps of a request *)

(* Where the middleware sends a request.                                    *)
LEMMA FirstSteps ==
    ASSUME NEW op \in RequestOps, op # "none"
    PROVE  /\ FirstStep(op) \in {"read", "pin", "delete", "store", "find"}
           /\ FirstStep(op) = "store" => op = "grant"
           /\ FirstStep(op) = "find" => op \in {"regrade", "expel"}
  BY DEF FirstStep, RequestOps

(* A request that has found nothing yet.                                    *)
LEMMA NothingFound ==
    ASSUME NEW r \in RequestRows, WellAsked(r), SourceOK(r.seen.source),
           r.since <= writes.edits, r.changed <= writes.changes,
           r.at \in {"authorize", "read", "pin", "delete", "store", "find", "done"},
           r.at = "authorize" => r.op # "none",
           r.at = "store" => r.op = "grant",
           r.at = "find" => r.op \in {"regrade", "expel"}
    PROVE  RequestOK(r)
  BY DEF RequestOK, SeenIsRow, MemberFound, TakesRole

(* A request arrives.                                                       *)
LEMMA StartOK ==
    ASSUME ProjectsInv, NEW q \in Requests, NEW op \in RequestOps, op # "none",
           NEW by \in People, NEW ask \in EditAsks, NEW whom \in People, NEW to \in Roles,
           op = "expel" => to = "none", op = "regrade" => to # "none",
           Start(q, op, by, ask, whom, to)
    PROVE  ProjectsInv'
<1>1. PICK at : at = IF by = Root THEN FirstStep(op) ELSE "authorize"
  OBVIOUS
<1>2. PICK r : r = [at |-> at, op |-> op, by |-> by, ask |-> ask, whom |-> whom, to |-> to,
                    seen |-> NoProject, since |-> writes.edits, changed |-> writes.changes]
  OBVIOUS
<1>3. /\ request' = [request EXCEPT ![q] = r]
      /\ UNCHANGED <<project, role, wanted, writes, excuse>>
  BY <1>1, <1>2 DEF Start
<1>4. /\ at \in {"authorize", "read", "pin", "delete", "store", "find"}
      /\ at = "store" => op = "grant"
      /\ at = "find" => op \in {"regrade", "expel"}
  BY <1>1, FirstSteps
<1>5. writes.edits \in Nat /\ writes.changes \in Nat
  BY DEF ProjectsInv, ProjectsTypeOK
<1>6. r \in RequestRows
  BY <1>2, <1>4, <1>5, NothingThere DEF RequestRows, RequestSteps
<1>7. RequestOK(r)
  <2>1. WellAsked(r)
    BY <1>2 DEF WellAsked
  <2>. QED  BY <1>2, <1>4, <1>5, <1>6, <2>1, NothingFound, NothingThere
<1>8. Respects /\ RequestOK(r)'
  BY <1>3, <1>7, OnlyMoves, OthersStay DEF ProjectsInv
<1>. QED  BY <1>3, <1>8, OneServed, OnlyMoves

(* A request goes on to a step for which its facts are enough.              *)
LEMMA MovesOn ==
    ASSUME ProjectsInv, NEW q \in Requests, NEW step, Move(q, step),
           UNCHANGED <<project, role, wanted, writes, excuse>>,
           step # "done" => RequestOK([request[q] EXCEPT !.at = step])
    PROVE  ProjectsInv'
<1>1. Respects
  BY OnlyMoves
<1>2. CASE step = "done"
  <2>1. Reply(q)
    BY <1>2 DEF Move
  <2>. QED  BY <1>1, <2>1, OneAnswered, OnlyMoves
<1>3. CASE step # "done"
  <2>1. PICK r : r = [request[q] EXCEPT !.at = step]
    OBVIOUS
  <2>2. request' = [request EXCEPT ![q] = r]
    BY <1>3, <2>1 DEF Move
  <2>3. RequestOK(r)'
    BY <1>1, <1>3, <2>1, OthersStay DEF ProjectsInv
  <2>. QED  BY <1>1, <2>2, <2>3, OneServed, OnlyMoves
<1>. QED  BY <1>2, <1>3

(* What is known of the request that makes a step.                          *)
LEMMA Served ==
    ASSUME ProjectsInv, NEW q \in Requests
    PROVE  LET r == request[q]
           IN  /\ r \in RequestRows /\ RequestOK(r)
               /\ r.op \in RequestOps /\ r.by \in People /\ r.whom \in People /\ r.to \in Roles
               /\ r.ask \in EditAsks
               /\ r.since \in Nat /\ r.changed \in Nat /\ r.seen \in ProjectRows
               /\ \A step \in RequestSteps :
                     /\ [r EXCEPT !.at = step] \in RequestRows
                     /\ [r EXCEPT !.at = step].at = step
                     /\ [r EXCEPT !.at = step].op = r.op
                     /\ [r EXCEPT !.at = step].whom = r.whom
                     /\ [r EXCEPT !.at = step].to = r.to
                     /\ [r EXCEPT !.at = step].seen = r.seen
                     /\ [r EXCEPT !.at = step].since = r.since
                     /\ [r EXCEPT !.at = step].changed = r.changed
<1>1. request[q] \in RequestRows /\ RequestOK(request[q])
  BY DEF ProjectsInv, ProjectsTypeOK
<1>. QED  BY <1>1 DEF RequestRows

(* RequireProjectRole and RequireProjectOwnerOrGlobalAdmin.                 *)
LEMMA AuthorizeOK == ASSUME ProjectsInv, NEW q \in Requests, Authorize(q) PROVE ProjectsInv'
<1>1. PICK r : r = request[q]
  OBVIOUS
<1>2. r.at = "authorize" /\ UNCHANGED <<project, role, wanted, writes, excuse>>
  BY <1>1 DEF Authorize, Awaits
<1>3. PICK step : step \in {FirstStep(r.op), "done"} /\ Move(q, step)
  BY <1>1 DEF Authorize
<1>4. r.op \in RequestOps /\ r.op # "none"
  BY <1>1, <1>2, Served DEF RequestOK
<1>5. ASSUME step # "done"
      PROVE  RequestOK([r EXCEPT !.at = step])
  <2>1. /\ step \in {"read", "pin", "delete", "store", "find"}
        /\ step = "store" => r.op = "grant"
        /\ step = "find" => r.op \in {"regrade", "expel"}
    BY <1>3, <1>4, <1>5, FirstSteps
  <2>2. step \in RequestSteps
    BY <2>1 DEF RequestSteps
  <2>3. /\ SourceOK(r.seen.source) /\ r.since <= writes.edits /\ r.changed <= writes.changes
    BY <1>1, Served DEF RequestOK
  <2>4. PICK x \in RequestRows :
          /\ x = [r EXCEPT !.at = step] /\ x.at = step /\ x.op = r.op /\ x.to = r.to /\ x.seen = r.seen
          /\ x.since = r.since /\ x.changed = r.changed
    <3>1. r \in RequestRows
      BY <1>1, Served
    <3>2. LET x == [r EXCEPT !.at = step]
          IN  /\ x \in RequestRows
              /\ x.at = step /\ x.op = r.op /\ x.to = r.to /\ x.seen = r.seen
              /\ x.since = r.since /\ x.changed = r.changed
      BY <2>2, <3>1 DEF RequestRows
    <3>. QED  BY <3>2
  <2>5. RequestOK(x)
    <3>1. WellAsked(x)
      BY <1>1, <2>4, Served DEF RequestOK, WellAsked
    <3>. QED  BY <1>4, <2>1, <2>3, <2>4, <3>1, NothingFound
  <2>. QED  BY <2>4, <2>5
<1>. QED  BY <1>1, <1>2, <1>3, <1>5, MovesOn

(* GetByID: the row as it is now, since the last edit.                      *)
LEMMA ReadOK == ASSUME ProjectsInv, NEW q \in Requests, Read(q) PROVE ProjectsInv'
<1>1. UNCHANGED <<project, role, wanted, writes, excuse>>
  BY DEF Read
<1>2. Respects
  BY <1>1, OnlyMoves
<1>3. CASE Reply(q)
  BY <1>1, <1>2, <1>3, OneAnswered, OnlyMoves
<1>4. CASE request' = [request EXCEPT ![q].at = "update", ![q].seen = project,
                                      ![q].since = writes.edits]
  <2>1. PICK r : r = [request[q] EXCEPT !.at = "update", !.seen = project,
                                        !.since = writes.edits]
    OBVIOUS
  <2>2. request' = [request EXCEPT ![q] = r]
    BY <1>4, <2>1 DEF ProjectsInv, ProjectsTypeOK
  <2>3. /\ request[q] \in RequestRows /\ request[q].changed <= writes.changes
        /\ WellAsked(request[q])
        /\ project \in ProjectRows /\ writes.edits \in Nat /\ SourceOK(project.source)
    BY Served DEF RequestOK, ProjectsInv, ProjectsTypeOK, GitHasRepository, SourceOK
  <2>4. /\ r \in RequestRows /\ r.at = "update" /\ r.seen = project
        /\ r.since = writes.edits /\ r.changed = request[q].changed
        /\ r.op = request[q].op /\ r.to = request[q].to
    BY <2>1, <2>3 DEF RequestRows, RequestSteps
  <2>5. RequestOK(r)
    BY <2>3, <2>4 DEF RequestOK, WellAsked, SeenIsRow, MemberFound, ProjectRows
  <2>6. RequestOK(r)'
    BY <1>2, <2>5, OthersStay DEF ProjectsInv
  <2>. QED  BY <1>1, <1>2, <2>2, <2>6, OneServed, OnlyMoves
<1>. QED  BY <1>3, <1>4 DEF Read

-----------------------------------------------------------------------------
(* The row of the project *)

(* update writes every column but pinned of the row that was read: if no other *)
(* edit came between, just the change that was asked for.                     *)
LEMMA UpdateOK == ASSUME ProjectsInv, NEW q \in Requests, Update(q) PROVE ProjectsInv'
<1>1. PICK r : r = request[q]
  OBVIOUS
<1>2. r.at = "update" /\ Reply(q)
  BY <1>1 DEF Update, Awaits
<1>3. CASE ~project.exists
  <2>1. UNCHANGED <<project, role, wanted, writes, excuse>>
    BY <1>3 DEF Update
  <2>. QED  BY <1>2, <2>1, OneAnswered, OnlyMoves
<1>4. CASE project.exists
  <2>1. /\ r \in RequestRows /\ RequestOK(r) /\ r.ask \in EditAsks /\ r.seen \in ProjectRows
        /\ r.since \in Nat /\ r.since <= writes.edits /\ SourceOK(r.seen.source)
        /\ r.ask.owner \in People \union {NoOwner}
    BY <1>1, Served DEF RequestOK, EditAsks
  <2>2. /\ project \in ProjectRows /\ project.pinned \in BOOLEAN /\ wanted \in ProjectRows
        /\ role \in [People -> Roles]
        /\ writes \in [edits : Nat, changes : Nat]
        /\ excuse \in [edits : BOOLEAN, overlap : BOOLEAN, unguarded : BOOLEAN]
    BY DEF ProjectsInv, ProjectsTypeOK, ProjectRows
  <2> DEFINE next == Edited(r.seen, r.ask)
  <2>3. /\ project' = [next EXCEPT !.pinned = project.pinned]
        /\ role' = IF OwnerChanges(q) THEN [role EXCEPT ![r.ask.owner] = "admin"] ELSE role
        /\ wanted' = [wanted EXCEPT
                        !.text = IF r.ask.text = "keep" THEN wanted.text ELSE r.ask.text,
                        !.owner = IF r.ask.owner = NoOwner THEN wanted.owner ELSE r.ask.owner,
                        !.source = IF r.ask.source = "keep" THEN wanted.source ELSE next.source]
        /\ writes' = [writes EXCEPT
                        !.edits = @ + 1,
                        !.changes = IF OwnerChanges(q) /\ role[r.ask.owner] = "higher"
                                    THEN @ + 1 ELSE @]
        /\ excuse' = [excuse EXCEPT !.edits = @ \/ r.since # writes.edits]
    BY <1>1, <1>4 DEF Update, StoredRow
  <2>4. PICK text \in Texts, owner \in People \union {NoOwner}, source \in Sources :
          /\ text = IF r.ask.text = "keep" THEN r.seen.text ELSE r.ask.text
          /\ owner = IF r.ask.owner = NoOwner THEN r.seen.owner ELSE r.ask.owner
          /\ source = AppliedSource(r.seen.source, r.ask.source) /\ source = next.source
          /\ SourceOK(source)
          /\ project' \in ProjectRows
          /\ project' = [exists |-> r.seen.exists, text |-> text, owner |-> owner,
                         pinned |-> project.pinned, source |-> source]
    <3>1. PICK row : row = project' /\ row = [Edited(r.seen, r.ask) EXCEPT !.pinned = project.pinned]
      BY <2>3
    <3>2. \E text \in Texts, owner \in People \union {NoOwner}, source \in Sources :
             /\ text = IF r.ask.text = "keep" THEN r.seen.text ELSE r.ask.text
             /\ owner = IF r.ask.owner = NoOwner THEN r.seen.owner ELSE r.ask.owner
             /\ source = AppliedSource(r.seen.source, r.ask.source)
             /\ source = Edited(r.seen, r.ask).source /\ SourceOK(source)
             /\ row \in ProjectRows
             /\ row = [exists |-> r.seen.exists, text |-> text, owner |-> owner,
                       pinned |-> project.pinned, source |-> source]
      BY <2>1, <2>2, <3>1, EditedRow
    <3>3. PICK text \in Texts, owner \in People \union {NoOwner}, source \in Sources :
             /\ text = IF r.ask.text = "keep" THEN r.seen.text ELSE r.ask.text
             /\ owner = IF r.ask.owner = NoOwner THEN r.seen.owner ELSE r.ask.owner
             /\ source = AppliedSource(r.seen.source, r.ask.source)
             /\ source = Edited(r.seen, r.ask).source /\ SourceOK(source)
             /\ row \in ProjectRows
             /\ row = [exists |-> r.seen.exists, text |-> text, owner |-> owner,
                       pinned |-> project.pinned, source |-> source]
      BY <3>2
    <3>4. source = next.source /\ project' \in ProjectRows
      BY <3>1, <3>3
    <3>5. project' = [exists |-> r.seen.exists, text |-> text, owner |-> owner,
                      pinned |-> project.pinned, source |-> source]
      BY <3>1, <3>3, Zenon
    <3> HIDE DEF next
    <3>. QED  BY <3>3, <3>4, <3>5
  <2>5. /\ role' \in [People -> Roles]
        /\ \A u \in People : AdministersProject(u) => role'[u] \in Administrative
        /\ ~(OwnerChanges(q) /\ role[r.ask.owner] = "higher") => KeepsRoles
    <3>1. CASE OwnerChanges(q)
      <4>1. r.ask.owner \in People
        BY <1>1, <2>1, <3>1 DEF OwnerChanges
      <4>2. role' = [role EXCEPT ![r.ask.owner] = "admin"]
        BY <2>3, <3>1
      <4>3. /\ role' \in [People -> Roles] /\ role'[r.ask.owner] = "admin"
            /\ \A u \in People : u # r.ask.owner => role'[u] = role[u]
        BY <2>2, <4>1, <4>2 DEF Roles
      <4>4. ASSUME NEW u \in People, AdministersProject(u)
            PROVE  /\ role'[u] \in Administrative
                   /\ role[r.ask.owner] # "higher" => role'[u] = role[u]
        BY <4>3, <4>4 DEF AdministersProject, Administrative
      <4>. QED  BY <3>1, <4>3, <4>4 DEF KeepsRoles
    <3>2. CASE ~OwnerChanges(q)
      BY <2>2, <2>3, <3>2 DEF KeepsRoles, AdministersProject
    <3>. QED  BY <3>1, <3>2
  <2>6. /\ writes' \in [edits : Nat, changes : Nat]
        /\ writes'.edits = writes.edits + 1
        /\ writes'.changes = IF OwnerChanges(q) /\ role[r.ask.owner] = "higher"
                             THEN writes.changes + 1 ELSE writes.changes
    <3>1. PICK n \in Nat :
            n = IF OwnerChanges(q) /\ role[r.ask.owner] = "higher"
                THEN writes.changes + 1 ELSE writes.changes
      BY <2>2
    <3>2. writes' = [writes EXCEPT !.edits = writes.edits + 1, !.changes = n]
      <4> HIDE DEF next
      <4>. QED  BY <2>3, <3>1, Zenon
    <3>3. PICK m \in Nat : m = writes.edits + 1
      BY <2>2
    <3>4. writes' = [edits |-> m, changes |-> n]
      <4>1. writes \in [edits : Nat, changes : Nat]
        BY <2>2
      <4>2. writes' = [writes EXCEPT !.edits = m, !.changes = n]
        BY <3>2, <3>3, Zenon
      <4>. QED  BY <4>1, <4>2
    <3>. QED  BY <3>1, <3>3, <3>4
  <2>7. /\ excuse' \in [edits : BOOLEAN, overlap : BOOLEAN, unguarded : BOOLEAN]
        /\ excuse'.edits <=> excuse.edits \/ r.since # writes.edits
        /\ excuse'.overlap = excuse.overlap /\ excuse'.unguarded = excuse.unguarded
    <3>1. PICK void \in BOOLEAN : void = (excuse.edits \/ r.since # writes.edits)
      OBVIOUS
    <3>2. excuse' = [excuse EXCEPT !.edits = void]
      BY <2>3, <3>1, Zenon
    <3>. QED  BY <2>2, <3>1, <3>2
  <2>8. PICK wtext \in Texts, wowner \in People \union {NoOwner}, wsource \in Sources :
          /\ wtext = IF r.ask.text = "keep" THEN wanted.text ELSE r.ask.text
          /\ wowner = IF r.ask.owner = NoOwner THEN wanted.owner ELSE r.ask.owner
          /\ wsource = IF r.ask.source = "keep" THEN wanted.source ELSE source
    BY <2>1, <2>2 DEF ProjectRows, EditAsks
  <2>9. /\ wanted' \in ProjectRows
        /\ wanted' = [exists |-> wanted.exists, text |-> wtext, owner |-> wowner,
                      pinned |-> wanted.pinned, source |-> wsource]
    <3>1. wanted' = [wanted EXCEPT !.text = wtext, !.owner = wowner, !.source = wsource]
      <4> HIDE DEF next
      <4>. QED  BY <2>3, <2>4, <2>8
    <3>. QED  BY <2>2, <3>1 DEF ProjectRows
  <2>10. Respects
    <3>1. writes'.edits # writes.edits /\ writes.edits <= writes'.edits
          /\ writes.changes <= writes'.changes
      BY <2>2, <2>6
    <3>2. writes'.changes = writes.changes => KeepsRoles
      BY <2>2, <2>5, <2>6
    <3>. QED  BY <1>4, <2>4, <2>6, <2>7, <3>1, <3>2 DEF Respects
  <2>11. /\ request' \in [Requests -> RequestRows]
         /\ \A p \in Requests : RequestOK(request[p])'
    BY <1>2, <2>10, OneAnswered
  <2>12. NoEditIsLost'
    <3>1. project'.pinned = wanted'.pinned
      BY <2>4, <2>9 DEF ProjectsInv, NoEditIsLost
    <3>2. ASSUME ~excuse'.edits
          PROVE  project' = wanted'
      <4>1. r.since = writes.edits /\ project = wanted
        BY <2>7, <3>2 DEF ProjectsInv, NoEditIsLost
      <4>2. [r.seen EXCEPT !.pinned = project.pinned] = project
        BY <1>2, <1>4, <2>1, <4>1 DEF RequestOK, SeenIsRow
      <4>3. /\ r.seen.exists = wanted.exists /\ r.seen.text = wanted.text
            /\ r.seen.owner = wanted.owner /\ r.seen.source = wanted.source
        BY <2>1, <4>1, <4>2 DEF ProjectRows
      <4>4. text = wtext /\ owner = wowner
        BY <2>4, <2>8, <4>3
      <4>5. source = wsource
        BY <2>4, <2>8, <4>3 DEF AppliedSource
      <4>. QED  BY <2>4, <2>9, <4>1, <4>3, <4>4, <4>5
    <3>. QED  BY <3>1, <3>2 DEF NoEditIsLost
  <2>13. GitHasRepository'
    BY <2>4 DEF GitHasRepository, SourceOK
  <2>14. ProjectKeepsAdmin'
    BY <1>4, <2>5, <2>7 DEF ProjectsInv, ProjectKeepsAdmin, AdministersProject
  <2>15. ProjectsTypeOK'
    BY <2>4, <2>5, <2>6, <2>7, <2>9, <2>11 DEF ProjectsTypeOK
  <2>. QED  BY <2>11, <2>12, <2>13, <2>14, <2>15 DEF ProjectsInv
<1>. QED  BY <1>3, <1>4

(* SetPinned.                                                               *)
LEMMA PinOK == ASSUME ProjectsInv, NEW q \in Requests, Pin(q) PROVE ProjectsInv'
<1>1. Reply(q) /\ UNCHANGED <<role, writes, excuse>>
  BY DEF Pin
<1>2. CASE ~project.exists
  BY <1>1, <1>2, OneAnswered, OnlyMoves DEF Pin
<1>3. CASE project.exists
  <2>1. PICK pinned \in BOOLEAN : pinned = (request[q].op = "pin")
    OBVIOUS
  <2>2. /\ project' = [project EXCEPT !.pinned = pinned]
        /\ wanted' = [wanted EXCEPT !.pinned = pinned]
    BY <1>3, <2>1, Zenon DEF Pin
  <2>3. project \in ProjectRows /\ wanted \in ProjectRows
    BY DEF ProjectsInv, ProjectsTypeOK
  <2>4. /\ project' \in ProjectRows /\ wanted' \in ProjectRows
        /\ project'.exists = project.exists /\ project'.pinned = pinned
        /\ project'.source = project.source /\ wanted'.pinned = pinned
    BY <2>2, <2>3 DEF ProjectRows
  <2>5. Respects
    <3>1. project' = [project EXCEPT !.pinned = project'.pinned]
      BY <2>2, <2>4
    <3>2. writes \in [edits : Nat, changes : Nat]
      BY DEF ProjectsInv, ProjectsTypeOK
    <3>. QED  BY <1>1, <1>3, <2>4, <3>1, <3>2 DEF Respects, KeepsRoles
  <2>6. /\ request' \in [Requests -> RequestRows]
        /\ \A p \in Requests : RequestOK(request[p])'
    BY <1>1, <2>5, OneAnswered
  <2>7. ProjectsTypeOK'
    BY <1>1, <2>4, <2>6 DEF ProjectsInv, ProjectsTypeOK
  <2>8. GitHasRepository' /\ ProjectKeepsAdmin'
    BY <1>1, <2>4 DEF ProjectsInv, GitHasRepository, ProjectKeepsAdmin, AdministersProject
  <2>9. NoEditIsLost'
    BY <1>1, <2>2, <2>4 DEF ProjectsInv, NoEditIsLost
  <2>. QED  BY <2>6, <2>7, <2>8, <2>9 DEF ProjectsInv
<1>. QED  BY <1>2, <1>3

(* The project goes, and the roles with it.                                 *)
LEMMA DeleteOK == ASSUME ProjectsInv, NEW q \in Requests, Delete(q) PROVE ProjectsInv'
<1>1. /\ Reply(q) /\ project' = NoProject /\ wanted' = NoProject
      /\ role' = [u \in People |-> "none"] /\ UNCHANGED <<writes, excuse>>
  BY DEF Delete
<1>2. /\ writes \in [edits : Nat, changes : Nat]
      /\ excuse \in [edits : BOOLEAN, overlap : BOOLEAN, unguarded : BOOLEAN]
  BY DEF ProjectsInv, ProjectsTypeOK
<1>3. NoProject \in ProjectRows /\ ~NoProject.exists /\ SourceOK(NoProject.source)
  BY NothingThere
<1>4. Respects
  BY <1>1, <1>2, <1>3 DEF Respects
<1>5. /\ request' \in [Requests -> RequestRows]
      /\ \A p \in Requests : RequestOK(request[p])'
  BY <1>1, <1>4, OneAnswered
<1>6. ProjectsTypeOK'
  BY <1>1, <1>2, <1>3, <1>5 DEF ProjectsTypeOK, Roles
<1>7. GitHasRepository' /\ NoEditIsLost' /\ ProjectKeepsAdmin'
  BY <1>1, <1>3 DEF GitHasRepository, NoEditIsLost, ProjectKeepsAdmin, SourceOK
<1>. QED  BY <1>5, <1>6, <1>7 DEF ProjectsInv

-----------------------------------------------------------------------------
(* The members of the project *)

(* A member that is no administrator yet leaves the others administrators.  *)
LEMMA AnotherAdmin ==
    ASSUME ProjectsInv, project.exists, NEW u \in People, ~AdministersProject(u)
    PROVE  \/ excuse.overlap \/ excuse.unguarded
           \/ \E v \in People : v # u /\ AdministersProject(v)
  BY DEF ProjectsInv, ProjectKeepsAdmin

(* GetRole.                                                                 *)
LEMMA FindMemberOK == ASSUME ProjectsInv, NEW q \in Requests, FindMember(q) PROVE ProjectsInv'
<1>1. PICK r : r = request[q]
  OBVIOUS
<1>2. r.at = "find" /\ UNCHANGED <<project, role, wanted, writes, excuse>>
  BY <1>1 DEF FindMember, Awaits
<1>3. /\ r \in RequestRows /\ r.whom \in People /\ r.to \in Roles
      /\ SourceOK(r.seen.source) /\ r.since <= writes.edits /\ r.changed <= writes.changes
      /\ r.op \in {"regrade", "expel"} /\ WellAsked(r)
  BY <1>1, <1>2, Served DEF RequestOK
<1>4. PICK step :
        /\ Move(q, step)
        /\ \/ step = "done"
           \/ step = "count" /\ role[r.whom] = "admin" /\ TakesRole(r)
           \/ step = "store" /\ (role[r.whom] # "admin" \/ ~TakesRole(r))
  <2>1. Lowers(q) <=> TakesRole(r)
    BY <1>1, <1>3 DEF Lowers, TakesRole, WellAsked, Administrative, Roles
  <2>2. CASE role[r.whom] = "none"
    BY <1>1, <2>2 DEF FindMember
  <2>3. CASE role[r.whom] = "admin" /\ Lowers(q)
    BY <1>1, <2>1, <2>3 DEF FindMember
  <2>4. CASE role[r.whom] # "none" /\ ~(role[r.whom] = "admin" /\ Lowers(q))
    BY <1>1, <2>1, <2>4 DEF FindMember
  <2>. QED  BY <2>2, <2>3, <2>4
<1>5. ASSUME step # "done"
      PROVE  RequestOK([r EXCEPT !.at = step])
  <2>1. step \in RequestSteps
    BY <1>4 DEF RequestSteps
  <2>2. LET x == [r EXCEPT !.at = step]
        IN  /\ x \in RequestRows
            /\ x.at = step /\ x.op = r.op /\ x.seen = r.seen /\ x.whom = r.whom /\ x.to = r.to
            /\ x.since = r.since /\ x.changed = r.changed
    BY <1>3, <2>1 DEF RequestRows
  <2>3. PICK x :
          /\ x = [r EXCEPT !.at = step] /\ x \in RequestRows
          /\ x.at = step /\ x.op = r.op /\ x.seen = r.seen /\ x.whom = r.whom /\ x.to = r.to
          /\ x.since = r.since /\ x.changed = r.changed
    BY <2>2
  <2>4. TakesRole(x) <=> TakesRole(r)
    BY <2>3 DEF TakesRole
  <2>5. MemberFound(x)
    <3>1. ASSUME step = "store", TakesRole(r), Untouched(r), role[r.whom] # "higher"
          PROVE  \/ excuse.overlap \/ excuse.unguarded
                 \/ \E u \in People : u # r.whom /\ AdministersProject(u)
      <4>1. ~AdministersProject(r.whom)
        BY <1>4, <3>1 DEF AdministersProject, Administrative
      <4>. QED  BY <1>3, <3>1, <4>1, AnotherAdmin DEF Untouched
    <3>. QED  BY <1>4, <1>5, <2>3, <2>4, <3>1 DEF MemberFound, Untouched
  <2>6. RequestOK(x)
    BY <1>3, <1>4, <1>5, <2>3, <2>5 DEF RequestOK, SeenIsRow, WellAsked
  <2>. QED  BY <2>3, <2>6
<1>. QED  BY <1>1, <1>2, <1>4, <1>5, MovesOn

(* CountProjectAdmins: of an administrator that is not the only one, there is *)
(* another.                                                                   *)
LEMMA CountAdminsOK == ASSUME ProjectsInv, NEW q \in Requests, CountAdmins(q) PROVE ProjectsInv'
<1>1. PICK r : r = request[q]
  OBVIOUS
<1>2. r.at = "count" /\ UNCHANGED <<project, role, wanted, writes, excuse>>
  BY <1>1 DEF CountAdmins, Awaits
<1>3. /\ r \in RequestRows /\ r.whom \in People
      /\ SourceOK(r.seen.source) /\ r.since <= writes.edits /\ r.changed <= writes.changes
      /\ TakesRole(r) /\ WellAsked(r)
      /\ Untouched(r) => role[r.whom] = "admin"
  BY <1>1, <1>2, Served DEF RequestOK, MemberFound
<1> DEFINE admins == {u \in People : role[u] = "admin"}
<1>4. PICK step :
        /\ Move(q, step)
        /\ step = "done" \/ (step = "store" /\ Cardinality(admins) # 1)
  BY DEF CountAdmins
<1>5. ASSUME step # "done"
      PROVE  RequestOK([r EXCEPT !.at = step])
  <2>1. step \in RequestSteps
    BY <1>4 DEF RequestSteps
  <2>2. LET x == [r EXCEPT !.at = step]
        IN  /\ x \in RequestRows
            /\ x.at = step /\ x.op = r.op /\ x.seen = r.seen /\ x.whom = r.whom /\ x.to = r.to
            /\ x.since = r.since /\ x.changed = r.changed
    BY <1>3, <2>1 DEF RequestRows
  <2>3. PICK x :
          /\ x = [r EXCEPT !.at = step] /\ x \in RequestRows
          /\ x.at = step /\ x.op = r.op /\ x.seen = r.seen /\ x.whom = r.whom /\ x.to = r.to
          /\ x.since = r.since /\ x.changed = r.changed
    BY <2>2
  <2>4. ASSUME Untouched(r)
        PROVE  \E u \in People : u # r.whom /\ AdministersProject(u)
    <3>1. r.whom \in admins
      BY <1>3, <2>4
    <3>2. admins # {r.whom}
      <4> HIDE DEF admins
      <4>. QED  BY <1>4, <1>5, FS_Singleton
    <3>3. PICK u \in admins : u # r.whom
      BY <3>1, <3>2
    <3>. QED  BY <3>3 DEF AdministersProject, Administrative
  <2>5. MemberFound(x)
    BY <1>4, <1>5, <2>3, <2>4 DEF MemberFound, Untouched
  <2>6. RequestOK(x)
    BY <1>3, <1>4, <1>5, <2>3, <2>5 DEF RequestOK, SeenIsRow, WellAsked
  <2>. QED  BY <2>3, <2>6
<1>. QED  BY <1>1, <1>2, <1>4, <1>5, MovesOn

(* Grant, Update and Revoke: the role of an administrator is only taken when  *)
(* there is another one, or the promise is void.                              *)
LEMMA StoreMemberOK == ASSUME ProjectsInv, NEW q \in Requests, StoreMember(q) PROVE ProjectsInv'
<1>1. PICK r : r = request[q]
  OBVIOUS
<1>2. PICK becomes :
        becomes = IF ~project.exists \/ (r.op = "regrade" /\ role[r.whom] = "none")
                  THEN role[r.whom] ELSE r.to
  OBVIOUS
<1>3. PICK takesLast \in BOOLEAN :
        takesLast = (/\ role[r.whom] \in Administrative
                     /\ \A u \in People : role'[u] \notin Administrative)
  OBVIOUS
<1>4. PICK changes \in BOOLEAN :
        changes = (role[r.whom] \in Administrative /\ becomes # role[r.whom])
  OBVIOUS
<1>5. /\ r.at = "store" /\ Reply(q) /\ UNCHANGED <<project, wanted>>
      /\ role' = [role EXCEPT ![r.whom] = becomes]
      /\ writes' = [writes EXCEPT !.changes = IF changes THEN @ + 1 ELSE @]
      /\ excuse' = [excuse EXCEPT
                      !.overlap = @ \/ (takesLast /\ r.changed # writes.changes),
                      !.unguarded = @ \/ (takesLast /\ (r.op = "grant" \/ role[r.whom] = "higher"))]
  BY <1>1, <1>2, <1>3, <1>4 DEF StoreMember, Awaits
<1>6. /\ r.whom \in People /\ r.to \in Roles /\ MemberFound(r)
      /\ project \in ProjectRows /\ wanted \in ProjectRows
      /\ role \in [People -> Roles]
      /\ writes \in [edits : Nat, changes : Nat]
      /\ excuse \in [edits : BOOLEAN, overlap : BOOLEAN, unguarded : BOOLEAN]
  BY <1>1, Served DEF RequestOK, ProjectsInv, ProjectsTypeOK
<1>7. /\ role' \in [People -> Roles] /\ role'[r.whom] = becomes
      /\ \A u \in People : u # r.whom => role'[u] = role[u]
  BY <1>2, <1>5, <1>6
<1>8. /\ writes' \in [edits : Nat, changes : Nat] /\ writes'.edits = writes.edits
      /\ writes'.changes = IF changes THEN writes.changes + 1 ELSE writes.changes
  BY <1>5, <1>6
<1>9. /\ excuse' \in [edits : BOOLEAN, overlap : BOOLEAN, unguarded : BOOLEAN]
      /\ excuse'.edits = excuse.edits
      /\ excuse'.overlap <=> excuse.overlap \/ (takesLast /\ r.changed # writes.changes)
      /\ excuse'.unguarded <=>
            excuse.unguarded \/ (takesLast /\ (r.op = "grant" \/ role[r.whom] = "higher"))
  <2>1. PICK d \in BOOLEAN, g \in BOOLEAN :
          /\ d = (excuse.overlap \/ (takesLast /\ r.changed # writes.changes))
          /\ g = (excuse.unguarded
                    \/ (takesLast /\ (r.op = "grant" \/ role[r.whom] = "higher")))
    OBVIOUS
  <2>2. excuse' = [excuse EXCEPT !.overlap = d, !.unguarded = g]
    BY <1>5, <2>1, Zenon
  <2>. QED  BY <1>6, <2>1, <2>2
<1>10. ~changes => KeepsRoles
  BY <1>4, <1>7 DEF KeepsRoles, AdministersProject
<1>11. Respects
  <2>1. project' = [project EXCEPT !.pinned = project'.pinned]
    BY <1>5, <1>6 DEF ProjectRows
  <2>2. writes'.changes = writes.changes => ~changes
    BY <1>6, <1>8
  <2>3. writes.edits <= writes'.edits /\ writes.changes <= writes'.changes
    BY <1>6, <1>8
  <2>. QED  BY <1>5, <1>6, <1>8, <1>9, <1>10, <2>1, <2>2, <2>3 DEF Respects
<1>12. /\ request' \in [Requests -> RequestRows]
       /\ \A p \in Requests : RequestOK(request[p])'
  BY <1>5, <1>11, OneAnswered
<1>13. ProjectsTypeOK'
  BY <1>5, <1>6, <1>7, <1>8, <1>9, <1>12 DEF ProjectsTypeOK
<1>14. GitHasRepository' /\ NoEditIsLost'
  BY <1>5, <1>9 DEF ProjectsInv, GitHasRepository, NoEditIsLost
<1>15. ProjectKeepsAdmin'
  <2> SUFFICES ASSUME project.exists, ~excuse'.overlap, ~excuse'.unguarded,
                      \A u \in People : role'[u] \notin Administrative
               PROVE  FALSE
    BY <1>5 DEF ProjectKeepsAdmin, AdministersProject
  <2>1. ~excuse.overlap /\ ~excuse.unguarded
    BY <1>9
  <2>2. PICK u \in People : role[u] \in Administrative
    BY <2>1 DEF ProjectsInv, ProjectKeepsAdmin, AdministersProject
  <2>3. u = r.whom /\ takesLast
    BY <1>3, <1>7, <2>2
  <2>4. r.changed = writes.changes /\ r.op # "grant" /\ role[r.whom] # "higher"
    BY <1>9, <2>1, <2>3
  <2>5. becomes \notin Administrative /\ role[r.whom] \in Administrative
    BY <1>6, <1>7, <2>2, <2>3
  <2>6. becomes = r.to
    BY <1>2, <2>5 DEF Administrative
  <2>7. TakesRole(r) /\ Untouched(r)
    BY <2>4, <2>5, <2>6 DEF TakesRole, Untouched
  <2>8. \E v \in People : v # r.whom /\ AdministersProject(v)
    BY <1>5, <1>6, <2>1, <2>4, <2>7 DEF MemberFound
  <2>. QED  BY <1>7, <2>8 DEF AdministersProject
<1>. QED  BY <1>12, <1>13, <1>14, <1>15 DEF ProjectsInv

-----------------------------------------------------------------------------
(* The results *)

(* handleCreateProject, before any other request.                           *)
LEMMA CreateOK == ASSUME ProjectsInv, Create PROVE ProjectsInv'
<1>0. PICK yes \in BOOLEAN, no \in BOOLEAN : yes = TRUE /\ no = FALSE
  OBVIOUS
<1>1. PICK by \in People, owner \in People, ask \in {"keep", "git", "sarif", "url"} :
        /\ project' = [exists |-> yes, text |-> "t1", owner |-> owner, pinned |-> no,
                       source |-> CreatedSource(ask)]
        /\ wanted' = project'
        /\ role' = [u \in People |-> IF u \in {by, owner} THEN "admin" ELSE "none"]
        /\ \A q \in Requests : request[q].at = "new"
        /\ UNCHANGED <<request, writes, excuse>>
  <2>1. yes = TRUE /\ no = FALSE
    BY <1>0
  <2>2. PICK by \in People, owner \in People, ask \in {"keep", "git", "sarif", "url"} :
          /\ project' = [exists |-> TRUE, text |-> "t1", owner |-> owner, pinned |-> FALSE,
                         source |-> CreatedSource(ask)]
          /\ wanted' = [exists |-> TRUE, text |-> "t1", owner |-> owner, pinned |-> FALSE,
                        source |-> CreatedSource(ask)]
          /\ role' = [u \in People |-> IF u \in {by, owner} THEN "admin" ELSE "none"]
          /\ UNCHANGED <<request, writes, excuse>>
    BY Zenon DEF Create
  <2>5. \A q \in Requests : request[q].at = "new"
    BY DEF Create, Awaits
  <2>3. wanted' = project'
    BY <2>2, Zenon
  <2>4. project' = [exists |-> yes, text |-> "t1", owner |-> owner, pinned |-> no,
                    source |-> CreatedSource(ask)]
    BY <2>1, <2>2, Zenon
  <2>. QED  BY <2>2, <2>3, <2>4, <2>5, Zenon
<1>2. CreatedSource(ask) \in Sources /\ SourceOK(CreatedSource(ask))
  <2>1. PICK asked \in SourceAsks : asked = IF ask = "url" THEN "git-autoscan" ELSE ask
    BY DEF SourceAsks
  <2>. QED  BY <2>1, ManualSource, AppliedKeeps DEF CreatedSource
<1>3. PICK source \in Sources : source = CreatedSource(ask) /\ SourceOK(source)
  BY <1>2
<1>4. project' = [exists |-> yes, text |-> "t1", owner |-> owner, pinned |-> no,
                  source |-> source]
  BY <1>1, <1>3
<1>5. project' \in ProjectRows /\ project'.source = source
  BY <1>4 DEF ProjectRows, Texts
<1>6. role' \in [People -> Roles] /\ role'[by] = "admin"
  BY <1>1 DEF Roles
<1>7. ProjectsTypeOK'
  BY <1>1, <1>5, <1>6 DEF ProjectsInv, ProjectsTypeOK
<1>8. GitHasRepository' /\ NoEditIsLost' /\ ProjectKeepsAdmin'
  BY <1>1, <1>3, <1>5, <1>6
     DEF GitHasRepository, NoEditIsLost, ProjectKeepsAdmin, AdministersProject, Administrative, SourceOK
<1>9. ASSUME NEW q \in Requests
      PROVE  RequestOK(request[q])'
  <2>1. PICK r : r = request[q] /\ r = request'[q] /\ r.at = "new"
    BY <1>1
  <2>2. /\ r \in RequestRows /\ WellAsked(r) /\ SourceOK(r.seen.source)
        /\ r.since <= writes.edits /\ r.changed <= writes.changes
    BY <2>1, Served DEF RequestOK
  <2>. QED  BY <1>1, <2>1, <2>2 DEF RequestOK, WellAsked, SeenIsRow, MemberFound
<1>. QED  BY <1>7, <1>8, <1>9 DEF ProjectsInv

(* Before the project is created nothing has been asked for.                *)
LEMMA ProjectsStart == ProjectsInit => ProjectsInv
<1> SUFFICES ASSUME ProjectsInit
             PROVE  ProjectsInv
  OBVIOUS
<1>1. /\ project = NoProject /\ wanted = NoProject /\ role = [u \in People |-> "none"]
      /\ request = [q \in Requests |-> Unserved]
      /\ writes = [edits |-> 0, changes |-> 0]
  BY DEF ProjectsInit
<1>2. excuse \in [edits : BOOLEAN, overlap : BOOLEAN, unguarded : BOOLEAN]
  <2>1. PICK no \in BOOLEAN : no = FALSE
    OBVIOUS
  <2>2. excuse = [edits |-> no, overlap |-> no, unguarded |-> no]
    BY <2>1, Zenon DEF ProjectsInit
  <2>. QED  BY <2>2
<1>3. ProjectsTypeOK
  BY <1>1, <1>2, NothingThere DEF ProjectsTypeOK, Roles
<1>4. GitHasRepository /\ NoEditIsLost /\ ProjectKeepsAdmin
  BY <1>1, NothingThere DEF GitHasRepository, NoEditIsLost, ProjectKeepsAdmin, SourceOK
<1>5. RequestOK(Unserved)
  BY <1>1, NothingThere DEF RequestOK, WellAsked, SeenIsRow, MemberFound
<1>. QED  BY <1>1, <1>3, <1>4, <1>5 DEF ProjectsInv

(* Every statement of every request keeps the invariant.                    *)
LEMMA ProjectsStep == ProjectsInv /\ [ProjectsNext]_projectVars => ProjectsInv'
<1> SUFFICES ASSUME ProjectsInv, [ProjectsNext]_projectVars
             PROVE  ProjectsInv'
  OBVIOUS
<1>1. CASE Create
  BY <1>1, CreateOK
<1>2. ASSUME NEW q \in Requests,
             StartEdit(q) \/ StartPin(q) \/ StartDelete(q)
             \/ AddMember(q) \/ UpdateMember(q) \/ RemoveMember(q)
      PROVE  ProjectsInv'
  <2>1. /\ NoAsk \in EditAsks /\ Root \in People
        /\ Roles \ {"none"} \subseteq Roles /\ "none" \in Roles
        /\ {"edit", "pin", "unpin", "delete", "grant", "regrade", "expel"}
           \subseteq RequestOps \ {"none"}
    BY ProjectsAssumption
       DEF ProjectsAssumption, NoAsk, EditAsks, SourceAsks, Roles, RequestOps
  <2>2. \E op \in RequestOps, by \in People, ask \in EditAsks, whom \in People, to \in Roles :
           /\ op # "none" /\ (op = "expel" => to = "none") /\ (op = "regrade" => to # "none")
           /\ Start(q, op, by, ask, whom, to)
    <3>1. CASE StartEdit(q) \/ StartPin(q) \/ StartDelete(q)
      BY <2>1, <3>1 DEF StartEdit, StartPin, StartDelete
    <3>2. CASE AddMember(q) \/ UpdateMember(q) \/ RemoveMember(q)
      BY <2>1, <3>2 DEF AddMember, UpdateMember, RemoveMember
    <3>. QED  BY <1>2, <3>1, <3>2
  <2>. QED  BY <2>2, StartOK
<1>3. ASSUME NEW q \in Requests,
             Authorize(q) \/ Read(q) \/ Update(q) \/ Pin(q) \/ Delete(q)
      PROVE  ProjectsInv'
  BY <1>3, AuthorizeOK, ReadOK, UpdateOK, PinOK, DeleteOK
<1>4. ASSUME NEW q \in Requests, FindMember(q) \/ CountAdmins(q) \/ StoreMember(q)
      PROVE  ProjectsInv'
  BY <1>4, FindMemberOK, CountAdminsOK, StoreMemberOK
<1>5. CASE UNCHANGED projectVars
  <2>1. UNCHANGED <<project, role, wanted, writes, excuse, request>>
    BY <1>5 DEF projectVars
  <2>. QED
    BY <2>1 DEF ProjectsInv, ProjectsTypeOK, GitHasRepository, NoEditIsLost, ProjectKeepsAdmin,
                RequestOK, SeenIsRow, MemberFound, Untouched, TakesRole, AdministersProject,
                WellAsked
<1>. QED  BY <1>1, <1>2, <1>3, <1>4, <1>5 DEF ProjectsNext

(* The rows of projects and user_project_roles and the requests in progress   *)
(* keep their types.                                                          *)
THEOREM ProjectsTyped == ProjectsSpec => []ProjectsTypeOK
<1>1. ProjectsInv => ProjectsTypeOK
  BY DEF ProjectsInv
<1>. QED  BY <1>1, ProjectsStart, ProjectsStep, PTL DEF ProjectsSpec

(* applyProjectSource, the older fields of a request and the row that update  *)
(* writes back leave a repository with a project just when its source is git, *)
(* however edits overlap.                                                     *)
THEOREM RepositoryGoesWithGit == ProjectsSpec => []GitHasRepository
<1>1. ProjectsInv => GitHasRepository
  BY DEF ProjectsInv
<1>. QED  BY <1>1, ProjectsStart, ProjectsStep, PTL DEF ProjectsSpec

(* Although handleUpdateProject writes back a row it read before, an edit is   *)
(* lost only when two edits overlap, and a pin not even then.                  *)
THEOREM EditsStay == ProjectsSpec => []NoEditIsLost
<1>1. ProjectsInv => NoEditIsLost
  BY DEF ProjectsInv
<1>. QED  BY <1>1, ProjectsStart, ProjectsStep, PTL DEF ProjectsSpec

(* handleUpdateMember and handleRemoveMember count the administrators and     *)
(* write later: a project loses its last one only to a request that overlaps  *)
(* another change of an administrator's role, to handleAddMember, or to the   *)
(* end of a role above 2, which the guard does not know.                      *)
THEOREM AdminsStay == ProjectsSpec => []ProjectKeepsAdmin
<1>1. ProjectsInv => ProjectKeepsAdmin
  BY DEF ProjectsInv
<1>. QED  BY <1>1, ProjectsStart, ProjectsStep, PTL DEF ProjectsSpec
=============================================================================
