------------------------------ MODULE Projects ------------------------------
(***************************************************************************)
(* One project and its members: the handlers of internal/api/projects.go   *)
(* and project_members.go with their repositories, behind RequireProject-  *)
(* Role and RequireProjectOwnerOrGlobalAdmin.  A request reads in one      *)
(* statement and writes in another, so requests overlap between the two.   *)
(***************************************************************************)
EXTENDS Integers, FiniteSets

CONSTANTS
    People,       \* users of the system
    Root,         \* the one of them who is a global administrator
    Requests,     \* requests served
    NoOwner

ASSUME ProjectsAssumption == Root \in People /\ NoOwner \notin People /\ IsFiniteSet(Requests)

VARIABLES
    project,   \* the row of table projects
    role,      \* role[u]: the row of user_project_roles
    request,   \* request[q]: what q asks for, what it has read, where it is
    wanted,    \* history: for each column the value last asked for
    writes,    \* history: edits committed; changes of an administrator's role
    excuse     \* history: what has voided a promise

projectVars == <<project, role, request, wanted, writes, excuse>>

\* The column is any smallint.  RequireProjectRole lets 2 (admin) and above
\* administer the project; the handlers of members know only 2.
Roles == {"none", "lower", "admin", "higher"}
Administrative == {"admin", "higher"}
AdministersProject(u) == role[u] \in Administrative

\* text stands for the columns that are copied from the request (name, slug,
\* tags, status, visibility, team, SLA); url: repo_url is not empty.
Kinds == {"manual", "git", "sarif", "webhook"}
Sources == [kind : Kinds, url : BOOLEAN, autoscan : BOOLEAN]
Texts == {"t1", "t2"}
ProjectRows == [exists : BOOLEAN, text : Texts, owner : People \union {NoOwner},
                pinned : BOOLEAN, source : Sources]

Manual == [kind |-> "manual", url |-> FALSE, autoscan |-> FALSE]

-----------------------------------------------------------------------------
(* applyProjectSource and the older fields of the same request *)

\* What a request says of the source: a source object with a kind, an empty
\* one or null, the older repo_url alone, or nothing.
SourceAsks == {"keep", "null", "git", "git-autoscan", "sarif", "webhook", "url", "no-url"}

\* Mutant: an integration keeps the switch of the repository before it.
KeepsAutoscan(source, ask) ==
    CASE ask = "keep" -> source
      [] ask = "null" -> Manual
      [] ask \in {"git", "git-autoscan"} ->
            [kind |-> "git", url |-> TRUE, autoscan |-> ask = "git-autoscan"]
      [] ask \in {"sarif", "webhook"} -> [source EXCEPT !.kind = ask, !.url = FALSE]
      [] ask = "url" -> [source EXCEPT !.url = TRUE, !.kind = "git"]
      [] ask = "no-url" -> IF source.kind = "git" THEN Manual ELSE [source EXCEPT !.url = FALSE]

AppliedSource(source, ask) ==
    CASE ask = "keep" -> source
      [] ask = "null" -> Manual
      [] ask \in {"git", "git-autoscan"} ->
            [kind |-> "git", url |-> TRUE, autoscan |-> ask = "git-autoscan"]
      [] ask \in {"sarif", "webhook"} -> [kind |-> ask, url |-> FALSE, autoscan |-> FALSE]
      [] ask = "url" -> [source EXCEPT !.url = TRUE, !.kind = "git"]
      [] ask = "no-url" -> IF source.kind = "git" THEN Manual ELSE [source EXCEPT !.url = FALSE]

\* handleCreateProject knows a source object, null, or a repo_url, which it
\* takes for a repository that is scanned on every push.
CreatedSource(ask) ==
    AppliedSource(Manual, IF ask = "url" THEN "git-autoscan" ELSE ask)

-----------------------------------------------------------------------------
(* Requests *)

EditAsks == [text : Texts \union {"keep"}, owner : People \union {NoOwner}, source : SourceAsks]
\* An edit names one thing (or the project is created with all of them).
OneThing(ask) ==
    \/ ask.text # "keep" /\ ask.owner = NoOwner /\ ask.source = "keep"
    \/ ask.text = "keep" /\ ask.owner # NoOwner /\ ask.source = "keep"
    \/ ask.text = "keep" /\ ask.owner = NoOwner /\ ask.source # "keep"
NoAsk == [text |-> "keep", owner |-> NoOwner, source |-> "keep"]

RequestSteps == {"new", "authorize", "read", "update", "pin", "delete",
                 "find", "count", "store", "done"}
RequestOps == {"none", "edit", "pin", "unpin", "delete", "grant", "regrade", "expel"}
RequestRows == [at : RequestSteps, op : RequestOps, by : People, ask : EditAsks, whom : People,
                to : Roles, seen : ProjectRows, since : Nat, changed : Nat]

ProjectsTypeOK ==
    /\ project \in ProjectRows
    /\ role \in [People -> Roles]
    /\ request \in [Requests -> RequestRows]
    /\ wanted \in ProjectRows
    /\ writes \in [edits : Nat, changes : Nat]
    /\ excuse \in [edits : BOOLEAN, overlap : BOOLEAN, unguarded : BOOLEAN]

NoProject == [exists |-> FALSE, text |-> "t1", owner |-> NoOwner, pinned |-> FALSE,
              source |-> Manual]

Unserved == [at |-> "new", op |-> "none", by |-> Root, ask |-> NoAsk, whom |-> Root,
             to |-> "none", seen |-> NoProject, since |-> 0, changed |-> 0]

ProjectsInit ==
    /\ project = NoProject
    /\ wanted = NoProject
    /\ role = [u \in People |-> "none"]
    /\ request = [q \in Requests |-> Unserved]
    /\ writes = [edits |-> 0, changes |-> 0]
    /\ excuse = [edits |-> FALSE, overlap |-> FALSE, unguarded |-> FALSE]

Awaits(q, step) == request[q].at = step
\* The response; what the request knew is forgotten.
Reply(q) == request' = [request EXCEPT ![q] = [Unserved EXCEPT !.at = "done"]]
Move(q, step) == IF step = "done" THEN Reply(q) ELSE request' = [request EXCEPT ![q].at = step]

\* handleCreateProject: one transaction inserts the row and makes the creator
\* and the owner administrators of the project.
Create ==
    \E by, owner \in People, ask \in {"keep", "git", "sarif", "url"} :
        LET row == [exists |-> TRUE, text |-> "t1", owner |-> owner, pinned |-> FALSE,
                    source |-> CreatedSource(ask)]
        IN
        /\ ~project.exists
        /\ \A q \in Requests : Awaits(q, "new")
        /\ project' = row
        /\ wanted' = row
        /\ role' = [u \in People |-> IF u \in {by, owner} THEN "admin" ELSE "none"]
        /\ UNCHANGED <<request, writes, excuse>>

\* Where a request goes that its middleware has let pass.
FirstStep(op) ==
    CASE op = "edit" -> "read"
      [] op \in {"pin", "unpin"} -> "pin"
      [] op = "delete" -> "delete"
      [] op = "grant" -> "store"
      [] op \in {"regrade", "expel"} -> "find"

Start(q, op, by, ask, whom, to) ==
    /\ Awaits(q, "new") /\ project.exists
    /\ request' = [request EXCEPT ![q] =
                     [at |-> IF by = Root THEN FirstStep(op) ELSE "authorize", op |-> op,
                      by |-> by, ask |-> ask, whom |-> whom, to |-> to, seen |-> NoProject,
                      since |-> writes.edits, changed |-> writes.changes]]
    /\ UNCHANGED <<project, role, wanted, writes, excuse>>

StartEdit(q) ==
    \E by \in People, ask \in EditAsks : OneThing(ask) /\ Start(q, "edit", by, ask, Root, "none")
StartPin(q) ==
    \E by \in People, op \in {"pin", "unpin"} : Start(q, op, by, NoAsk, Root, "none")
StartDelete(q) == \E by \in People : Start(q, "delete", by, NoAsk, Root, "none")
\* A role is any number of the request: projectRoleToDB only bounds its width.
AddMember(q) ==
    \E by, whom \in People, to \in Roles \ {"none"} : Start(q, "grant", by, NoAsk, whom, to)
UpdateMember(q) ==
    \E by, whom \in People, to \in Roles \ {"none"} : Start(q, "regrade", by, NoAsk, whom, to)
RemoveMember(q) ==
    \E by, whom \in People : Start(q, "expel", by, NoAsk, whom, "none")

\* RequireProjectRole and, to delete, RequireProjectOwnerOrGlobalAdmin: they
\* read the role or the owner that the handler does not look at again.
Authorize(q) ==
    LET r == request[q]
        may == IF r.op = "delete" THEN project.exists /\ project.owner = r.by
               ELSE AdministersProject(r.by)
    IN
    /\ Awaits(q, "authorize")
    /\ Move(q, IF may THEN FirstStep(r.op) ELSE "done")
    /\ UNCHANGED <<project, role, wanted, writes, excuse>>

-----------------------------------------------------------------------------
(* The row of the project *)

OwnerChanges(q) ==
    /\ request[q].ask.owner # NoOwner
    /\ request[q].ask.owner # request[q].seen.owner

\* GetByID; applyProjectUpdate and the rule on owners judge the row just read.
Read(q) ==
    LET r == request[q]
        gives == r.ask.owner # NoOwner /\ r.ask.owner # project.owner
        refused == gives /\ r.by # Root /\ project.owner # r.by
    IN
    /\ Awaits(q, "read")
    /\ IF ~project.exists \/ refused THEN Reply(q)
       ELSE request' = [request EXCEPT ![q].at = "update", ![q].seen = project,
                                       ![q].since = writes.edits]
    /\ UNCHANGED <<project, role, wanted, writes, excuse>>

\* The row that applyProjectUpdate makes of the one that was read.
Edited(row, ask) ==
    [row EXCEPT !.text = IF ask.text = "keep" THEN @ ELSE ask.text,
                !.owner = IF ask.owner = NoOwner THEN @ ELSE ask.owner,
                !.source = AppliedSource(@, ask.source)]

\* Mutant: the UPDATE names the column pinned as well.
StoredWithPin(next) == next

\* ProjectsRepo.update writes every column but pinned.
StoredRow(next) == [next EXCEPT !.pinned = project.pinned]

\* The transaction: UPDATE, and the role of a new owner.
Update(q) ==
    LET r == request[q]
        next == Edited(r.seen, r.ask)
    IN
    /\ Awaits(q, "update")
    /\ Reply(q)
    /\ IF ~project.exists THEN UNCHANGED <<project, role, wanted, writes, excuse>>
       ELSE /\ project' = StoredRow(next)
            /\ role' = IF OwnerChanges(q) THEN [role EXCEPT ![r.ask.owner] = "admin"] ELSE role
            /\ wanted' = [wanted EXCEPT
                            !.text = IF r.ask.text = "keep" THEN @ ELSE r.ask.text,
                            !.owner = IF r.ask.owner = NoOwner THEN @ ELSE r.ask.owner,
                            !.source = IF r.ask.source = "keep" THEN @ ELSE next.source]
            /\ writes' = [writes EXCEPT
                            !.edits = @ + 1,
                            !.changes = IF OwnerChanges(q) /\ role[r.ask.owner] = "higher"
                                        THEN @ + 1 ELSE @]
            /\ excuse' = [excuse EXCEPT !.edits = @ \/ r.since # writes.edits]

\* SetPinned.
Pin(q) ==
    /\ Awaits(q, "pin")
    /\ Reply(q)
    /\ IF project.exists
       THEN /\ project' = [project EXCEPT !.pinned = request[q].op = "pin"]
            /\ wanted' = [wanted EXCEPT !.pinned = request[q].op = "pin"]
       ELSE UNCHANGED <<project, wanted>>
    /\ UNCHANGED <<role, writes, excuse>>

\* ProjectsRepo.Delete; the roles go with the project.
Delete(q) ==
    /\ Awaits(q, "delete")
    /\ Reply(q)
    /\ project' = NoProject
    /\ wanted' = NoProject
    /\ role' = [u \in People |-> "none"]
    /\ UNCHANGED <<writes, excuse>>

-----------------------------------------------------------------------------
(* The members of the project *)

Lowers(q) == request[q].op = "expel" \/ request[q].to = "lower"

\* GetRole of the member to change or to remove.
FindMember(q) ==
    LET was == role[request[q].whom] IN
    /\ Awaits(q, "find")
    /\ Move(q, CASE was = "none" -> "done"
                 [] was = "admin" /\ Lowers(q) -> "count"
                 [] OTHER -> "store")
    /\ UNCHANGED <<project, role, wanted, writes, excuse>>

\* Mutant: the refusal of the last one is off by one.
CountsToZero(q) ==
    /\ Awaits(q, "count")
    /\ Move(q, IF Cardinality({u \in People : role[u] = "admin"}) = 0 THEN "done" ELSE "store")
    /\ UNCHANGED <<project, role, wanted, writes, excuse>>

\* CountProjectAdmins, and the refusal when it is 1.
CountAdmins(q) ==
    /\ Awaits(q, "count")
    /\ Move(q, IF Cardinality({u \in People : role[u] = "admin"}) = 1 THEN "done" ELSE "store")
    /\ UNCHANGED <<project, role, wanted, writes, excuse>>

\* Grant inserts or overwrites, Update changes a row that is there, Revoke
\* deletes; a project that is gone has no roles.
StoreMember(q) ==
    LET r == request[q]
        was == role[r.whom]
        becomes == IF ~project.exists \/ (r.op = "regrade" /\ was = "none") THEN was ELSE r.to
        takesLast == was \in Administrative /\ \A u \in People : role'[u] \notin Administrative
    IN
    /\ Awaits(q, "store")
    /\ Reply(q)
    /\ role' = [role EXCEPT ![r.whom] = becomes]
    /\ writes' = [writes EXCEPT !.changes =
                     IF was \in Administrative /\ becomes # was THEN @ + 1 ELSE @]
    /\ excuse' = [excuse EXCEPT !.overlap = @ \/ (takesLast /\ r.changed # writes.changes),
                                !.unguarded = @ \/ (takesLast /\ (r.op = "grant" \/ was = "higher"))]
    /\ UNCHANGED <<project, wanted>>

ProjectsNext ==
    \/ Create
    \/ \E q \in Requests :
          \/ StartEdit(q) \/ StartPin(q) \/ StartDelete(q) \/ AddMember(q) \/ UpdateMember(q) \/ RemoveMember(q)
          \/ Authorize(q) \/ Read(q) \/ Update(q) \/ Pin(q) \/ Delete(q)
          \/ FindMember(q) \/ CountAdmins(q) \/ StoreMember(q)

ProjectsSpec == ProjectsInit /\ [][ProjectsNext]_projectVars

-----------------------------------------------------------------------------
(* Properties *)

(* "cannot demote last project admin": a project keeps somebody whom           *)
(* RequireProjectRole lets administer it.  The exceptions: the last one's role *)
(* is taken away while another request changed an administrator's; or by a     *)
(* request that nothing guards, which is handleAddMember adding the member     *)
(* again with a lower role, and any request that takes a role above 2, whose   *)
(* holders the guard neither recognises nor counts.                            *)
ProjectKeepsAdmin ==
    project.exists =>
        excuse.overlap \/ excuse.unguarded \/ \E u \in People : AdministersProject(u)

(* A value that a request has set stays until another request names it, since *)
(* an edit writes back the row it has read: unless two edits overlapped; and  *)
(* pinned, which the UPDATE leaves out, even then.                            *)
NoEditIsLost ==
    /\ project.pinned = wanted.pinned
    /\ excuse.edits \/ project = wanted

(* A project has a repository just when its source is git, and only such a    *)
(* project is scanned on a push, whichever of the two ways to state a source  *)
(* the requests use and however they overlap.                                 *)
GitHasRepository ==
    /\ project.source.kind = "git" <=> project.source.url
    /\ project.source.autoscan => project.source.kind = "git"
=============================================================================
