------------------------------- MODULE Access -------------------------------
(***************************************************************************)
(* Users and their sessions: the handlers of internal/api/admin_users.go   *)
(* and admin_users_v2.go behind the guards of admin_guards.go, and login,  *)
(* logout and change of password (auth.go and internal/auth).              *)
(* None of them uses a transaction: a request is a sequence of statements, *)
(* and every statement is a step between which other requests come.        *)
(***************************************************************************)
EXTENDS Integers, Sequences, FiniteSets, SequencesExt

CONSTANTS
    Users,        \* rows that may exist in table users
    Callers,      \* goroutines that serve requests
    Bulks,        \* the lists of users that a bulk request may name
    MaxCalls,     \* bound: how many requests are served
    MaxFailures   \* bound: how many statements fail

ASSUME AccessAssumption ==
    /\ IsFiniteSet(Users)
    /\ Bulks \subseteq Seq(Users) \ {<<>>}
    /\ Users # {}
    /\ MaxCalls \in Nat
    /\ MaxFailures \in Nat

VARIABLES
    user,      \* user[u]: its row with its credentials and its rows of user_roles
    session,   \* the sessions ever opened, oldest first
    call,      \* call[c]: the request that c serves, "at" its next statement
    calls, failures,
    past       \* history: what has happened to the promises below

accessVars == <<user, session, call, calls, failures, past>>

RoleKeys == {"admin", "auditor", "member"}
\* admin is global_role = 1.  epoch counts the writes that call for the end of
\* all sessions; temp: an administrator has chosen the current password.
Rows == [exists : BOOLEAN, admin : BOOLEAN, active : BOOLEAN,
         status : {"active", "pending", "disabled"}, sys : BOOLEAN,
         roles : SUBSET RoleKeys, must : BOOLEAN, temp : BOOLEAN, epoch : Nat]
NoRow == [exists |-> FALSE, admin |-> FALSE, active |-> FALSE, status |-> "disabled",
          sys |-> FALSE, roles |-> {}, must |-> FALSE, temp |-> FALSE, epoch |-> 0]

\* late: opened in an epoch that was over.
Sessions == [user : Users, live : BOOLEAN, epoch : Nat, late : BOOLEAN]

TargetOps == {"promote", "demote", "deactivate", "delete", "activate", "reset"}
Ops == TargetOps \union {"create", "login", "logout", "password"}
Steps == {"idle", "fetch", "count", "write", "must", "revoke", "open", "check", "insert",
          "assign", "unassign"}

\* by is the user of the session and seen the row that the request has read of
\* the first user of todo; role is the role of a new user.
Calls == [at : Steps, op : Ops, by : Users, todo : Seq(Users), bulk : BOOLEAN,
          seen : Rows, role : RoleKeys, used : Nat, since : Nat]

Pasts == [removals : Nat, overlapped : BOOLEAN, cut : SUBSET Users, crossed : SUBSET Users]

\* Between requests nothing is remembered.
Idle == [at |-> "idle", op |-> "login", by |-> CHOOSE u \in Users : TRUE, todo |-> <<>>,
         bulk |-> FALSE, seen |-> NoRow, role |-> "member", used |-> 0, since |-> 0]

AccessTypeOK ==
    /\ user \in [Users -> Rows]
    /\ session \in Seq(Sessions)
    /\ call \in [Callers -> Calls]
    /\ calls \in 0..MaxCalls
    /\ failures \in 0..MaxFailures
    /\ past \in Pasts

Administers(u) == user[u].exists /\ user[u].admin /\ user[u].active

-----------------------------------------------------------------------------
(* The triggers of migration 028, which run with the statement *)

\* sync_users_global_role_to_user_roles
RolesOf(rs, admin) ==
    (rs \ {"admin", "member"}) \union {IF admin THEN "admin" ELSE "member"}

\* A row written by users.Create; the trigger adds the role.
Fresh(admin, status) ==
    [NoRow EXCEPT !.exists = TRUE, !.active = TRUE, !.admin = admin, !.status = status,
                  !.roles = RolesOf({}, admin)]

\* What the bootstrap and the administration tool have made: administrators,
\* one of whom migration 021 may have marked as the system account, and a user
\* that is not there yet, is a member or an auditor, or has been deactivated.
Others == {NoRow, Fresh(FALSE, "active"),
           [Fresh(FALSE, "active") EXCEPT !.roles = {"auditor"}],
           [Fresh(FALSE, "active") EXCEPT !.active = FALSE, !.status = "disabled"]}

AccessInit(admins, marked) ==
    /\ \E sys \in BOOLEAN, o \in Others :
          user = [u \in Users |-> IF u \notin admins THEN o
                                  ELSE [Fresh(TRUE, "active") EXCEPT !.sys = sys /\ u = marked]]
    /\ session = [i \in 1..Cardinality(admins) |->
                    [user |-> SetToSeq(admins)[i], live |-> TRUE, epoch |-> 0, late |-> FALSE]]
    /\ call = [c \in Callers |-> Idle]
    /\ calls = 0
    /\ failures = 0
    /\ past = [removals |-> 0, overlapped |-> FALSE, cut |-> {}, crossed |-> {}]

-----------------------------------------------------------------------------
(* Middleware: how a request begins *)

\* GetByTokenHashWithUser: a session that is not revoked, of an active user.
Valid(i) == session[i].live /\ user[session[i].user].active

Target(c) == Head(call[c].todo)
At(c, step) == call[c].at = step

Accept(c, request) ==
    /\ At(c, "idle")
    /\ calls < MaxCalls
    /\ calls' = calls + 1
    /\ call' = [call EXCEPT ![c] = request]
    /\ UNCHANGED <<user, session, failures, past>>

Request(first, op, by, todo, bulk, role, used) ==
    [at |-> first, op |-> op, by |-> by, todo |-> todo, bulk |-> bulk, seen |-> NoRow,
     role |-> role, used |-> used, since |-> past.removals]

\* What the handlers of administration ask for, of a user that the path names.
ChangeUserRole(c, by, i) ==
    \E u \in Users, op \in {"promote", "demote"} :
        Accept(c, Request("fetch", op, by, <<u>>, FALSE, "member", i))
DeactivateUser(c, by, i) ==
    \E u \in Users : Accept(c, Request("fetch", "deactivate", by, <<u>>, FALSE, "member", i))
ActivateUser(c, by, i) ==
    \E u \in Users : Accept(c, Request("fetch", "activate", by, <<u>>, FALSE, "member", i))
DeleteUser(c, by, i) ==
    \E u \in Users : Accept(c, Request("fetch", "delete", by, <<u>>, FALSE, "member", i))
ResetUserPassword(c, by, i) ==
    \E u \in Users : Accept(c, Request("fetch", "reset", by, <<u>>, FALSE, "member", i))
CreateUser(c, by, i) ==
    \E u \in Users, role \in RoleKeys : Accept(c, Request("check", "create", by, <<u>>, FALSE, role, i))
BulkDeactivateUsers(c, by, i) ==
    \E todo \in Bulks : Accept(c, Request("fetch", "deactivate", by, todo, TRUE, "member", i))
BulkResetPassword(c, by, i) ==
    \E todo \in Bulks : Accept(c, Request("fetch", "reset", by, todo, TRUE, "member", i))

\* RequireGlobalAdmin and RequirePasswordChangeCompleted judge the one row that
\* LoadSessionMiddleware has read.
MayAdminister(by) == ~user[by].must /\ user[by].admin

\* A request that its middleware lets through.
CallAdmin(c) ==
    \E i \in DOMAIN session :
        LET by == session[i].user IN
        /\ Valid(i) /\ MayAdminister(by)
        /\ \/ ChangeUserRole(c, by, i) \/ DeactivateUser(c, by, i) \/ ActivateUser(c, by, i)
           \/ DeleteUser(c, by, i) \/ ResetUserPassword(c, by, i) \/ CreateUser(c, by, i)
           \/ BulkDeactivateUsers(c, by, i) \/ BulkResetPassword(c, by, i)

Logout(c, by, i) == Accept(c, Request("revoke", "logout", by, <<by>>, FALSE, "member", i))

\* handleChangePassword, which needs no finished change of password; it checks
\* the current one against the row already read.
ChangePassword(c, by, i) == Accept(c, Request("write", "password", by, <<by>>, FALSE, "member", i))

\* A request about the user's own account.
CallOwn(c) ==
    \E i \in DOMAIN session :
        LET by == session[i].user IN
        /\ Valid(i)
        /\ Logout(c, by, i) \/ ChangePassword(c, by, i)

\* Service.Login reads the row by email and verifies the password.
CallLogin(c) ==
    \E u \in Users :
        /\ user[u].exists /\ user[u].active
        /\ Accept(c, [Request("open", "login", u, <<u>>, FALSE, "member", 0) EXCEPT !.seen = user[u]])

-----------------------------------------------------------------------------
(* Where a request goes next *)

Goto(c, step) == call' = [call EXCEPT ![c].at = step]

\* The response, or the next user of a bulk request.
AfterTarget(r) ==
    IF Len(r.todo) > 1 THEN [r EXCEPT !.at = "fetch", !.todo = Tail(@)]
    ELSE Idle
Answer(c) == call' = [call EXCEPT ![c] = AfterTarget(@)]

\* After the write of a user: whose sessions end, whose password is marked.
AfterWrite(op) ==
    CASE op \in {"promote", "demote", "deactivate", "delete"} -> "revoke"
      [] op \in {"reset", "password"} -> "must"

-----------------------------------------------------------------------------
(* canModifyUser and the handlers it guards *)

\* Mutant: rule 1 is left to the frontend.
RefusesOthersOnly(op, by, u, row) ==
    row.sys /\ (op \in {"delete", "deactivate", "activate"} \/ (op = "demote" /\ row.admin))

\* Mutant: rule 2 does not know ActionRemoveRoleAdmin.
RefusesNotDemotion(op, by, u, row) ==
    \/ by = u /\ (op \in {"deactivate", "delete", "reset"} \/ (op = "demote" /\ row.admin))
    \/ row.sys /\ op \in {"delete", "deactivate", "activate"}

\* Rules 1 and 2 (the handler of activate has its own copy of rule 2).
Refuses(op, by, u, row) ==
    \/ by = u /\ (op \in {"deactivate", "delete", "reset"} \/ (op = "demote" /\ row.admin))
    \/ row.sys /\ (op \in {"delete", "deactivate", "activate"} \/ (op = "demote" /\ row.admin))

\* GetByID of the target, with the rules that look at it.
Fetch(c) ==
    LET r == call[c]
        u == Target(c)
    IN
    /\ At(c, "fetch")
    /\ IF ~user[u].exists \/ Refuses(r.op, r.by, u, user[u]) THEN Answer(c)
       ELSE call' = [call EXCEPT
                       ![c].seen = user[u],
                       ![c].at = IF r.op \in {"deactivate", "demote"} /\ user[u].admin
                                 THEN "count" ELSE "write"]
    /\ UNCHANGED <<user, session, calls, failures, past>>

\* Rule 3: CountActiveAdmins.
Count(c) ==
    /\ At(c, "count")
    /\ IF Cardinality({u \in Users : user[u].admin /\ user[u].status = "active"}) <= 1
       THEN Answer(c) ELSE Goto(c, "write")
    /\ UNCHANGED <<user, session, calls, failures, past>>

\* UsersRepo.Update with the columns of each handler.
Updated(op, row) ==
    CASE op = "promote"  -> [row EXCEPT !.admin = TRUE, !.roles = RolesOf(@, TRUE), !.epoch = @ + 1]
      [] op = "demote"   -> [row EXCEPT !.admin = FALSE, !.roles = RolesOf(@, FALSE), !.epoch = @ + 1]
      [] op \in {"deactivate", "delete"} ->
            [row EXCEPT !.active = FALSE, !.status = "disabled", !.epoch = @ + 1]
      [] op = "activate" -> [row EXCEPT !.active = TRUE, !.status = "active"]
      [] op = "reset"    -> [row EXCEPT !.temp = TRUE, !.epoch = @ + 1]
      [] op = "password" -> [row EXCEPT !.temp = FALSE, !.epoch = @ + 1]

Write(c) ==
    LET r == call[c]
        u == Target(c)
        removes == Administers(u) /\ r.op \in {"demote", "deactivate", "delete"}
        crosses == /\ r.op \in {"reset", "password"}
                   /\ \E d \in Callers \ {c} : At(d, "must") /\ Target(d) = u
    IN
    /\ At(c, "write")
    /\ user' = [user EXCEPT ![u] = Updated(r.op, @)]
    /\ IF r.op = "activate" THEN Answer(c)
       ELSE call' = [call EXCEPT ![c].at = AfterWrite(r.op), ![c].seen = user'[u],
                                 ![c].since = IF removes THEN @ + 1 ELSE @]
    /\ past' = [past EXCEPT !.removals = IF removes THEN @ + 1 ELSE @,
                            !.overlapped = @ \/ (removes /\ r.since # past.removals),
                            !.crossed = IF crosses THEN @ \union {u} ELSE @]
    /\ UNCHANGED <<session, calls, failures>>

\* Mutant: a password of an administrator is not marked.
MarksOwnOnly(c) ==
    /\ At(c, "must")
    /\ user' = [user EXCEPT ![Target(c)].must = FALSE]
    /\ IF call[c].op = "create" THEN Answer(c) ELSE Goto(c, "revoke")
    /\ UNCHANGED <<session, calls, failures, past>>

\* SetMustChangePassword.
Must(c) ==
    /\ At(c, "must")
    /\ user' = [user EXCEPT ![Target(c)].must = call[c].op # "password"]
    /\ IF call[c].op = "create" THEN Answer(c) ELSE Goto(c, "revoke")
    /\ UNCHANGED <<session, calls, failures, past>>

\* Mutant: only the session of the request ends.
RevokesOne(c) ==
    LET r == call[c] IN
    /\ At(c, "revoke")
    /\ session' = [i \in DOMAIN session |->
                     IF i = r.used THEN [session[i] EXCEPT !.live = FALSE] ELSE session[i]]
    /\ IF r.op = "password" THEN Goto(c, "open") ELSE Answer(c)
    /\ UNCHANGED <<user, calls, failures, past>>

\* RevokeAllForUserWithReason, or the Revoke of one session by handleLogout.
Revoke(c) ==
    LET r == call[c] IN
    /\ At(c, "revoke")
    /\ session' = [i \in DOMAIN session |->
                     IF (IF r.op = "logout" THEN i = r.used ELSE session[i].user = Target(c))
                     THEN [session[i] EXCEPT !.live = FALSE] ELSE session[i]]
    /\ IF r.op = "password" THEN Goto(c, "open") ELSE Answer(c)
    /\ UNCHANGED <<user, calls, failures, past>>

\* sessions.Create of a login or after a change of password.
Open(c) ==
    LET r == call[c] IN
    /\ At(c, "open")
    /\ session' = Append(session, [user |-> r.by, live |-> TRUE, epoch |-> r.seen.epoch,
                                   late |-> r.seen.epoch # user[r.by].epoch])
    /\ Answer(c)
    /\ UNCHANGED <<user, calls, failures, past>>

-----------------------------------------------------------------------------
(* handleCreateUser *)

\* CheckEmailAvailable.
CheckEmail(c) ==
    /\ At(c, "check")
    /\ IF user[Target(c)].exists THEN Answer(c) ELSE Goto(c, "insert")
    /\ UNCHANGED <<user, session, calls, failures, past>>

\* users.Create; the unique index refuses an email that has come meanwhile.
Insert(c) ==
    LET u == Target(c) IN
    /\ At(c, "insert")
    /\ IF user[u].exists THEN Answer(c) /\ UNCHANGED user
       ELSE /\ user' = [user EXCEPT ![u] = [Fresh(call[c].role = "admin", "pending")
                                              EXCEPT !.temp = TRUE]]
            /\ Goto(c, "assign")
    /\ UNCHANGED <<session, calls, failures, past>>

\* The two statements of AssignUserRole, each with the trigger
\* sync_user_roles_to_users_global_role: insert the role, delete the others.
AssignRole(c) ==
    LET u == Target(c)
        granted == user[u].roles \union {call[c].role}
    IN
    /\ At(c, "assign")
    /\ user' = [user EXCEPT ![u].roles = granted, ![u].admin = "admin" \in granted]
    /\ Goto(c, "unassign")
    /\ UNCHANGED <<session, calls, failures, past>>

\* Mutant: the rows are deleted without the trigger.
UnassignsQuietly(c) ==
    /\ At(c, "unassign")
    /\ user' = [user EXCEPT ![Target(c)].roles = {call[c].role}]
    /\ Goto(c, "must")
    /\ UNCHANGED <<session, calls, failures, past>>

\* The new user loses the role admin if a request has given it meanwhile.
UnassignRoles(c) ==
    LET u == Target(c)
        kept == user[u].roles \intersect {call[c].role}
        removes == Administers(u) /\ "admin" \notin kept
    IN
    /\ At(c, "unassign")
    /\ user' = [user EXCEPT ![u].roles = kept, ![u].admin = "admin" \in kept]
    /\ Goto(c, "must")
    /\ past' = [past EXCEPT !.removals = IF removes THEN @ + 1 ELSE @,
                            !.overlapped = @ \/ (removes /\ call[c].since # past.removals)]
    /\ UNCHANGED <<session, calls, failures>>

\* A statement fails: the handler answers 500 and what it has done remains.  A
\* bulk request goes on: it ignores an error of the statements after the write.
Fail(c) ==
    LET r == call[c]
        u == Target(c)
        unfinished == \/ At(c, "must") \/ At(c, "assign") \/ At(c, "unassign")
                      \/ At(c, "revoke") /\ r.op # "logout"
    IN
    /\ ~At(c, "idle")
    /\ failures < MaxFailures
    /\ failures' = failures + 1
    /\ IF r.bulk /\ At(c, "must") THEN Goto(c, "revoke") ELSE Answer(c)
    /\ past' = [past EXCEPT !.cut = IF unfinished THEN @ \union {u} ELSE @]
    /\ UNCHANGED <<user, session, calls>>

AccessNext ==
    \E c \in Callers :
        \/ CallAdmin(c) \/ CallOwn(c) \/ CallLogin(c)
        \/ Fetch(c) \/ Count(c) \/ Write(c) \/ Must(c) \/ Revoke(c) \/ Open(c)
        \/ CheckEmail(c) \/ Insert(c) \/ AssignRole(c) \/ UnassignRoles(c)
        \/ Fail(c)

AccessSpec(admins, marked) == AccessInit(admins, marked) /\ [][AccessNext]_accessVars

-----------------------------------------------------------------------------
(* Properties *)

(* Rule 3 of canModifyUser: the system is not left without administrators     *)
(* that can log in, unless two requests overlapped that took administration   *)
(* from a user.  The guards judge rows read before the write, so two          *)
(* administrators can remove each other; and AssignUserRole takes a role from *)
(* a new user that was given to it between two of its statements.             *)
SomeoneAdministers == past.overlapped \/ \E u \in Users : Administers(u)

(* Rule 2: whatever overlaps or fails, a system account stays an active       *)
(* administrator.                                                             *)
SystemAccountStays == \A u \in Users : user[u].sys => Administers(u)

(* Triggers and handlers that write global_role, user_roles or both, in two   *)
(* statements, leave the flag and the role in agreement after each of them.   *)
AdminFlagIsRole == \A u \in Users : user[u].admin <=> "admin" \in user[u].roles

\* Request c has written user u and has not ended its sessions yet.
Finishing(c, u) ==
    /\ call[c].op \notin {"logout", "login", "create"}
    /\ At(c, "must") \/ At(c, "revoke")
    /\ Target(c) = u

(* A change of role, a deactivation or a new password ends every session      *)
(* opened before, except one whose login had read the row before the change,  *)
(* and unless a statement of the request failed.                              *)
OldSessionsEnd ==
    \A i \in DOMAIN session :
        LET s == session[i] IN
        s.live /\ s.epoch # user[s.user].epoch =>
            \/ s.late
            \/ s.user \in past.cut
            \/ \E c \in Callers : Finishing(c, s.user)

(* A password that an administrator has chosen must be changed at the next    *)
(* login, unless the request that set it failed half-way or met the user's    *)
(* own change of password between its two statements.                         *)
AdminPasswordIsTemporary ==
    \A u \in Users :
        user[u].temp /\ ~user[u].must =>
            \/ u \in past.cut \union past.crossed
            \/ \E c \in Callers :
                  /\ At(c, "assign") \/ At(c, "unassign") \/ At(c, "must")
                  /\ Target(c) = u
=============================================================================
