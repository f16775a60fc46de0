---------------------------- MODULE AccessProofs ----------------------------
(***************************************************************************)
(* For any users, requests and failures of Access.  First what holds of    *)
(* every row whatever overlaps or fails: types, the flag of an             *)
(* administrator agrees with the role, a system account stays an active    *)
(* administrator.  Then what the requests promise with an administrator to *)
(* begin with: one remains, old sessions end, and a password that an       *)
(* administrator has chosen must be changed.  PromiseInv adds what each    *)
(* request in progress knows of the administrators that are left.          *)
(***************************************************************************)
EXTENDS Access, FiniteSetTheorems, SequenceTheorems, TLAPS

Removals == {"demote", "deactivate", "delete"}

\* A row that keeps what the two theorems say of it.
RowOK(row) ==
    /\ row \in Rows
    /\ row.admin <=> "admin" \in row.roles
    /\ row.sys => row.exists /\ row.admin /\ row.active

\* The rules of canModifyUser were true of the row that was read.  They stay
\* true at the write, since no statement makes an account a system account; a
\* new user is none.
CallOK(r, rows) ==
    /\ r.at # "idle" => r.todo # <<>>
    /\ Len(r.todo) > 1 => r.op \in TargetOps
    /\ r.at \in {"fetch", "count", "write"} => r.op \in TargetOps \union {"password"}
    /\ r.at \in {"count", "write"} /\ r.op \in Removals => ~rows[Head(r.todo)].sys
    /\ r.at \in {"assign", "unassign"} => ~rows[Head(r.todo)].sys

AccessInv ==
    /\ AccessTypeOK
    /\ \A u \in Users : RowOK(user[u])
    /\ \A c \in Callers : CallOK(call[c], user)

-----------------------------------------------------------------------------
(* Rows *)

(* sync_users_global_role_to_user_roles leaves the role admin where the flag*)
(* is.                                                                      *)
LEMMA RolesAgree ==
    ASSUME NEW rs \in SUBSET RoleKeys, NEW admin \in BOOLEAN
    PROVE  RolesOf(rs, admin) \in SUBSET RoleKeys /\ (admin <=> "admin" \in RolesOf(rs, admin))
<1>1. CASE admin = TRUE
  BY <1>1 DEF RolesOf, RoleKeys
<1>2. CASE admin = FALSE
  BY <1>2 DEF RolesOf, RoleKeys
<1>. QED  BY <1>1, <1>2

(* A row of users.Create, with the role that the trigger adds.              *)
LEMMA FreshRow ==
    ASSUME NEW admin \in BOOLEAN, NEW status \in {"active", "pending"}
    PROVE  /\ RowOK(Fresh(admin, status)) /\ ~Fresh(admin, status).sys
           /\ Fresh(admin, status).exists /\ Fresh(admin, status).active
           /\ Fresh(admin, status).admin = admin
<1>1. NoRow \in Rows /\ ~NoRow.sys
  BY DEF NoRow, Rows, RoleKeys
<1>2. ASSUME NEW e \in BOOLEAN, NEW rs \in SUBSET RoleKeys
      PROVE  LET row == [NoRow EXCEPT !.exists = e, !.active = e, !.admin = admin,
                                      !.status = status, !.roles = rs]
             IN  /\ row \in Rows /\ row.sys = NoRow.sys /\ row.exists = e /\ row.active = e
                 /\ row.admin = admin /\ row.roles = rs
  BY <1>1, <1>2 DEF Rows
<1>3. /\ RolesOf({}, admin) \in SUBSET RoleKeys
      /\ admin <=> "admin" \in RolesOf({}, admin)
  BY RolesAgree
<1>4. TRUE \in BOOLEAN
  OBVIOUS
<1>5. /\ Fresh(admin, status) \in Rows /\ Fresh(admin, status).sys = NoRow.sys
      /\ Fresh(admin, status).exists = TRUE /\ Fresh(admin, status).active = TRUE
      /\ Fresh(admin, status).admin = admin
      /\ Fresh(admin, status).roles = RolesOf({}, admin)
  BY <1>2, <1>3, <1>4 DEF Fresh
<1>. QED  BY <1>1, <1>3, <1>5 DEF RowOK

WithRole(row, admin, rs, n) == [row EXCEPT !.admin = admin, !.roles = rs, !.epoch = n]
WithActive(row, a, st, n) == [row EXCEPT !.active = a, !.status = st, !.epoch = n]
Activated(row, a, st) == [row EXCEPT !.active = a, !.status = st]
WithTemp(row, t, n) == [row EXCEPT !.temp = t, !.epoch = n]
WithMust(row, m) == [row EXCEPT !.must = m]

(* A change of role with the flag, of no system account that would lose it. *)
LEMMA SetRole ==
    ASSUME NEW row, RowOK(row), NEW admin \in BOOLEAN, NEW rs \in SUBSET RoleKeys, NEW n \in Nat,
           admin <=> "admin" \in rs, row.sys => admin
    PROVE  RowOK(WithRole(row, admin, rs, n)) /\ WithRole(row, admin, rs, n).sys = row.sys
  BY DEF WithRole, RowOK, Rows

(* A deactivation or deletion, of no system account.                        *)
LEMMA SetActive ==
    ASSUME NEW row, RowOK(row), NEW a \in BOOLEAN, NEW st \in {"active", "disabled"}, NEW n \in Nat,
           row.sys => a
    PROVE  RowOK(WithActive(row, a, st, n)) /\ WithActive(row, a, st, n).sys = row.sys
  BY DEF WithActive, RowOK, Rows

(* An activation.                                                           *)
LEMMA SetStatus ==
    ASSUME NEW row, RowOK(row), NEW a \in BOOLEAN, NEW st \in {"active", "disabled"}, row.sys => a
    PROVE  RowOK(Activated(row, a, st)) /\ Activated(row, a, st).sys = row.sys
  BY DEF Activated, RowOK, Rows

(* A new password.                                                          *)
LEMMA SetTemp ==
    ASSUME NEW row, RowOK(row), NEW t \in BOOLEAN, NEW n \in Nat
    PROVE  RowOK(WithTemp(row, t, n)) /\ WithTemp(row, t, n).sys = row.sys
  BY DEF WithTemp, RowOK, Rows

(* SetMustChangePassword.                                                   *)
LEMMA SetMust ==
    ASSUME NEW row, RowOK(row), NEW m \in BOOLEAN
    PROVE  RowOK(WithMust(row, m)) /\ WithMust(row, m).sys = row.sys
  BY DEF WithMust, RowOK, Rows

(* What each handler writes keeps a row in order, if a removal is not of a    *)
(* system account.                                                            *)
LEMMA UpdatedRow ==
    ASSUME NEW row, RowOK(row), NEW op \in TargetOps \union {"password"},
           op \in Removals => ~row.sys
    PROVE  RowOK(Updated(op, row)) /\ Updated(op, row).sys = row.sys
<1>1. /\ row.epoch + 1 \in Nat /\ row.roles \in SUBSET RoleKeys
      /\ TRUE \in BOOLEAN /\ FALSE \in BOOLEAN
  BY DEF RowOK, Rows
<1>2. CASE op = "promote"
  <2>1. PICK admin \in BOOLEAN : admin = TRUE
    OBVIOUS
  <2>2. Updated(op, row) = WithRole(row, admin, RolesOf(row.roles, admin), row.epoch + 1)
    BY <1>2, <2>1 DEF Updated, WithRole, RowOK, Rows
  <2>3. row.sys => admin
    BY <2>1
  <2>. QED  BY <1>1, <2>2, <2>3, RolesAgree, SetRole
<1>3. CASE op = "demote"
  <2>1. PICK admin \in BOOLEAN : admin = FALSE
    OBVIOUS
  <2>2. Updated(op, row) = WithRole(row, admin, RolesOf(row.roles, admin), row.epoch + 1)
    BY <1>3, <2>1 DEF Updated, WithRole, RowOK, Rows
  <2>3. row.sys => admin
    BY <1>3 DEF Removals
  <2>. QED  BY <1>1, <2>2, <2>3, RolesAgree, SetRole
<1>4. CASE op \in {"deactivate", "delete"}
  <2>1. PICK active \in BOOLEAN : active = FALSE
    OBVIOUS
  <2>2. Updated(op, row) = WithActive(row, active, "disabled", row.epoch + 1)
    BY <1>4, <2>1 DEF Updated, WithActive, RowOK, Rows
  <2>3. row.sys => active
    BY <1>4 DEF Removals
  <2>4. "disabled" \in {"active", "disabled"}
    OBVIOUS
  <2>. QED  BY <1>1, <2>2, <2>3, <2>4, SetActive
<1>5. CASE op = "activate"
  <2>1. PICK active \in BOOLEAN : active = TRUE
    OBVIOUS
  <2>2. Updated(op, row) = Activated(row, active, "active")
    BY <1>5, <2>1 DEF Updated, Activated
  <2>3. (row.sys => active) /\ "active" \in {"active", "disabled"}
    BY <2>1
  <2>. QED  BY <2>2, <2>3, SetStatus
<1>6. CASE op \in {"reset", "password"}
  <2>1. PICK t \in BOOLEAN : Updated(op, row) = WithTemp(row, t, row.epoch + 1)
    BY <1>6, <1>1 DEF Updated, WithTemp, RowOK, Rows
  <2>. QED  BY <1>1, <2>1, SetTemp
<1>. QED  BY <1>2, <1>3, <1>4, <1>5, <1>6 DEF TargetOps

(* A write of one row keeps the others, and makes no account a system account. *)
LEMMA RowWritten ==
    ASSUME AccessInv, NEW u \in Users, NEW row, RowOK(row), row.sys => user[u].sys,
           user' = [user EXCEPT ![u] = row]
    PROVE  /\ user' \in [Users -> Rows]
           /\ \A v \in Users : RowOK(user'[v]) /\ (user'[v].sys => user[v].sys)
<1>1. user \in [Users -> Rows] /\ row \in Rows /\ \A v \in Users : RowOK(user[v])
  BY DEF AccessInv, AccessTypeOK, RowOK
<1>2. user' \in [Users -> Rows]
  BY <1>1
<1>3. ASSUME NEW v \in Users PROVE RowOK(user'[v]) /\ (user'[v].sys => user[v].sys)
  <2>1. CASE v = u
    <3>1. user'[v] = row
      BY <1>1, <2>1
    <3>. QED  BY <2>1, <3>1
  <2>2. CASE v # u
    <3>1. user'[v] = user[v]
      BY <1>1, <2>2
    <3>. QED  BY <1>1, <3>1
  <2>. QED  BY <2>1, <2>2
<1>. QED  BY <1>2, <1>3

-----------------------------------------------------------------------------
(* Requests *)

(* The user whom a request is about.                                        *)
LEMMA TargetIsUser ==
    ASSUME NEW r \in Calls, r.todo # <<>>
    PROVE  Head(r.todo) \in Users
<1>1. r.todo \in Seq(Users)
  BY DEF Calls
<1>. QED  BY <1>1

(* Between requests the rules hold of nothing.                              *)
LEMMA IdleCall == Idle \in Calls /\ \A rows : CallOK(Idle, rows)
<1>1. (CHOOSE u \in Users : TRUE) \in Users
  BY AccessAssumption DEF AccessAssumption
<1>2. NoRow \in Rows
  BY DEF NoRow, Rows, RoleKeys
<1>3. Idle \in Calls /\ Idle.at = "idle" /\ Idle.todo = <<>>
  BY <1>1, <1>2 DEF Idle, Calls, Steps, Ops, TargetOps, RoleKeys
<1>. QED  BY <1>3 DEF CallOK

(* A bulk request that has another user to come.                              *)
LEMMA LongTail ==
    ASSUME NEW S, NEW s \in Seq(S), Len(s) > 1
    PROVE  Tail(s) \in Seq(S) /\ Tail(s) # <<>>
<1>1. s # <<>>
  OBVIOUS
<1>2. Tail(s) \in Seq(S) /\ Len(Tail(s)) = Len(s) - 1
  BY <1>1, HeadTailProperties
<1>3. Len(s) \in Nat
  BY LenProperties
<1>4. ASSUME NEW n \in Nat, n > 1 PROVE n - 1 # 0
  BY <1>4
<1>5. Len(Tail(s)) # 0
  BY <1>2, <1>3, <1>4
<1>6. Len(<<>>) = 0
  BY EmptySeq
<1>. QED  BY <1>2, <1>5, <1>6

(* The response, and the next user of a bulk request.                         *)
LEMMA AfterTargetOK ==
    ASSUME NEW r \in Calls, NEW rows, CallOK(r, rows)
    PROVE  AfterTarget(r) \in Calls /\ CallOK(AfterTarget(r), rows)
<1>1. r.todo \in Seq(Users)
  BY DEF Calls
<1>2. CASE Len(r.todo) > 1
  <2>1. Tail(r.todo) \in Seq(Users) /\ Tail(r.todo) # <<>>
    BY <1>1, <1>2, LongTail
  <2>2. AfterTarget(r) = [r EXCEPT !.at = "fetch", !.todo = Tail(r.todo)]
    BY <1>2 DEF AfterTarget, Calls
  <2>3. /\ AfterTarget(r) \in Calls
        /\ AfterTarget(r).at = "fetch" /\ AfterTarget(r).op = r.op
        /\ AfterTarget(r).todo = Tail(r.todo)
    BY <2>1, <2>2 DEF Calls, Steps
  <2>4. r.op \in TargetOps
    BY <1>2 DEF CallOK
  <2>. QED  BY <2>1, <2>3, <2>4 DEF CallOK
<1>3. CASE ~(Len(r.todo) > 1)
  BY <1>3, IdleCall DEF AfterTarget
<1>. QED  BY <1>2, <1>3

(* A request that goes on with its next statement.                          *)
LEMMA GotoOK ==
    ASSUME NEW r \in Calls, NEW rows, CallOK(r, rows), r.at # "idle", NEW step \in Steps,
           step # "fetch",
           step \in {"count", "write"} => r.at = "count",
           step \in {"assign", "unassign"} => ~rows[Head(r.todo)].sys
    PROVE  [r EXCEPT !.at = step] \in Calls /\ CallOK([r EXCEPT !.at = step], rows)
<1>1. /\ [r EXCEPT !.at = step] \in Calls
      /\ [r EXCEPT !.at = step].at = step /\ [r EXCEPT !.at = step].op = r.op
      /\ [r EXCEPT !.at = step].todo = r.todo
  BY DEF Calls
<1>. QED  BY <1>1 DEF CallOK

(* A request whose rules hold of the rows holds of them after a write that    *)
(* makes no system account.                                                   *)
LEMMA StillOK ==
    ASSUME NEW r \in Calls, NEW before, NEW after, CallOK(r, before),
           \A v \in Users : after[v].sys => before[v].sys
    PROVE  CallOK(r, after)
<1>1. r.todo # <<>> => Head(r.todo) \in Users
  BY TargetIsUser
<1>. QED  BY <1>1 DEF CallOK

(* All requests, after a step of one that makes no system account.          *)
LEMMA CallWritten ==
    ASSUME AccessInv, NEW c \in Callers, NEW r \in Calls, CallOK(r, user'),
           call' = [call EXCEPT ![c] = r],
           \A v \in Users : user'[v].sys => user[v].sys
    PROVE  call' \in [Callers -> Calls] /\ \A d \in Callers : CallOK(call'[d], user')
<1>1. call \in [Callers -> Calls] /\ \A d \in Callers : CallOK(call[d], user)
  BY DEF AccessInv, AccessTypeOK
<1>2. call' \in [Callers -> Calls]
  BY <1>1
<1>3. ASSUME NEW d \in Callers PROVE CallOK(call'[d], user')
  <2>1. CASE d = c
    BY <1>1, <2>1
  <2>2. CASE d # c
    BY <1>1, <2>2, StillOK
  <2>. QED  BY <2>1, <2>2
<1>. QED  BY <1>2, <1>3

(* A step that writes no user.                                                *)
LEMMA NoWrite ==
    ASSUME AccessInv, NEW c \in Callers, NEW r \in Calls, CallOK(r, user),
           call' = [call EXCEPT ![c] = r], user' = user, session' \in Seq(Sessions),
           calls' \in 0..MaxCalls, failures' \in 0..MaxFailures, past' \in Pasts
    PROVE  AccessInv'
<1>1. user' \in [Users -> Rows] /\ \A u \in Users : RowOK(user'[u])
  BY DEF AccessInv, AccessTypeOK
<1>2. CallOK(r, user') /\ \A v \in Users : user'[v].sys => user[v].sys
  OBVIOUS
<1>3. call' \in [Callers -> Calls] /\ \A d \in Callers : CallOK(call'[d], user')
  BY <1>2, CallWritten
<1>. QED  BY <1>1, <1>3 DEF AccessInv, AccessTypeOK

(* A step that writes one user.                                               *)
LEMMA OneWrite ==
    ASSUME AccessInv, NEW c \in Callers, NEW r \in Calls, CallOK(r, user'),
           call' = [call EXCEPT ![c] = r],
           NEW u \in Users, NEW row, RowOK(row), row.sys => user[u].sys,
           user' = [user EXCEPT ![u] = row],
           UNCHANGED <<session, calls, failures>>, past' \in Pasts
    PROVE  AccessInv'
<1>1. /\ user' \in [Users -> Rows]
      /\ \A v \in Users : RowOK(user'[v]) /\ (user'[v].sys => user[v].sys)
  BY RowWritten
<1>2. call' \in [Callers -> Calls] /\ \A d \in Callers : CallOK(call'[d], user')
  BY <1>1, CallWritten
<1>. QED  BY <1>1, <1>2 DEF AccessInv, AccessTypeOK

(* The request of c in a step after the first, and its target.                *)
LEMMA Serving ==
    ASSUME AccessInv, NEW c \in Callers
    PROVE  /\ call[c] \in Calls /\ CallOK(call[c], user)
           /\ session \in Seq(Sessions) /\ calls \in 0..MaxCalls
           /\ failures \in 0..MaxFailures /\ past \in Pasts
           /\ user \in [Users -> Rows] /\ call \in [Callers -> Calls]
           /\ call[c].at # "idle" => Target(c) \in Users
<1>1. call[c] \in Calls /\ CallOK(call[c], user)
  BY DEF AccessInv, AccessTypeOK
<1>2. ASSUME call[c].at # "idle" PROVE Target(c) \in Users
  BY <1>1, <1>2, TargetIsUser DEF CallOK, Target
<1>. QED  BY <1>1, <1>2 DEF AccessInv, AccessTypeOK

(* A step that answers, or takes the next user, and writes no user.         *)
LEMMA AnswerOK ==
    ASSUME AccessInv, NEW c \in Callers, Answer(c), user' = user, session' \in Seq(Sessions),
           calls' \in 0..MaxCalls, failures' \in 0..MaxFailures, past' \in Pasts
    PROVE  AccessInv'
<1>1. call' = [call EXCEPT ![c] = AfterTarget(call[c])]
  BY DEF Answer
<1>2. AfterTarget(call[c]) \in Calls /\ CallOK(AfterTarget(call[c]), user)
  BY Serving, AfterTargetOK
<1>. QED  BY <1>1, <1>2, NoWrite

(* A step that goes on with the next statement and writes no user.          *)
LEMMA GoesOn ==
    ASSUME AccessInv, NEW c \in Callers, NEW step \in {"must", "revoke", "open", "insert", "write"},
           ~At(c, "idle"), step = "write" => At(c, "count"), Goto(c, step), user' = user,
           session' \in Seq(Sessions),
           calls' \in 0..MaxCalls, failures' \in 0..MaxFailures, past' \in Pasts
    PROVE  AccessInv'
<1>1. call' = [call EXCEPT ![c] = [call[c] EXCEPT !.at = step]]
  BY Serving DEF Goto
<1>2. [call[c] EXCEPT !.at = step] \in Calls /\ CallOK([call[c] EXCEPT !.at = step], user)
  BY Serving, GotoOK DEF At, Steps
<1>. QED  BY <1>1, <1>2, NoWrite

-----------------------------------------------------------------------------
(* The steps of a request *)

(* The history after a write, and after a failure.                          *)
LEMMA PastsOK ==
    ASSUME NEW p \in Pasts, NEW n \in Nat, NEW b \in BOOLEAN, NEW us \in SUBSET Users
    PROVE  /\ [p EXCEPT !.removals = n, !.overlapped = b, !.crossed = us] \in Pasts
           /\ [p EXCEPT !.cut = us] \in Pasts
  BY DEF Pasts

(* Rules 1 and 2 are judged: a removal goes on only for no system account.  *)
LEMMA FetchOK == ASSUME AccessInv, NEW c \in Callers, Fetch(c) PROVE AccessInv'
<1>1. user' = user /\ session' \in Seq(Sessions) /\ calls' \in 0..MaxCalls
      /\ failures' \in 0..MaxFailures /\ past' \in Pasts
  BY Serving DEF Fetch
<1>2. CASE Answer(c)
  BY <1>1, <1>2, AnswerOK
<1>3. CASE ~Answer(c)
  <2>. DEFINE row == user[Target(c)]
              step == IF call[c].op \in {"deactivate", "demote"} /\ row.admin THEN "count" ELSE "write"
              r == [call[c] EXCEPT !.seen = row, !.at = step]
  <2>1. call[c] \in Calls /\ CallOK(call[c], user) /\ call[c].at = "fetch" /\ row \in Rows
    BY Serving DEF Fetch, At
  <2>2. ~Refuses(call[c].op, call[c].by, Target(c), row) /\ call' = [call EXCEPT ![c] = r]
    BY <1>3, Serving DEF Fetch
  <2>3. step \in {"count", "write"} /\ step \in Steps
    BY DEF Steps
  <2>4. RowOK(row)
    BY <2>1, Serving DEF AccessInv
  <2>. HIDE DEF row, step
  <2>5. /\ r \in Calls /\ r.at = step /\ r.op = call[c].op /\ r.todo = call[c].todo
    BY <2>1, <2>3 DEF Calls
  <2>. HIDE DEF r
  <2>6. call[c].op \in Removals => ~row.sys
    BY <2>2, <2>4 DEF Refuses, Removals, RowOK
  <2>7. CallOK(r, user)
    BY <2>1, <2>3, <2>5, <2>6 DEF CallOK, Target, row
  <2>. QED  BY <1>1, <2>2, <2>5, <2>7, NoWrite DEF r
<1>. QED  BY <1>2, <1>3

(* Rule 3 is judged.                                                        *)
LEMMA CountOK == ASSUME AccessInv, NEW c \in Callers, Count(c) PROVE AccessInv'
<1>1. /\ user' = user /\ session' \in Seq(Sessions) /\ calls' \in 0..MaxCalls
      /\ failures' \in 0..MaxFailures /\ past' \in Pasts /\ At(c, "count")
  BY Serving DEF Count
<1>2. ~At(c, "idle")
  BY <1>1 DEF At
<1>3. Answer(c) \/ Goto(c, "write")
  BY DEF Count
<1>. QED  BY <1>1, <1>2, <1>3, AnswerOK, GoesOn

(* The write: what rules 1 and 2 found is still true of the row.            *)
LEMMA WriteOK == ASSUME AccessInv, NEW c \in Callers, Write(c) PROVE AccessInv'
<1>. DEFINE u == Target(c)
            row == Updated(call[c].op, user[u])
<1>1. /\ call[c] \in Calls /\ CallOK(call[c], user) /\ call[c].at = "write" /\ u \in Users
      /\ call[c].op \in TargetOps \union {"password"}
      /\ RowOK(user[u]) /\ (call[c].op \in Removals => ~user[u].sys)
  BY Serving DEF Write, At, CallOK, Target, AccessInv
<1>2. user' = [user EXCEPT ![u] = row] /\ RowOK(row) /\ row.sys = user[u].sys
  <2>1. user' = [user EXCEPT ![u] = row]
    BY Serving DEF Write
  <2>. QED  BY <1>1, <2>1, UpdatedRow
<1>. HIDE DEF row, u
<1>3. \A v \in Users : user'[v].sys => user[v].sys
  BY <1>1, <1>2, RowWritten
<1>4. past' \in Pasts
  <2>. DEFINE removes == Administers(Target(c)) /\ call[c].op \in {"demote", "deactivate", "delete"}
              crosses == /\ call[c].op \in {"reset", "password"}
                         /\ \E d \in Callers \ {c} : At(d, "must") /\ Target(d) = Target(c)
  <2>1. past' = [past EXCEPT !.removals = IF removes THEN @ + 1 ELSE @,
                             !.overlapped = @ \/ (removes /\ call[c].since # past.removals),
                             !.crossed = IF crosses THEN @ \union {Target(c)} ELSE @]
    BY DEF Write
  <2>2. past \in Pasts /\ Target(c) \in Users
    BY <1>1, Serving DEF u
  <2>. HIDE DEF removes, crosses
  <2>. DEFINE n == IF removes THEN past.removals + 1 ELSE past.removals
              b == past.overlapped \/ (removes /\ call[c].since # past.removals)
              us == IF crosses THEN past.crossed \union {Target(c)} ELSE past.crossed
  <2>3. past' = [past EXCEPT !.removals = n, !.overlapped = b, !.crossed = us]
    BY <2>1
  <2>4. n \in Nat /\ us \in SUBSET Users
    BY <2>2 DEF Pasts
  <2>5. b \in BOOLEAN
    BY DEF b
  <2>. HIDE DEF n, b, us
  <2>. QED  BY <2>2, <2>3, <2>4, <2>5, PastsOK
<1>5. UNCHANGED <<session, calls, failures>>
  BY DEF Write
<1>6. PICK r \in Calls : CallOK(r, user') /\ call' = [call EXCEPT ![c] = r]
  <2>1. CallOK(call[c], user')
    BY <1>1, <1>3, StillOK
  <2>2. CASE call[c].op = "activate"
    <3>1. call' = [call EXCEPT ![c] = AfterTarget(call[c])]
      BY <2>2 DEF Write, Answer
    <3>. QED  BY <1>1, <2>1, <3>1, AfterTargetOK
  <2>3. CASE call[c].op # "activate"
    <3>. DEFINE step == AfterWrite(call[c].op)
                removes == Administers(u) /\ call[c].op \in {"demote", "deactivate", "delete"}
                since == IF removes THEN call[c].since + 1 ELSE call[c].since
                r == [call[c] EXCEPT !.at = step, !.seen = user'[u], !.since = since]
    <3>1. call' = [call EXCEPT ![c] = r]
      BY <2>3, Serving DEF Write, u
    <3>. HIDE DEF removes
    <3>6. since \in Nat
      BY <1>1 DEF Calls
    <3>. HIDE DEF since
    <3>2. step \in {"revoke", "must"}
      BY <1>1, <2>3 DEF AfterWrite, TargetOps
    <3>3. user'[u] \in Rows
      BY <1>1, <1>2, RowWritten
    <3>. HIDE DEF step
    <3>4. r \in Calls /\ r.at = step /\ r.op = call[c].op /\ r.todo = call[c].todo
      BY <1>1, <3>2, <3>3, <3>6 DEF Calls, Steps
    <3>. HIDE DEF r
    <3>5. CallOK(r, user')
      BY <1>1, <3>2, <3>4 DEF CallOK
    <3>. QED  BY <3>1, <3>4, <3>5
  <2>. QED  BY <2>2, <2>3
<1>. QED  BY <1>1, <1>2, <1>4, <1>5, <1>6, OneWrite

(* The mark of a temporary password.                                        *)
LEMMA MustOK == ASSUME AccessInv, NEW c \in Callers, Must(c) PROVE AccessInv'
<1>. DEFINE u == Target(c)
            m == call[c].op # "password"
<1>1. /\ call[c] \in Calls /\ CallOK(call[c], user) /\ call[c].at = "must" /\ u \in Users
      /\ RowOK(user[u]) /\ m \in BOOLEAN /\ past' \in Pasts
  BY Serving DEF Must, At, AccessInv
<1>2. user' = [user EXCEPT ![u] = WithMust(user[u], m)]
  BY Serving DEF Must, WithMust
<1>. HIDE DEF m, u
<1>3. RowOK(WithMust(user[u], m)) /\ WithMust(user[u], m).sys = user[u].sys
  BY <1>1, SetMust
<1>4. \A v \in Users : user'[v].sys => user[v].sys
  BY <1>1, <1>2, <1>3, RowWritten
<1>5. CallOK(call[c], user')
  BY <1>1, <1>4, StillOK
<1>6. PICK r \in Calls : CallOK(r, user') /\ call' = [call EXCEPT ![c] = r]
  <2>1. CASE Answer(c)
    BY <1>1, <1>5, <2>1, AfterTargetOK DEF Answer
  <2>2. CASE Goto(c, "revoke")
    <3>1. call' = [call EXCEPT ![c] = [call[c] EXCEPT !.at = "revoke"]]
      BY <2>2, Serving DEF Goto
    <3>. QED  BY <1>1, <1>5, <3>1, GotoOK DEF Steps
  <2>. QED  BY <2>1, <2>2 DEF Must
<1>7. UNCHANGED <<session, calls, failures>>
  BY DEF Must
<1>. QED  BY <1>1, <1>2, <1>3, <1>6, <1>7, OneWrite

(* Ending sessions keeps them sessions.                                       *)
LEMMA Ended ==
    ASSUME NEW s \in Sessions
    PROVE  [s EXCEPT !.live = FALSE] \in Sessions
<1>1. ASSUME NEW b \in BOOLEAN PROVE [s EXCEPT !.live = b] \in Sessions
  BY DEF Sessions
<1>. QED  BY <1>1

(* The end of one session or of all.                                        *)
LEMMA RevokeOK == ASSUME AccessInv, NEW c \in Callers, Revoke(c) PROVE AccessInv'
<1>1. /\ user' = user /\ calls' \in 0..MaxCalls /\ failures' \in 0..MaxFailures
      /\ past' \in Pasts /\ At(c, "revoke")
  BY Serving DEF Revoke
<1>2. session' \in Seq(Sessions)
  <2>. DEFINE Ends(i) == IF call[c].op = "logout" THEN i = call[c].used
                         ELSE session[i].user = Target(c)
              Next(i) == IF Ends(i) THEN [session[i] EXCEPT !.live = FALSE] ELSE session[i]
  <2>1. session' = [i \in DOMAIN session |-> Next(i)]
    BY DEF Revoke
  <2>2. session \in Seq(Sessions)
    BY Serving
  <2>3. ASSUME NEW i \in DOMAIN session PROVE Next(i) \in Sessions
    <3>1. session[i] \in Sessions
      BY <2>2
    <3>2. [session[i] EXCEPT !.live = FALSE] \in Sessions
      BY <3>1, Ended
    <3>. QED  BY <3>1, <3>2
  <2>. HIDE DEF Next
  <2>4. DOMAIN session = 1..Len(session) /\ Len(session) \in Nat
    BY <2>2
  <2>. QED  BY <2>1, <2>3, <2>4
<1>3. ~At(c, "idle")
  BY <1>1 DEF At
<1>4. Answer(c) \/ Goto(c, "open")
  BY DEF Revoke
<1>. QED  BY <1>1, <1>2, <1>3, <1>4, AnswerOK, GoesOn

(* A new session.                                                           *)
LEMMA OpenOK == ASSUME AccessInv, NEW c \in Callers, Open(c) PROVE AccessInv'
<1>1. /\ user' = user /\ calls' \in 0..MaxCalls /\ failures' \in 0..MaxFailures
      /\ past' \in Pasts
  BY Serving DEF Open
<1>2. session' \in Seq(Sessions)
  <2>1. call[c].by \in Users /\ call[c].seen.epoch \in Nat
    BY Serving DEF Calls, Rows
  <2>. DEFINE b == call[c].seen.epoch # user[call[c].by].epoch
  <2>2. b \in BOOLEAN
    OBVIOUS
  <2>3. session' = Append(session, [user |-> call[c].by, live |-> TRUE,
                                    epoch |-> call[c].seen.epoch, late |-> b])
    BY DEF Open
  <2>. HIDE DEF b
  <2>4. [user |-> call[c].by, live |-> TRUE, epoch |-> call[c].seen.epoch, late |-> b] \in Sessions
    <3>1. ASSUME NEW l \in BOOLEAN
          PROVE [user |-> call[c].by, live |-> l, epoch |-> call[c].seen.epoch, late |-> b]
                  \in Sessions
      BY <2>1, <2>2 DEF Sessions
    <3>. QED  BY <3>1
  <2>. QED  BY <2>3, <2>4, Serving
<1>3. Answer(c)
  BY DEF Open
<1>. QED  BY <1>1, <1>2, <1>3, AnswerOK

(* The first statement of handleCreateUser.                                 *)
LEMMA CheckEmailOK == ASSUME AccessInv, NEW c \in Callers, CheckEmail(c) PROVE AccessInv'
<1>1. /\ user' = user /\ session' \in Seq(Sessions) /\ calls' \in 0..MaxCalls
      /\ failures' \in 0..MaxFailures /\ past' \in Pasts /\ At(c, "check")
  BY Serving DEF CheckEmail
<1>2. ~At(c, "idle")
  BY <1>1 DEF At
<1>3. Answer(c) \/ Goto(c, "insert")
  BY DEF CheckEmail
<1>. QED  BY <1>1, <1>2, <1>3, AnswerOK, GoesOn

WithGrant(row, rs, admin) == [row EXCEPT !.roles = rs, !.admin = admin]
Marked(row, t) == [row EXCEPT !.temp = t]

(* A row whose roles and flag the two triggers write together.              *)
LEMMA SetGrant ==
    ASSUME NEW row, RowOK(row), ~row.sys, NEW rs \in SUBSET RoleKeys
    PROVE  /\ RowOK(WithGrant(row, rs, "admin" \in rs))
           /\ ~WithGrant(row, rs, "admin" \in rs).sys
<1>1. ASSUME NEW b \in BOOLEAN, b <=> "admin" \in rs
      PROVE  RowOK(WithGrant(row, rs, b)) /\ ~WithGrant(row, rs, b).sys
  BY <1>1 DEF WithGrant, RowOK, Rows
<1>2. ("admin" \in rs) \in BOOLEAN
  OBVIOUS
<1>. QED  BY <1>1, <1>2

(* A new user with a password that an administrator has chosen.             *)
LEMMA SetMarked ==
    ASSUME NEW row, RowOK(row), NEW t \in BOOLEAN
    PROVE  RowOK(Marked(row, t)) /\ Marked(row, t).sys = row.sys
  BY DEF Marked, RowOK, Rows

(* A write in handleCreateUser, after which the request goes on.              *)
LEMMA CreateStep ==
    ASSUME AccessInv, NEW c \in Callers, ~At(c, "idle"), NEW row, RowOK(row), ~row.sys,
           user' = [user EXCEPT ![Target(c)] = row],
           NEW step \in {"assign", "unassign", "must"}, Goto(c, step),
           UNCHANGED <<session, calls, failures>>, past' \in Pasts
    PROVE  AccessInv'
<1>1. call[c] \in Calls /\ CallOK(call[c], user) /\ call[c].at # "idle" /\ Target(c) \in Users
  BY Serving DEF At
<1>2. \A v \in Users : user'[v].sys => user[v].sys
  BY <1>1, RowWritten
<1>3. CallOK(call[c], user')
  BY <1>1, <1>2, StillOK
<1>4. user'[Target(c)] = row
  BY <1>1, Serving
<1>5. call' = [call EXCEPT ![c] = [call[c] EXCEPT !.at = step]]
  BY Serving DEF Goto
<1>6. /\ [call[c] EXCEPT !.at = step] \in Calls
      /\ CallOK([call[c] EXCEPT !.at = step], user')
  <2>1. ~user'[Head(call[c].todo)].sys
    BY <1>4 DEF Target
  <2>. QED  BY <1>1, <1>3, <2>1, GotoOK DEF Steps
<1>. QED  BY <1>1, <1>5, <1>6, OneWrite

(* A new user is no system account.                                         *)
LEMMA InsertOK == ASSUME AccessInv, NEW c \in Callers, Insert(c) PROVE AccessInv'
<1>1. /\ session' \in Seq(Sessions) /\ calls' \in 0..MaxCalls
      /\ failures' \in 0..MaxFailures /\ past' \in Pasts /\ At(c, "insert")
  BY Serving DEF Insert
<1>2. ~At(c, "idle")
  BY <1>1 DEF At
<1>3. CASE Answer(c) /\ UNCHANGED user
  BY <1>1, <1>3, AnswerOK
<1>4. CASE ~(Answer(c) /\ UNCHANGED user)
  <2>. DEFINE admin == call[c].role = "admin"
  <2>1. RowOK(Fresh(admin, "pending")) /\ ~Fresh(admin, "pending").sys
    BY FreshRow
  <2>2. PICK t \in BOOLEAN : t = TRUE
    OBVIOUS
  <2>3. RowOK(Marked(Fresh(admin, "pending"), t)) /\ ~Marked(Fresh(admin, "pending"), t).sys
    BY <2>1, SetMarked
  <2>4. /\ user' = [user EXCEPT ![Target(c)] = Marked(Fresh(admin, "pending"), t)]
        /\ Goto(c, "assign")
    BY <1>4, <2>2 DEF Insert, Marked
  <2>. HIDE DEF admin
  <2>. QED  BY <1>1, <1>2, <2>3, <2>4, CreateStep DEF Insert
<1>. QED  BY <1>3, <1>4

(* The first statement of AssignUserRole.                                   *)
LEMMA AssignRoleOK == ASSUME AccessInv, NEW c \in Callers, AssignRole(c) PROVE AccessInv'
<1>. DEFINE u == Target(c)
            granted == user[u].roles \union {call[c].role}
<1>1. ~At(c, "idle") /\ u \in Users /\ RowOK(user[u]) /\ ~user[u].sys
  BY Serving DEF AssignRole, At, AccessInv, CallOK, Target
<1>2. granted \in SUBSET RoleKeys
  BY <1>1, Serving DEF RowOK, Rows, Calls
<1>3. user' = [user EXCEPT ![u] = WithGrant(user[u], granted, "admin" \in granted)]
  BY <1>1, Serving DEF AssignRole, WithGrant
<1>. HIDE DEF granted
<1>4. /\ RowOK(WithGrant(user[u], granted, "admin" \in granted))
      /\ ~WithGrant(user[u], granted, "admin" \in granted).sys
  BY <1>1, <1>2, SetGrant
<1>5. past' \in Pasts
  BY Serving DEF AssignRole
<1>. QED  BY <1>1, <1>3, <1>4, <1>5, CreateStep DEF AssignRole

(* The second statement of AssignUserRole.                                  *)
LEMMA UnassignRolesOK == ASSUME AccessInv, NEW c \in Callers, UnassignRoles(c) PROVE AccessInv'
<1>. DEFINE u == Target(c)
            kept == user[u].roles \intersect {call[c].role}
<1>1. ~At(c, "idle") /\ u \in Users /\ RowOK(user[u]) /\ ~user[u].sys
  BY Serving DEF UnassignRoles, At, AccessInv, CallOK, Target
<1>2. kept \in SUBSET RoleKeys
  BY <1>1, Serving DEF RowOK, Rows, Calls
<1>3. user' = [user EXCEPT ![u] = WithGrant(user[u], kept, "admin" \in kept)]
  BY <1>1, Serving DEF UnassignRoles, WithGrant
<1>. HIDE DEF kept
<1>4. /\ RowOK(WithGrant(user[u], kept, "admin" \in kept))
      /\ ~WithGrant(user[u], kept, "admin" \in kept).sys
  BY <1>1, <1>2, SetGrant
<1>5. past' \in Pasts
  <2>. DEFINE removes == Administers(u) /\ "admin" \notin kept
              n == IF removes THEN past.removals + 1 ELSE past.removals
              b == past.overlapped \/ (removes /\ call[c].since # past.removals)
  <2>1. past' = [past EXCEPT !.removals = n, !.overlapped = b]
    BY DEF UnassignRoles, kept
  <2>2. past \in Pasts
    BY Serving
  <2>. HIDE DEF removes
  <2>3. n \in Nat /\ b \in BOOLEAN
    BY <2>2 DEF Pasts
  <2>. HIDE DEF n, b
  <2>. QED  BY <2>1, <2>2, <2>3 DEF Pasts
<1>. QED  BY <1>1, <1>3, <1>4, <1>5, CreateStep DEF UnassignRoles

(* A statement that fails changes no user.                                  *)
LEMMA FailOK == ASSUME AccessInv, NEW c \in Callers, Fail(c) PROVE AccessInv'
<1>. DEFINE unfinished == \/ At(c, "must") \/ At(c, "assign") \/ At(c, "unassign")
                          \/ At(c, "revoke") /\ call[c].op # "logout"
            us == IF unfinished THEN past.cut \union {Target(c)} ELSE past.cut
<1>1. /\ ~At(c, "idle") /\ user' = user /\ session' \in Seq(Sessions) /\ calls' \in 0..MaxCalls
      /\ Target(c) \in Users /\ past \in Pasts
  BY Serving DEF Fail, At
<1>2. failures' \in 0..MaxFailures
  BY Serving, AccessAssumption DEF Fail, AccessAssumption
<1>3. past' \in Pasts
  <2>1. past' = [past EXCEPT !.cut = us]
    BY DEF Fail
  <2>2. us \in SUBSET Users
    BY <1>1 DEF Pasts
  <2>. HIDE DEF us
  <2>. QED  BY <1>1, <2>1, <2>2, PastsOK
<1>4. Answer(c) \/ Goto(c, "revoke")
  BY DEF Fail
<1>. QED  BY <1>1, <1>2, <1>3, <1>4, AnswerOK, GoesOn

-----------------------------------------------------------------------------
(* How requests begin *)

(* A request that begins writes no user.                                    *)
LEMMA Accepted ==
    ASSUME AccessInv, NEW c \in Callers, NEW r \in Calls, CallOK(r, user), Accept(c, r)
    PROVE  AccessInv'
<1>1. call' = [call EXCEPT ![c] = r]
  BY DEF Accept
<1>2. calls' \in 0..MaxCalls
  BY Serving, AccessAssumption DEF Accept, AccessAssumption
<1>3. /\ user' = user /\ session' \in Seq(Sessions) /\ failures' \in 0..MaxFailures
      /\ past' \in Pasts
  BY Serving DEF Accept
<1>. QED  BY <1>1, <1>2, <1>3, NoWrite

(* What a request begins with: no removal begins with its write.            *)
LEMMA RequestOK ==
    ASSUME AccessInv, NEW first \in {"fetch", "check", "write", "revoke", "open"}, NEW op \in Ops,
           NEW by \in Users, NEW todo \in Seq(Users), todo # <<>>, NEW bulk \in BOOLEAN,
           NEW role \in RoleKeys, NEW used \in Nat,
           first = "write" => op = "password",
           first = "fetch" => op \in TargetOps,
           Len(todo) > 1 => op \in TargetOps
    PROVE  /\ Request(first, op, by, todo, bulk, role, used) \in Calls
           /\ CallOK(Request(first, op, by, todo, bulk, role, used), user)
<1>. DEFINE r == Request(first, op, by, todo, bulk, role, used)
<1>1. past.removals \in Nat
  BY DEF AccessInv, AccessTypeOK, Pasts
<1>2. NoRow \in Rows
  BY DEF NoRow, Rows, RoleKeys
<1>3. r \in Calls /\ r.at = first /\ r.op = op /\ r.todo = todo
  BY <1>1, <1>2 DEF Request, Calls, Steps
<1>. HIDE DEF r
<1>4. CallOK(r, user)
  BY <1>3 DEF CallOK, Removals
<1>. QED  BY <1>3, <1>4 DEF r

(* A request that names one user is no bulk request.                          *)
LEMMA OneUser ==
    ASSUME NEW u \in Users
    PROVE  <<u>> \in Seq(Users) /\ <<u>> # <<>> /\ ~(Len(<<u>>) > 1)
  OBVIOUS

(* The user of a session.                                                     *)
LEMMA SessionUser ==
    ASSUME AccessInv, NEW i \in DOMAIN session
    PROVE  session[i].user \in Users /\ i \in Nat
<1>1. session \in Seq(Sessions)
  BY DEF AccessInv, AccessTypeOK
<1>2. session[i] \in Sessions /\ i \in Nat
  BY <1>1
<1>. QED  BY <1>2 DEF Sessions

(* The requests of administration.                                          *)
LEMMA CallAdminOK == ASSUME AccessInv, NEW c \in Callers, CallAdmin(c) PROVE AccessInv'
<1>1. PICK i \in DOMAIN session :
         LET by == session[i].user IN
         \/ ChangeUserRole(c, by, i) \/ DeactivateUser(c, by, i) \/ ActivateUser(c, by, i)
         \/ DeleteUser(c, by, i) \/ ResetUserPassword(c, by, i) \/ CreateUser(c, by, i)
         \/ BulkDeactivateUsers(c, by, i) \/ BulkResetPassword(c, by, i)
  BY DEF CallAdmin
<1>. DEFINE by == session[i].user
<1>2. by \in Users /\ i \in Nat
  BY SessionUser
<1>. HIDE DEF by
<1>3. ASSUME NEW u \in Users, NEW op \in TargetOps,
             Accept(c, Request("fetch", op, by, <<u>>, FALSE, "member", i))
      PROVE  AccessInv'
  <2>1. /\ Request("fetch", op, by, <<u>>, FALSE, "member", i) \in Calls
        /\ CallOK(Request("fetch", op, by, <<u>>, FALSE, "member", i), user)
    BY <1>2, OneUser, RequestOK DEF Ops, RoleKeys
  <2>. QED  BY <1>3, <2>1, Accepted
<1>4. ASSUME NEW u \in Users, NEW role \in RoleKeys,
             Accept(c, Request("check", "create", by, <<u>>, FALSE, role, i))
      PROVE  AccessInv'
  <2>1. /\ Request("check", "create", by, <<u>>, FALSE, role, i) \in Calls
        /\ CallOK(Request("check", "create", by, <<u>>, FALSE, role, i), user)
    BY <1>2, OneUser, RequestOK DEF Ops
  <2>. QED  BY <1>4, <2>1, Accepted
<1>5. ASSUME NEW todo \in Bulks, NEW op \in TargetOps,
             Accept(c, Request("fetch", op, by, todo, TRUE, "member", i))
      PROVE  AccessInv'
  <2>1. todo \in Seq(Users) /\ todo # <<>>
    BY AccessAssumption DEF AccessAssumption
  <2>2. /\ Request("fetch", op, by, todo, TRUE, "member", i) \in Calls
        /\ CallOK(Request("fetch", op, by, todo, TRUE, "member", i), user)
    BY <1>2, <2>1, RequestOK DEF Ops, RoleKeys
  <2>. QED  BY <1>5, <2>2, Accepted
<1>6. {"promote", "demote", "deactivate", "delete", "activate", "reset"} \subseteq TargetOps
  BY DEF TargetOps
<1>7. CASE ChangeUserRole(c, by, i)
  BY <1>3, <1>6, <1>7 DEF ChangeUserRole
<1>8. CASE DeactivateUser(c, by, i) \/ ActivateUser(c, by, i) \/ DeleteUser(c, by, i)
  BY <1>3, <1>6, <1>8 DEF DeactivateUser, ActivateUser, DeleteUser
<1>9. CASE ResetUserPassword(c, by, i)
  BY <1>3, <1>6, <1>9 DEF ResetUserPassword
<1>10. CASE CreateUser(c, by, i)
  BY <1>4, <1>10 DEF CreateUser
<1>11. CASE BulkDeactivateUsers(c, by, i) \/ BulkResetPassword(c, by, i)
  BY <1>5, <1>6, <1>11 DEF BulkDeactivateUsers, BulkResetPassword
<1>. QED  BY <1>1, <1>7, <1>8, <1>9, <1>10, <1>11 DEF by

(* The requests about the user's own account.                               *)
LEMMA CallOwnOK == ASSUME AccessInv, NEW c \in Callers, CallOwn(c) PROVE AccessInv'
<1>1. PICK i \in DOMAIN session :
         Logout(c, session[i].user, i) \/ ChangePassword(c, session[i].user, i)
  BY DEF CallOwn
<1>. DEFINE by == session[i].user
<1>2. by \in Users /\ i \in Nat
  BY SessionUser
<1>. HIDE DEF by
<1>3. ASSUME NEW first \in {"revoke", "write"}, NEW op \in {"logout", "password"},
             first = "write" => op = "password",
             Accept(c, Request(first, op, by, <<by>>, FALSE, "member", i))
      PROVE  AccessInv'
  <2>1. /\ Request(first, op, by, <<by>>, FALSE, "member", i) \in Calls
        /\ CallOK(Request(first, op, by, <<by>>, FALSE, "member", i), user)
    BY <1>2, <1>3, OneUser, RequestOK DEF Ops, RoleKeys
  <2>. QED  BY <1>3, <2>1, Accepted
<1>. QED  BY <1>1, <1>3 DEF Logout, ChangePassword, by

(* A login, which has read its row.                                         *)
LEMMA CallLoginOK == ASSUME AccessInv, NEW c \in Callers, CallLogin(c) PROVE AccessInv'
<1>1. PICK u \in Users :
         Accept(c, [Request("open", "login", u, <<u>>, FALSE, "member", 0) EXCEPT !.seen = user[u]])
  BY DEF CallLogin
<1>. DEFINE q == Request("open", "login", u, <<u>>, FALSE, "member", 0)
            r == [q EXCEPT !.seen = user[u]]
<1>2. q \in Calls /\ CallOK(q, user)
  BY OneUser, RequestOK DEF Ops, RoleKeys
<1>3. user[u] \in Rows
  BY Serving
<1>. HIDE DEF q
<1>4. r \in Calls /\ r.at = q.at /\ r.op = q.op /\ r.todo = q.todo
  BY <1>2, <1>3 DEF Calls
<1>. HIDE DEF r
<1>5. CallOK(r, user)
  BY <1>2, <1>4 DEF CallOK
<1>. QED  BY <1>1, <1>4, <1>5, Accepted DEF q, r

-----------------------------------------------------------------------------
(* The invariant *)

(* The other users that AccessInit begins with.                               *)
LEMMA OtherRows == ASSUME NEW o \in Others PROVE RowOK(o)
<1>1. RowOK(Fresh(FALSE, "active")) /\ ~Fresh(FALSE, "active").sys
  BY FreshRow
<1>2. CASE o = NoRow
  BY <1>2 DEF NoRow, RowOK, Rows, RoleKeys
<1>3. CASE o = Fresh(FALSE, "active")
  BY <1>1, <1>3
<1>4. CASE o = [Fresh(FALSE, "active") EXCEPT !.roles = {"auditor"}]
  <2>1. Fresh(FALSE, "active") \in Rows /\ Fresh(FALSE, "active").admin = FALSE
    BY <1>1, FreshRow DEF RowOK
  <2>. QED  BY <1>1, <1>4, <2>1 DEF RowOK, Rows, RoleKeys
<1>5. CASE o = [Fresh(FALSE, "active") EXCEPT !.active = FALSE, !.status = "disabled"]
  <2>1. o = Activated(Fresh(FALSE, "active"), FALSE, "disabled")
    BY <1>5 DEF Activated
  <2>. QED  BY <1>1, <2>1, SetStatus
<1>. QED  BY <1>2, <1>3, <1>4, <1>5 DEF Others

(* The administrators that AccessInit begins with.                            *)
LEMMA FirstAdmin ==
    ASSUME NEW sys \in BOOLEAN
    PROVE  RowOK([Fresh(TRUE, "active") EXCEPT !.sys = sys])
<1>1. /\ RowOK(Fresh(TRUE, "active")) /\ Fresh(TRUE, "active").exists
      /\ Fresh(TRUE, "active").active /\ Fresh(TRUE, "active").admin
  BY FreshRow
<1>. QED  BY <1>1 DEF RowOK, Rows

(* The administrators in some order, for their first sessions.              *)
LEMMA SeqOfSet ==
    ASSUME NEW S, IsFiniteSet(S)
    PROVE  Cardinality(S) \in Nat /\ SetToSeq(S) \in [1..Cardinality(S) -> S]
<1>1. Cardinality(S) \in Nat /\ ExistsBijection(1..Cardinality(S), S)
  BY FS_CardinalityType
<1>2. PICK f \in Bijection(1..Cardinality(S), S) : TRUE
  BY <1>1 DEF ExistsBijection
<1>3. f \in [1..Cardinality(S) -> S] /\ IsInjective(f)
  BY <1>2 DEF Bijection, Injection, IsInjective
<1>4. \E g \in [1..Cardinality(S) -> S] : IsInjective(g)
  BY <1>3
<1>. QED  BY <1>1, <1>4 DEF SetToSeq

(* The invariant holds of what the administration tool has made.            *)
LEMMA AccessStart ==
    ASSUME NEW admins \in SUBSET Users, NEW marked, AccessInit(admins, marked)
    PROVE  AccessInv
<1>1. user \in [Users -> Rows] /\ \A u \in Users : RowOK(user[u])
  <2>1. PICK sys \in BOOLEAN, o \in Others :
           user = [u \in Users |-> IF u \notin admins THEN o
                                   ELSE [Fresh(TRUE, "active") EXCEPT !.sys = sys /\ u = marked]]
    BY DEF AccessInit
  <2>2. ASSUME NEW u \in Users PROVE RowOK(user[u])
    <3>1. CASE u \notin admins
      BY <2>1, <3>1, OtherRows
    <3>2. CASE u \in admins
      <4>. DEFINE b == sys /\ u = marked
      <4>1. b \in BOOLEAN /\ user[u] = [Fresh(TRUE, "active") EXCEPT !.sys = b]
        BY <2>1, <3>2
      <4>. HIDE DEF b
      <4>. QED  BY <4>1, FirstAdmin
    <3>. QED  BY <3>1, <3>2
  <2>3. user = [u \in Users |-> user[u]]
    BY <2>1
  <2>. QED  BY <2>2, <2>3 DEF RowOK
<1>2. session \in Seq(Sessions)
  <2>. DEFINE n == Cardinality(admins)
              First(i) == [user |-> SetToSeq(admins)[i], live |-> TRUE, epoch |-> 0, late |-> FALSE]
  <2>1. IsFiniteSet(admins)
    BY FS_Subset, AccessAssumption DEF AccessAssumption
  <2>2. n \in Nat /\ SetToSeq(admins) \in [1..n -> admins]
    BY <2>1, SeqOfSet
  <2>3. ASSUME NEW i \in 1..n PROVE First(i) \in Sessions
    <3>1. SetToSeq(admins)[i] \in Users
      BY <2>2
    <3>2. ASSUME NEW u \in Users, NEW l \in BOOLEAN, NEW b \in BOOLEAN
          PROVE  [user |-> u, live |-> l, epoch |-> 0, late |-> b] \in Sessions
      BY DEF Sessions
    <3>. QED  BY <3>1, <3>2
  <2>4. session = [i \in 1..n |-> First(i)]
    BY DEF AccessInit
  <2>. HIDE DEF First, n
  <2>. QED  BY <2>2, <2>3, <2>4
<1>3. call \in [Callers -> Calls] /\ \A c \in Callers : CallOK(call[c], user)
  BY IdleCall DEF AccessInit
<1>4. past \in Pasts
  <2>1. \A b \in BOOLEAN : [removals |-> 0, overlapped |-> b, cut |-> {}, crossed |-> {}] \in Pasts
    BY DEF Pasts
  <2>. QED  BY <2>1 DEF AccessInit
<1>5. calls \in 0..MaxCalls /\ failures \in 0..MaxFailures
  BY AccessAssumption DEF AccessInit, AccessAssumption
<1>. QED  BY <1>1, <1>2, <1>3, <1>4, <1>5 DEF AccessInv, AccessTypeOK

(* Every statement of every request keeps the invariant.                    *)
LEMMA AccessStep == AccessInv /\ [AccessNext]_accessVars => AccessInv'
<1>. SUFFICES ASSUME AccessInv, [AccessNext]_accessVars PROVE AccessInv'
  OBVIOUS
<1>1. ASSUME NEW c \in Callers, CallAdmin(c) \/ CallOwn(c) \/ CallLogin(c) PROVE AccessInv'
  BY <1>1, CallAdminOK, CallOwnOK, CallLoginOK
<1>2. ASSUME NEW c \in Callers, Fetch(c) \/ Count(c) \/ Write(c) PROVE AccessInv'
  BY <1>2, FetchOK, CountOK, WriteOK
<1>3. ASSUME NEW c \in Callers, Must(c) \/ Revoke(c) \/ Open(c) PROVE AccessInv'
  BY <1>3, MustOK, RevokeOK, OpenOK
<1>4. ASSUME NEW c \in Callers,
             CheckEmail(c) \/ Insert(c) \/ AssignRole(c) \/ UnassignRoles(c) \/ Fail(c)
      PROVE  AccessInv'
  BY <1>4, CheckEmailOK, InsertOK, AssignRoleOK, UnassignRolesOK, FailOK
<1>5. CASE UNCHANGED accessVars
  BY <1>5 DEF accessVars, AccessInv, AccessTypeOK
<1>. QED  BY <1>1, <1>2, <1>3, <1>4, <1>5 DEF AccessNext

(* The rows of table users and the requests in progress have their types, for *)
(* any administrators to begin with.                                          *)
THEOREM AccessTyped ==
    ASSUME NEW admins \in SUBSET Users, NEW marked
    PROVE  AccessSpec(admins, marked) => []AccessTypeOK
<1>1. AccessInit(admins, marked) => AccessInv
  BY AccessStart
<1>2. AccessInv => AccessTypeOK
  BY DEF AccessInv
<1>. QED  BY <1>1, <1>2, AccessStep, PTL DEF AccessSpec

(* Rule 2 of canModifyUser: whatever requests overlap and whichever of their  *)
(* statements fail, a system account stays an active administrator.           *)
THEOREM SystemAccountsStay ==
    ASSUME NEW admins \in SUBSET Users, NEW marked
    PROVE  AccessSpec(admins, marked) => []SystemAccountStays
<1>1. AccessInit(admins, marked) => AccessInv
  BY AccessStart
<1>2. AccessInv => SystemAccountStays
  BY DEF AccessInv, RowOK, SystemAccountStays, Administers
<1>. QED  BY <1>1, <1>2, AccessStep, PTL DEF AccessSpec

(* The triggers of migration 028 and the two statements of AssignUserRole     *)
(* leave the flag and the role in agreement after each of them.               *)
THEOREM FlagsAgree ==
    ASSUME NEW admins \in SUBSET Users, NEW marked
    PROVE  AccessSpec(admins, marked) => []AdminFlagIsRole
<1>1. AccessInit(admins, marked) => AccessInv
  BY AccessStart
<1>2. AccessInv => AdminFlagIsRole
  BY DEF AccessInv, RowOK, AdminFlagIsRole
<1>. QED  BY <1>1, <1>2, AccessStep, PTL DEF AccessSpec

-----------------------------------------------------------------------------
(* The promises to the administrators: what the requests in progress know of  *)
(* each other.                                                                *)

\* The request is between its look at the user whose administration it may take
\* and the statement that takes it.
Takes(r) ==
    \/ r.at \in {"count", "write"} /\ r.op \in Removals
    \/ r.at \in {"assign", "unassign"}

\* As long as no other request has taken administration from a user since r
\* began, its caller administers, and what it is about to take is another's.
RemovalOK(r) ==
    /\ r.since <= past.removals
    /\ r.at \in {"check", "insert", "assign", "unassign"} => r.op = "create"
    /\ r.op \in TargetOps \union {"create"} /\ r.since = past.removals => Administers(r.by)
    /\ Takes(r) /\ r.since = past.removals => Head(r.todo) # r.by

\* A change of one's own password marks one's own row, which has no password
\* of an administrator, unless a reset has crossed it.
PasswordOK(r) ==
    r.op = "password" =>
        /\ Head(r.todo) = r.by
        /\ r.at = "must" => ~user[r.by].temp \/ r.by \in past.crossed

CallerOK(r) ==
    r.at # "idle" =>
        /\ user[r.by].exists
        /\ RemovalOK(r)
        /\ PasswordOK(r)

PromiseInv ==
    /\ AccessInv
    /\ \A i \in DOMAIN session : user[session[i].user].exists
    /\ \A c \in Callers : CallerOK(call[c])
    /\ SomeoneAdministers
    /\ OldSessionsEnd
    /\ AdminPasswordIsTemporary

(* What the write of each handler changes of a row.                         *)
LEMMA UpdatedFields ==
    ASSUME NEW row \in Rows, NEW op \in TargetOps \union {"password"}
    PROVE  /\ Updated(op, row).exists = row.exists
           /\ Updated(op, row).must = row.must
           /\ op \notin Removals =>
                 /\ row.admin => Updated(op, row).admin
                 /\ row.active => Updated(op, row).active
           /\ Updated(op, row).epoch = IF op = "activate" THEN row.epoch ELSE row.epoch + 1
           /\ op = "password" => ~Updated(op, row).temp
           /\ op \notin {"password", "reset"} => Updated(op, row).temp = row.temp
<1>1. PICK yes \in BOOLEAN, no \in BOOLEAN : yes = TRUE /\ no = FALSE
  OBVIOUS
<1>2. row.epoch \in Nat /\ row.epoch + 1 \in Nat
  BY DEF Rows
<1>3. CASE op \in {"promote", "demote"}
  <2>0. PICK admin \in BOOLEAN : admin = (op = "promote")
    OBVIOUS
  <2>1. PICK rs : admin = (op = "promote") /\ rs = RolesOf(row.roles, admin)
    BY <2>0
  <2>2. Updated(op, row) = WithRole(row, admin, rs, row.epoch + 1)
    BY <1>3, <2>1 DEF Updated, WithRole, Rows
  <2>3. /\ WithRole(row, admin, rs, row.epoch + 1).exists = row.exists
        /\ WithRole(row, admin, rs, row.epoch + 1).must = row.must
        /\ WithRole(row, admin, rs, row.epoch + 1).temp = row.temp
        /\ WithRole(row, admin, rs, row.epoch + 1).active = row.active
        /\ WithRole(row, admin, rs, row.epoch + 1).admin = admin
        /\ WithRole(row, admin, rs, row.epoch + 1).epoch = row.epoch + 1
    BY DEF WithRole, Rows
  <2>. QED  BY <1>3, <2>1, <2>2, <2>3 DEF Removals
<1>4. CASE op \in {"deactivate", "delete"}
  <2>1. Updated(op, row) = WithActive(row, no, "disabled", row.epoch + 1)
    BY <1>1, <1>4 DEF Updated, WithActive, Rows
  <2>2. /\ WithActive(row, no, "disabled", row.epoch + 1).exists = row.exists
        /\ WithActive(row, no, "disabled", row.epoch + 1).must = row.must
        /\ WithActive(row, no, "disabled", row.epoch + 1).temp = row.temp
        /\ WithActive(row, no, "disabled", row.epoch + 1).epoch = row.epoch + 1
    BY DEF WithActive, Rows
  <2>. QED  BY <1>4, <2>1, <2>2 DEF Removals
<1>5. CASE op = "activate"
  <2>1. Updated(op, row) = Activated(row, yes, "active")
    BY <1>1, <1>5 DEF Updated, Activated
  <2>2. /\ Activated(row, yes, "active").exists = row.exists
        /\ Activated(row, yes, "active").must = row.must
        /\ Activated(row, yes, "active").temp = row.temp
        /\ Activated(row, yes, "active").admin = row.admin
        /\ Activated(row, yes, "active").active = yes
        /\ Activated(row, yes, "active").epoch = row.epoch
    BY DEF Activated, Rows
  <2>. QED  BY <1>1, <1>5, <2>1, <2>2
<1>6. CASE op \in {"reset", "password"}
  <2>1. PICK t \in BOOLEAN : t = (op = "reset")
    OBVIOUS
  <2>2. Updated(op, row) = WithTemp(row, t, row.epoch + 1)
    BY <1>6, <2>1 DEF Updated, WithTemp, Rows
  <2>3. /\ WithTemp(row, t, row.epoch + 1).exists = row.exists
        /\ WithTemp(row, t, row.epoch + 1).must = row.must
        /\ WithTemp(row, t, row.epoch + 1).temp = t
        /\ WithTemp(row, t, row.epoch + 1).admin = row.admin
        /\ WithTemp(row, t, row.epoch + 1).active = row.active
        /\ WithTemp(row, t, row.epoch + 1).epoch = row.epoch + 1
    BY <1>2 DEF WithTemp, Rows
  <2>. QED  BY <1>6, <2>1, <2>2, <2>3
<1>. QED  BY <1>3, <1>4, <1>5, <1>6 DEF TargetOps

\* What the step of caller c leaves of what the other requests know.
Respects(c) ==
    /\ past.removals <= past'.removals
    /\ past'.removals = past.removals =>
          \A u \in Users : Administers(u) => Administers(u)'
    /\ \A u \in Users : user[u].exists => user'[u].exists
    /\ past.crossed \subseteq past'.crossed
    /\ \A d \in Callers \ {c} :
          At(d, "must") /\ user[Target(d)].exists /\ user'[Target(d)].temp =>
              user[Target(d)].temp \/ Target(d) \in past'.crossed

(* A request after such a step, unless it is the change of a password that    *)
(* marks its row.                                                             *)
LEMMA RequestStays ==
    ASSUME PromiseInv, AccessInv', NEW c \in Callers, Respects(c), NEW r \in Calls, CallerOK(r),
           r.at = "must" /\ r.op = "password" => ~user'[r.by].temp \/ r.by \in past'.crossed
    PROVE  CallerOK(r)'
<1> SUFFICES ASSUME r.at # "idle"
             PROVE  user'[r.by].exists /\ RemovalOK(r)' /\ PasswordOK(r)'
  BY DEF CallerOK
<1>1. /\ r.by \in Users /\ r.since \in Nat
      /\ past.removals \in Nat /\ past'.removals \in Nat /\ past.removals <= past'.removals
      /\ user[r.by].exists /\ RemovalOK(r) /\ PasswordOK(r)
  BY DEF Calls, PromiseInv, AccessInv, AccessTypeOK, Pasts, CallerOK, Respects
<1>2. user'[r.by].exists
  BY <1>1 DEF Respects
<1>3. RemovalOK(r)'
  <2>1. r.since <= past.removals /\ r.since <= past'.removals
    BY <1>1 DEF RemovalOK
  <2>2. r.since = past'.removals =>
            r.since = past.removals /\ past'.removals = past.removals
    BY <1>1, <2>1
  <2>3. r.since = past'.removals /\ Administers(r.by) => Administers(r.by)'
    BY <1>1, <2>2 DEF Respects
  <2>. QED  BY <1>1, <2>1, <2>2, <2>3 DEF RemovalOK, Takes
<1>4. PasswordOK(r)'
  BY <1>1 DEF PasswordOK
<1>. QED  BY <1>2, <1>3, <1>4

(* One request makes a step that respects the others.                       *)
LEMMA OthersStay ==
    ASSUME PromiseInv, AccessInv', NEW c \in Callers, Respects(c), NEW r,
           call' = [call EXCEPT ![c] = r], CallerOK(r)'
    PROVE  \A d \in Callers : CallerOK(call[d])'
<1>1. call \in [Callers -> Calls] /\ \A d \in Callers : CallerOK(call[d])
  BY DEF PromiseInv, AccessInv, AccessTypeOK
<1>2. ASSUME NEW d \in Callers
      PROVE  CallerOK(call[d])'
  <2>1. CASE d = c
    <3>1. call'[d] = r
      BY <1>1, <2>1
    <3>. QED  BY <3>1 DEF CallerOK, RemovalOK, PasswordOK, Takes
  <2>2. CASE d # c
    <3>1. PICK x \in Calls : x = call[d] /\ x = call'[d]
      BY <1>1, <2>2
    <3>2. CallerOK(x)
      BY <1>1, <3>1
    <3>3. x.at = "must" /\ x.op = "password" => ~user'[x.by].temp \/ x.by \in past'.crossed
      <4> SUFFICES ASSUME x.at = "must", x.op = "password", user'[x.by].temp
                   PROVE  x.by \in past'.crossed
        OBVIOUS
      <4>1. /\ At(d, "must") /\ Target(d) = x.by /\ user[x.by].exists
            /\ ~user[x.by].temp \/ x.by \in past.crossed
        BY <3>1, <3>2 DEF CallerOK, PasswordOK, At, Target
      <4>. QED  BY <2>2, <4>1 DEF Respects
    <3>4. CallerOK(x)'
      BY <3>2, <3>3, RequestStays
    <3>. QED  BY <3>1, <3>4 DEF CallerOK, RemovalOK, PasswordOK, Takes
  <2>. QED  BY <2>1, <2>2
<1>. QED  BY <1>2

(* A step that writes no user.                                              *)
LEMMA QuietRespects ==
    ASSUME PromiseInv, NEW c \in Callers, user' = user,
           past' = past \/ \E us : past' = [past EXCEPT !.cut = us]
    PROVE  Respects(c) /\ past'.removals = past.removals /\ past'.crossed = past.crossed
           /\ past'.overlapped = past.overlapped
<1>1. past \in Pasts
  BY DEF PromiseInv, AccessInv, AccessTypeOK
<1>2. /\ past'.removals = past.removals /\ past'.crossed = past.crossed
      /\ past'.overlapped = past.overlapped
  BY <1>1 DEF Pasts
<1>. QED  BY <1>1, <1>2 DEF Respects, Administers, Pasts

(* The response, or the next user of a bulk request.                        *)
LEMMA AnswerStays ==
    ASSUME NEW r \in Calls, NEW rows, CallOK(r, rows), CallerOK(r), r.at # "idle"
    PROVE  CallerOK(AfterTarget(r))
<1>1. CASE Len(r.todo) > 1
  <2>1. r.todo \in Seq(Users)
    BY DEF Calls
  <2>2. AfterTarget(r) = [r EXCEPT !.at = "fetch", !.todo = Tail(r.todo)]
    BY <1>1 DEF AfterTarget, Calls
  <2>3. /\ AfterTarget(r).at = "fetch" /\ AfterTarget(r).op = r.op
        /\ AfterTarget(r).by = r.by /\ AfterTarget(r).since = r.since
    BY <2>2 DEF Calls
  <2>4. r.op \in TargetOps /\ r.op # "password"
    BY <1>1 DEF CallOK, TargetOps
  <2>. QED  BY <2>3, <2>4 DEF CallerOK, RemovalOK, PasswordOK, Takes
<1>2. CASE ~(Len(r.todo) > 1)
  <2>1. AfterTarget(r) = Idle /\ Idle.at = "idle"
    BY <1>2 DEF AfterTarget, Idle
  <2>. QED  BY <2>1 DEF CallerOK
<1>. QED  BY <1>1, <1>2

(* The next statement of a request.                                         *)
LEMMA GotoStays ==
    ASSUME NEW r \in Calls, CallerOK(r), r.at # "idle", NEW step \in Steps,
           step \in {"check", "insert", "assign", "unassign"} => r.op = "create",
           step \in {"count", "write", "assign", "unassign"} =>
               Takes(r) \/ Head(r.todo) # r.by \/ r.since # past.removals \/ r.op \notin Removals \union {"create"},
           step = "must" /\ r.op = "password" => ~user[r.by].temp \/ r.by \in past.crossed
    PROVE  CallerOK([r EXCEPT !.at = step])
<1>1. PICK x : x = [r EXCEPT !.at = step]
  OBVIOUS
<1>2. /\ x.at = step /\ x.op = r.op /\ x.by = r.by /\ x.since = r.since /\ x.todo = r.todo
  BY <1>1 DEF Calls
<1>3. RemovalOK(x)
  BY <1>2 DEF CallerOK, RemovalOK, Takes
<1>4. CallerOK(x)
  BY <1>2, <1>3 DEF CallerOK, PasswordOK
<1>. QED  BY <1>1, <1>4

\* Request c has chosen a password of user u and is still to mark it.
Marking(c, u) ==
    /\ At(c, "assign") \/ At(c, "unassign") \/ At(c, "must")
    /\ Target(c) = u

(* The requests of other callers are where they were.                       *)
LEMMA OthersWait ==
    ASSUME AccessTypeOK, NEW c \in Callers, NEW r, call' = [call EXCEPT ![c] = r],
           NEW d \in Callers \ {c}, NEW u
    PROVE  /\ Finishing(d, u) => Finishing(d, u)'
           /\ Marking(d, u) => Marking(d, u)'
<1>1. call'[d] = call[d]
  BY DEF AccessTypeOK
<1>. QED  BY <1>1 DEF Finishing, Marking, At, Target

(* A change of a user is followed by the end of its sessions.               *)
LEMMA OldSessionsStay ==
    ASSUME PromiseInv, AccessInv', NEW c \in Callers, NEW r, call' = [call EXCEPT ![c] = r],
           session' = session, past.cut \subseteq past'.cut,
           \A u \in Users : user[u].exists =>
               user'[u].epoch = user[u].epoch \/ Finishing(c, u)',
           \A u \in Users : Finishing(c, u) => Finishing(c, u)' \/ u \in past'.cut
    PROVE  OldSessionsEnd'
<1> SUFFICES ASSUME NEW i \in DOMAIN session,
                    session[i].live, session[i].epoch # user'[session[i].user].epoch,
                    ~session[i].late, session[i].user \notin past'.cut
             PROVE  \E d \in Callers : Finishing(d, session[i].user)'
  BY Zenon DEF OldSessionsEnd
<1>1. session[i].user \in Users /\ user[session[i].user].exists /\ AccessTypeOK
  BY SessionUser DEF PromiseInv, AccessInv
<1>2. CASE user'[session[i].user].epoch # user[session[i].user].epoch
  BY <1>1, <1>2
<1>3. CASE user'[session[i].user].epoch = user[session[i].user].epoch
  <2>1. PICK d \in Callers : Finishing(d, session[i].user)
    BY <1>1, <1>3 DEF PromiseInv, OldSessionsEnd
  <2>2. CASE d = c
    BY <1>1, <2>1, <2>2
  <2>3. CASE d # c
    BY <1>1, <2>1, <2>3, OthersWait
  <2>. QED  BY <2>2, <2>3
<1>. QED  BY <1>2, <1>3

(* A password of an administrator is marked, or about to be.                *)
LEMMA TemporaryStays ==
    ASSUME PromiseInv, NEW c \in Callers, NEW r, call' = [call EXCEPT ![c] = r],
           past.cut \subseteq past'.cut, past.crossed \subseteq past'.crossed,
           \A u \in Users : user'[u].temp /\ ~user'[u].must =>
               \/ u \in past'.cut \union past'.crossed
               \/ Marking(c, u)'
               \/ user[u].temp /\ ~user[u].must /\ ~Marking(c, u)
    PROVE  AdminPasswordIsTemporary'
<1> SUFFICES ASSUME NEW u \in Users, user'[u].temp, ~user'[u].must,
                    u \notin past'.cut \union past'.crossed, ~Marking(c, u)'
             PROVE  \E d \in Callers : Marking(d, u)'
  BY Zenon DEF AdminPasswordIsTemporary, Marking
<1>1. user[u].temp /\ ~user[u].must /\ ~Marking(c, u)
  OBVIOUS
<1>2. PICK d \in Callers : Marking(d, u)
  BY <1>1 DEF PromiseInv, AdminPasswordIsTemporary, Marking
<1>3. AccessTypeOK
  BY DEF PromiseInv, AccessInv
<1>. QED  BY <1>1, <1>2, <1>3, OthersWait

(* A step that takes administration from nobody leaves an administrator.    *)
LEMMA SomeoneStays ==
    ASSUME PromiseInv, NEW c \in Callers, Respects(c), past'.removals = past.removals,
           past.overlapped => past'.overlapped
    PROVE  SomeoneAdministers'
  BY DEF PromiseInv, SomeoneAdministers, Respects

(* A step that writes neither a user nor a session.                         *)
LEMMA QuietStep ==
    ASSUME PromiseInv, AccessInv', NEW c \in Callers, NEW r \in Calls,
           call' = [call EXCEPT ![c] = r], CallerOK(r),
           r.at = "must" /\ r.op = "password" => ~user[r.by].temp \/ r.by \in past.crossed,
           UNCHANGED <<user, session>>,
           past' = past \/ \E us : past' = [past EXCEPT !.cut = us] /\ past.cut \subseteq us,
           \A u \in Users : Finishing(c, u) => Finishing(c, u)' \/ u \in past'.cut,
           \A u \in Users : Marking(c, u) => Marking(c, u)' \/ u \in past'.cut
    PROVE  PromiseInv'
<1>1. /\ Respects(c) /\ past'.removals = past.removals /\ past'.crossed = past.crossed
      /\ past'.overlapped = past.overlapped
  BY QuietRespects
<1>2. past.cut \subseteq past'.cut
  BY DEF PromiseInv, AccessInv, AccessTypeOK, Pasts
<1>3. CallerOK(r)'
  BY <1>1, RequestStays
<1>4. \A d \in Callers : CallerOK(call[d])'
  BY <1>1, <1>3, OthersStay
<1>5. SomeoneAdministers'
  BY <1>1, SomeoneStays
<1>6. OldSessionsEnd'
  BY <1>2, OldSessionsStay
<1>7. AdminPasswordIsTemporary'
  BY <1>1, <1>2, TemporaryStays
<1>8. \A i \in DOMAIN session' : user'[session'[i].user].exists
  BY DEF PromiseInv
<1>. QED  BY <1>4, <1>5, <1>6, <1>7, <1>8 DEF PromiseInv

-----------------------------------------------------------------------------
(* The statements that write neither a user nor a session *)

(* A request that has written no user yet has nothing to finish.            *)
LEMMA NothingBegun ==
    ASSUME NEW c \in Callers, ~At(c, "must"), ~At(c, "assign"), ~At(c, "unassign"),
           At(c, "revoke") => call[c].op = "logout"
    PROVE  \A u : ~Finishing(c, u) /\ ~Marking(c, u)
  BY DEF Finishing, Marking

(* A request that begins knows what its middleware has found.               *)
LEMMA Begins ==
    ASSUME PromiseInv, AccessInv', NEW c \in Callers, NEW r \in Calls, Accept(c, r), CallerOK(r),
           r.at # "must"
    PROVE  PromiseInv'
<1>1. \A u : ~Finishing(c, u) /\ ~Marking(c, u)
  BY NothingBegun DEF Accept, At
<1>2. /\ call' = [call EXCEPT ![c] = r] /\ UNCHANGED <<user, session>> /\ past' = past
  BY DEF Accept
<1>. QED  BY <1>1, <1>2, QuietStep

(* A request of administration begins with a caller who administers.        *)
LEMMA AdminBegins ==
    ASSUME PromiseInv, NEW by \in Users, Administers(by),
           NEW op \in TargetOps \union {"create"}, NEW todo, NEW bulk, NEW role, NEW used
    PROVE  LET first == IF op = "create" THEN "check" ELSE "fetch" IN
           CallerOK(Request(first, op, by, todo, bulk, role, used))
<1>. DEFINE first == IF op = "create" THEN "check" ELSE "fetch"
            r == Request(first, op, by, todo, bulk, role, used)
<1>1. past.removals \in Nat
  BY DEF PromiseInv, AccessInv, AccessTypeOK, Pasts
<1>2. /\ r.at = first /\ r.op = op /\ r.by = by /\ r.since = past.removals
  BY DEF Request
<1>. HIDE DEF r
<1>3. first \in {"check", "fetch"} /\ (first = "check" => op = "create") /\ op # "password"
  BY DEF TargetOps
<1>. HIDE DEF first
<1>4. RemovalOK(r)
  BY <1>1, <1>2, <1>3 DEF RemovalOK, Takes
<1>. QED  BY <1>2, <1>3, <1>4 DEF CallerOK, PasswordOK, Administers, r, first

(* The requests of administration.                                          *)
LEMMA CallAdminKeeps == ASSUME PromiseInv, NEW c \in Callers, CallAdmin(c) PROVE PromiseInv'
<1>0. AccessInv /\ AccessInv'
  BY CallAdminOK DEF PromiseInv
<1>1. PICK i \in DOMAIN session :
         LET by == session[i].user IN
         /\ Valid(i) /\ MayAdminister(by)
         /\ \/ ChangeUserRole(c, by, i) \/ DeactivateUser(c, by, i) \/ ActivateUser(c, by, i)
            \/ DeleteUser(c, by, i) \/ ResetUserPassword(c, by, i) \/ CreateUser(c, by, i)
            \/ BulkDeactivateUsers(c, by, i) \/ BulkResetPassword(c, by, i)
  BY DEF CallAdmin
<1>. DEFINE by == session[i].user
<1>2. by \in Users /\ i \in Nat /\ Administers(by)
  BY <1>0, <1>1, SessionUser DEF PromiseInv, Administers, Valid, MayAdminister
<1>. HIDE DEF by
<1>3. ASSUME NEW op \in TargetOps, NEW todo \in Seq(Users), todo # <<>>, NEW bulk \in BOOLEAN,
             Accept(c, Request("fetch", op, by, todo, bulk, "member", i))
      PROVE  PromiseInv'
  <2>. DEFINE r == Request("fetch", op, by, todo, bulk, "member", i)
  <2>1. r \in Calls
    BY <1>0, <1>2, <1>3, RequestOK DEF Ops, RoleKeys
  <2>2. op # "create"
    BY DEF TargetOps
  <2>3. CallerOK(r)
    BY <1>2, <2>2, AdminBegins
  <2>4. r.at = "fetch"
    BY DEF Request
  <2>. QED  BY <1>0, <1>3, <2>1, <2>3, <2>4, Begins
<1>4. ASSUME NEW u \in Users, NEW role \in RoleKeys,
             Accept(c, Request("check", "create", by, <<u>>, FALSE, role, i))
      PROVE  PromiseInv'
  <2>. DEFINE r == Request("check", "create", by, <<u>>, FALSE, role, i)
  <2>1. r \in Calls
    BY <1>0, <1>2, OneUser, RequestOK DEF Ops
  <2>3. CallerOK(r)
    BY <1>2, AdminBegins
  <2>4. r.at = "check"
    BY DEF Request
  <2>. QED  BY <1>0, <1>4, <2>1, <2>3, <2>4, Begins
<1>5. \A u \in Users : <<u>> \in Seq(Users) /\ <<u>> # <<>>
  BY OneUser
<1>6. /\ {"promote", "demote", "deactivate", "delete", "activate", "reset"} \subseteq TargetOps
      /\ \A todo \in Bulks : todo \in Seq(Users) /\ todo # <<>>
      /\ TRUE \in BOOLEAN /\ FALSE \in BOOLEAN
  BY AccessAssumption DEF TargetOps, AccessAssumption
<1>7. CASE ChangeUserRole(c, by, i)
  BY <1>3, <1>5, <1>6, <1>7 DEF ChangeUserRole
<1>8. CASE DeactivateUser(c, by, i) \/ ActivateUser(c, by, i) \/ DeleteUser(c, by, i)
  BY <1>3, <1>5, <1>6, <1>8 DEF DeactivateUser, ActivateUser, DeleteUser
<1>9. CASE ResetUserPassword(c, by, i)
  BY <1>3, <1>5, <1>6, <1>9 DEF ResetUserPassword
<1>10. CASE CreateUser(c, by, i)
  BY <1>4, <1>10 DEF CreateUser
<1>11. CASE BulkDeactivateUsers(c, by, i) \/ BulkResetPassword(c, by, i)
  BY <1>3, <1>6, <1>11 DEF BulkDeactivateUsers, BulkResetPassword
<1>. QED  BY <1>1, <1>7, <1>8, <1>9, <1>10, <1>11 DEF by

(* The requests about the user's own account.                               *)
LEMMA CallOwnKeeps == ASSUME PromiseInv, NEW c \in Callers, CallOwn(c) PROVE PromiseInv'
<1>0. AccessInv /\ AccessInv'
  BY CallOwnOK DEF PromiseInv
<1>1. PICK i \in DOMAIN session :
         Logout(c, session[i].user, i) \/ ChangePassword(c, session[i].user, i)
  BY DEF CallOwn
<1>. DEFINE by == session[i].user
<1>2. by \in Users /\ i \in Nat /\ user[by].exists /\ past.removals \in Nat
  BY <1>0, SessionUser DEF PromiseInv, AccessInv, AccessTypeOK, Pasts
<1>. HIDE DEF by
<1>3. ASSUME NEW first \in {"revoke", "write"}, NEW op \in {"logout", "password"},
             first = "write" => op = "password",
             Accept(c, Request(first, op, by, <<by>>, FALSE, "member", i))
      PROVE  PromiseInv'
  <2>. DEFINE r == Request(first, op, by, <<by>>, FALSE, "member", i)
  <2>1. r \in Calls
    BY <1>0, <1>2, <1>3, OneUser, RequestOK DEF Ops, RoleKeys
  <2>2. r.at = first /\ r.op = op /\ r.by = by /\ r.since = past.removals /\ Head(r.todo) = by
    BY DEF Request
  <2>. HIDE DEF r
  <2>3. RemovalOK(r)
    BY <1>2, <2>2 DEF RemovalOK, Takes, Removals, TargetOps
  <2>4. CallerOK(r)
    BY <1>2, <2>2, <2>3 DEF CallerOK, PasswordOK
  <2>. QED  BY <1>0, <1>3, <2>1, <2>2, <2>4, Begins DEF r
<1>. QED  BY <1>1, <1>3 DEF Logout, ChangePassword, by

(* A login, which has read its row.                                         *)
LEMMA CallLoginKeeps == ASSUME PromiseInv, NEW c \in Callers, CallLogin(c) PROVE PromiseInv'
<1>0. AccessInv /\ AccessInv'
  BY CallLoginOK DEF PromiseInv
<1>1. PICK u \in Users :
         /\ user[u].exists
         /\ Accept(c, [Request("open", "login", u, <<u>>, FALSE, "member", 0) EXCEPT !.seen = user[u]])
  BY DEF CallLogin
<1>. DEFINE q == Request("open", "login", u, <<u>>, FALSE, "member", 0)
            r == [q EXCEPT !.seen = user[u]]
<1>2. q \in Calls /\ user[u] \in Rows /\ past.removals \in Nat
  BY <1>0, OneUser, RequestOK DEF Ops, RoleKeys, AccessInv, AccessTypeOK, Pasts
<1>3. q.at = "open" /\ q.op = "login" /\ q.by = u /\ q.since = past.removals
  BY DEF Request
<1>. HIDE DEF q
<1>4. /\ r \in Calls /\ r.at = "open" /\ r.op = "login" /\ r.by = u
      /\ r.since = past.removals
  BY <1>2, <1>3 DEF Calls
<1>. HIDE DEF r
<1>5. CallerOK(r)
  BY <1>1, <1>2, <1>4 DEF CallerOK, RemovalOK, PasswordOK, Takes, TargetOps
<1>. QED  BY <1>0, <1>1, <1>4, <1>5, Begins DEF q, r

(* The response after a statement that wrote nothing.                       *)
LEMMA Replies ==
    ASSUME PromiseInv, AccessInv', NEW c \in Callers, Answer(c), ~At(c, "idle"),
           UNCHANGED <<user, session>>,
           past' = past \/ \E us : past' = [past EXCEPT !.cut = us] /\ past.cut \subseteq us,
           \A u \in Users : Finishing(c, u) \/ Marking(c, u) => u \in past'.cut
    PROVE  PromiseInv'
<1>1. call[c] \in Calls /\ CallOK(call[c], user) /\ CallerOK(call[c]) /\ call[c].at # "idle"
  BY Serving DEF PromiseInv, At
<1>2. PICK r : r = AfterTarget(call[c])
  OBVIOUS
<1>3. r \in Calls /\ CallerOK(r)
  BY <1>1, <1>2, AfterTargetOK, AnswerStays
<1>4. r.at # "must"
  BY <1>1, <1>2 DEF AfterTarget, Idle, Calls
<1>5. call' = [call EXCEPT ![c] = r]
  BY <1>2 DEF Answer
<1>. QED  BY <1>3, <1>4, <1>5, QuietStep

(* Rules 1 and 2 are judged: a removal goes on only for another user, or for  *)
(* a user who is no administrator.                                            *)
LEMMA FetchKeeps == ASSUME PromiseInv, NEW c \in Callers, Fetch(c) PROVE PromiseInv'
<1>0. AccessInv /\ AccessInv' /\ At(c, "fetch") /\ UNCHANGED <<user, session>> /\ past' = past
  BY FetchOK DEF PromiseInv, Fetch
<1>1. /\ \A u : ~Finishing(c, u) /\ ~Marking(c, u)
      /\ ~At(c, "idle")
  BY <1>0, NothingBegun DEF At
<1>2. CASE Answer(c)
  BY <1>0, <1>1, <1>2, Replies
<1>3. CASE ~Answer(c)
  <2>. DEFINE row == user[Target(c)]
              step == IF call[c].op \in {"deactivate", "demote"} /\ row.admin THEN "count" ELSE "write"
              r == [call[c] EXCEPT !.seen = row, !.at = step]
  <2>1. /\ call[c] \in Calls /\ CallOK(call[c], user) /\ call[c].at = "fetch" /\ row \in Rows
        /\ CallerOK(call[c])
    BY <1>0, Serving DEF At, PromiseInv
  <2>2. ~Refuses(call[c].op, call[c].by, Target(c), row) /\ call' = [call EXCEPT ![c] = r]
    BY <1>0, <1>3, Serving DEF Fetch
  <2>3. step \in {"count", "write"} /\ step \in Steps
    BY DEF Steps
  <2>4. ~row.admin => step = "write"
    OBVIOUS
  <2>. HIDE DEF step
  <2>5. call[c].op \in Removals => Target(c) # call[c].by \/ (call[c].op = "demote" /\ ~row.admin)
    BY <2>2 DEF Refuses, Removals
  <2>6. call[c].op \in Removals /\ call[c].since = past.removals => Target(c) # call[c].by
    BY <2>1, <2>5 DEF CallerOK, RemovalOK, Administers, Removals, TargetOps
  <2>. HIDE DEF row
  <2>7. /\ r \in Calls /\ r.at = step /\ r.op = call[c].op /\ r.todo = call[c].todo
        /\ r.by = call[c].by /\ r.since = call[c].since
    BY <2>1, <2>3 DEF Calls
  <2>. HIDE DEF r
  <2>8. RemovalOK(r)
    BY <2>1, <2>3, <2>6, <2>7 DEF CallerOK, RemovalOK, Takes, Target
  <2>9. CallerOK(r) /\ r.at # "must"
    BY <2>1, <2>3, <2>7, <2>8 DEF CallerOK, PasswordOK
  <2>. QED  BY <1>0, <1>1, <2>2, <2>7, <2>9, QuietStep
<1>. QED  BY <1>2, <1>3

(* A request goes on with a statement that follows no write.                *)
LEMMA Proceeds ==
    ASSUME PromiseInv, AccessInv', NEW c \in Callers, NEW step \in {"write", "insert"}, Goto(c, step),
           step = "write" => At(c, "count"),
           step = "insert" => At(c, "check"),
           UNCHANGED <<user, session>>, past' = past
    PROVE  PromiseInv'
<1>1. call[c] \in Calls /\ CallOK(call[c], user) /\ CallerOK(call[c]) /\ call[c].at # "idle"
  BY Serving DEF PromiseInv, At
<1>2. PICK r : r = [call[c] EXCEPT !.at = step]
  OBVIOUS
<1>3. r \in Calls /\ r.at # "must"
  BY <1>1, <1>2 DEF Calls, Steps
<1>4. CallerOK(r)
  <2>1. step \in Steps
    BY DEF Steps
  <2>2. step = "insert" => call[c].op = "create"
    BY <1>1 DEF CallerOK, RemovalOK, At
  <2>3. step = "write" => Takes(call[c]) \/ call[c].op \notin Removals \union {"create"}
    BY <1>1 DEF At, Takes, CallOK, Removals, TargetOps
  <2>. QED  BY <1>1, <1>2, <2>1, <2>2, <2>3, GotoStays
<1>5. call' = [call EXCEPT ![c] = r]
  BY <1>2, Serving DEF Goto, PromiseInv
<1>6. \A u : ~Finishing(c, u) /\ ~Marking(c, u)
  BY NothingBegun DEF At
<1>. QED  BY <1>3, <1>4, <1>5, <1>6, QuietStep

(* Rule 3 is judged.                                                        *)
LEMMA CountKeeps == ASSUME PromiseInv, NEW c \in Callers, Count(c) PROVE PromiseInv'
<1>1. AccessInv /\ AccessInv' /\ At(c, "count") /\ UNCHANGED <<user, session>> /\ past' = past
  BY CountOK DEF PromiseInv, Count
<1>2. ~At(c, "idle") /\ \A u : ~Finishing(c, u) /\ ~Marking(c, u)
  BY <1>1, NothingBegun DEF At
<1>3. Answer(c) \/ Goto(c, "write")
  BY DEF Count
<1>. QED  BY <1>1, <1>2, <1>3, Replies, Proceeds

(* The first statement of handleCreateUser.                                 *)
LEMMA CheckEmailKeeps == ASSUME PromiseInv, NEW c \in Callers, CheckEmail(c) PROVE PromiseInv'
<1>1. AccessInv /\ AccessInv' /\ At(c, "check") /\ UNCHANGED <<user, session>> /\ past' = past
  BY CheckEmailOK DEF PromiseInv, CheckEmail
<1>2. ~At(c, "idle") /\ \A u : ~Finishing(c, u) /\ ~Marking(c, u)
  BY <1>1, NothingBegun DEF At
<1>3. Answer(c) \/ Goto(c, "insert")
  BY DEF CheckEmail
<1>. QED  BY <1>1, <1>2, <1>3, Replies, Proceeds

(* A statement that fails: what its request leaves undone is remembered.    *)
LEMMA FailKeeps == ASSUME PromiseInv, NEW c \in Callers, Fail(c) PROVE PromiseInv'
<1>. DEFINE unfinished == \/ At(c, "must") \/ At(c, "assign") \/ At(c, "unassign")
                          \/ At(c, "revoke") /\ call[c].op # "logout"
            us == IF unfinished THEN past.cut \union {Target(c)} ELSE past.cut
<1>1. AccessInv /\ AccessInv' /\ ~At(c, "idle") /\ UNCHANGED <<user, session>>
  BY FailOK DEF PromiseInv, Fail
<1>2. past' = [past EXCEPT !.cut = us] /\ past.cut \subseteq us /\ past \in Pasts
  BY <1>1, Serving DEF Fail
<1>3. past'.cut = us
  BY <1>2 DEF Pasts
<1>4. \A u \in Users : Finishing(c, u) \/ Marking(c, u) => u \in past'.cut
  BY <1>3 DEF Finishing, Marking
<1>. HIDE DEF us
<1>5. CASE Answer(c)
  BY <1>1, <1>2, <1>4, <1>5, Replies
<1>6. CASE ~Answer(c)
  <2>1. Goto(c, "revoke") /\ At(c, "must") /\ call[c] \in Calls
    BY <1>1, <1>6, Serving DEF Fail
  <2>2. CallerOK(call[c]) /\ call[c].at = "must"
    BY <2>1 DEF PromiseInv, At
  <2>3. PICK r : r = [call[c] EXCEPT !.at = "revoke"]
    OBVIOUS
  <2>4. r \in Calls /\ r.at = "revoke"
    BY <2>1, <2>3 DEF Calls, Steps
  <2>5. CallerOK(r)
    BY <2>1, <2>2, <2>3, GotoStays DEF Steps
  <2>6. call' = [call EXCEPT ![c] = r]
    BY <1>1, <2>1, <2>3, Serving DEF Goto
  <2>. QED  BY <1>1, <1>2, <1>4, <2>4, <2>5, <2>6, QuietStep
<1>. QED  BY <1>5, <1>6

-----------------------------------------------------------------------------
(* The statements that write a session *)

(* A step that writes no user keeps all but the promise about sessions.       *)
LEMMA SessionStep ==
    ASSUME PromiseInv, AccessInv', NEW c \in Callers, NEW r \in Calls, At(c, "revoke") \/ At(c, "open"),
           call' = [call EXCEPT ![c] = r], CallerOK(r), r.at # "must", user' = user, past' = past,
           \A i \in DOMAIN session' : user[session'[i].user].exists, OldSessionsEnd'
    PROVE  PromiseInv'
<1>1. /\ Respects(c) /\ past'.removals = past.removals
      /\ past'.overlapped = past.overlapped
  BY QuietRespects
<1>2. CallerOK(r)'
  BY <1>1, RequestStays
<1>3. \A d \in Callers : CallerOK(call[d])'
  BY <1>1, <1>2, OthersStay
<1>4. SomeoneAdministers'
  BY <1>1, SomeoneStays
<1>5. \A u : ~Marking(c, u)
  BY DEF Marking, At
<1>6. AdminPasswordIsTemporary'
  BY <1>5, TemporaryStays
<1>. QED  BY <1>3, <1>4, <1>6 DEF PromiseInv

(* What ending a session leaves of it.                                      *)
LEMMA EndedFields ==
    ASSUME NEW s \in Sessions
    PROVE  LET e == [s EXCEPT !.live = FALSE]
           IN  ~e.live /\ e.user = s.user /\ e.epoch = s.epoch /\ e.late = s.late
<1>1. ASSUME NEW b \in BOOLEAN
      PROVE  LET e == [s EXCEPT !.live = b]
             IN  e.live = b /\ e.user = s.user /\ e.epoch = s.epoch /\ e.late = s.late
  BY DEF Sessions
<1>2. PICK b \in BOOLEAN : b = FALSE
  OBVIOUS
<1>. QED  BY <1>1, <1>2

(* RevokeAllForUserWithReason ends what the request has made old.           *)
LEMMA RevokeKeeps == ASSUME PromiseInv, NEW c \in Callers, Revoke(c) PROVE PromiseInv'
<1>1. /\ AccessInv /\ AccessInv' /\ At(c, "revoke") /\ user' = user /\ past' = past
      /\ session \in Seq(Sessions)
  BY RevokeOK, Serving DEF PromiseInv, Revoke
<1>2. call[c] \in Calls /\ CallOK(call[c], user) /\ CallerOK(call[c]) /\ call[c].at = "revoke"
  BY <1>1, Serving DEF PromiseInv, At
<1>3. PICK r \in Calls : CallerOK(r) /\ r.at # "must" /\ call' = [call EXCEPT ![c] = r]
  <2>1. CASE Answer(c)
    <3>1. AfterTarget(call[c]) \in Calls /\ CallerOK(AfterTarget(call[c]))
      BY <1>2, AfterTargetOK, AnswerStays
    <3>2. AfterTarget(call[c]).at # "must"
      BY <1>2 DEF AfterTarget, Idle, Calls
    <3>. QED  BY <2>1, <3>1, <3>2 DEF Answer
  <2>2. CASE Goto(c, "open")
    <3>1. PICK x : x = [call[c] EXCEPT !.at = "open"]
      OBVIOUS
    <3>2. x \in Calls /\ x.at = "open"
      BY <1>2, <3>1 DEF Calls, Steps
    <3>3. CallerOK(x)
      BY <1>2, <3>1, GotoStays DEF Steps
    <3>4. call' = [call EXCEPT ![c] = x]
      BY <1>1, <2>2, <3>1, Serving DEF Goto
    <3>. QED  BY <3>2, <3>3, <3>4
  <2>. QED  BY <2>1, <2>2 DEF Revoke
<1>4. /\ DOMAIN session' = DOMAIN session
      /\ \A i \in DOMAIN session :
            /\ session'[i].user = session[i].user
            /\ session'[i].epoch = session[i].epoch
            /\ session'[i].late = session[i].late
            /\ session'[i].live => session[i].live
            /\ session'[i].live /\ call[c].op # "logout" => session[i].user # Target(c)
  <2>. DEFINE Ends(i) == IF call[c].op = "logout" THEN i = call[c].used
                         ELSE session[i].user = Target(c)
  <2>1. session' = [i \in DOMAIN session |->
                      IF Ends(i) THEN [session[i] EXCEPT !.live = FALSE] ELSE session[i]]
    BY DEF Revoke
  <2>2. ASSUME NEW i \in DOMAIN session
        PROVE  /\ session'[i].user = session[i].user
               /\ session'[i].epoch = session[i].epoch
               /\ session'[i].late = session[i].late
               /\ session'[i].live => session[i].live /\ ~Ends(i)
    <3>1. session[i] \in Sessions
      BY <1>1
    <3>. HIDE DEF Ends
    <3>2. CASE Ends(i)
      <4>1. session'[i] = [session[i] EXCEPT !.live = FALSE]
        BY <2>1, <3>2
      <4>. QED  BY <3>1, <4>1, EndedFields
    <3>3. CASE ~Ends(i)
      <4>1. session'[i] = session[i]
        BY <2>1, <3>3
      <4>. QED  BY <3>3, <4>1
    <3>. QED  BY <3>2, <3>3
  <2>. QED  BY <2>1, <2>2
<1>5. \A i \in DOMAIN session' : user[session'[i].user].exists
  BY <1>4 DEF PromiseInv
<1>6. OldSessionsEnd'
  <2> SUFFICES ASSUME NEW i \in DOMAIN session', NEW u, u = session'[i].user,
                      session'[i].live, session'[i].epoch # user'[u].epoch,
                      ~session'[i].late, u \notin past'.cut
               PROVE  \E d \in Callers : Finishing(d, u)'
    BY Zenon DEF OldSessionsEnd
  <2>1. /\ i \in DOMAIN session /\ session[i].live /\ ~session[i].late
        /\ session[i].user = u /\ session[i].epoch # user[u].epoch /\ u \notin past.cut
        /\ call[c].op # "logout" => u # Target(c)
    BY <1>1, <1>4
  <2>2. PICK d \in Callers : Finishing(d, u)
    BY <2>1 DEF PromiseInv, OldSessionsEnd
  <2>3. d # c
    BY <2>1, <2>2 DEF Finishing
  <2>4. AccessTypeOK
    BY <1>1 DEF AccessInv
  <2>5. Finishing(d, u)'
    BY <1>3, <2>2, <2>3, <2>4, OthersWait
  <2>. QED  BY <2>5
<1>. QED  BY <1>1, <1>3, <1>5, <1>6, SessionStep

(* A new session is of the epoch that its request has read.                   *)
LEMMA OpenKeeps == ASSUME PromiseInv, NEW c \in Callers, Open(c) PROVE PromiseInv'
<1>1. /\ AccessInv /\ AccessInv' /\ At(c, "open") /\ user' = user /\ past' = past
      /\ session \in Seq(Sessions)
  BY OpenOK, Serving DEF PromiseInv, Open
<1>2. /\ call[c] \in Calls /\ CallOK(call[c], user) /\ CallerOK(call[c]) /\ call[c].at = "open"
      /\ user[call[c].by].exists
  BY <1>1, Serving DEF PromiseInv, At, CallerOK
<1>3. PICK r \in Calls : CallerOK(r) /\ r.at # "must" /\ call' = [call EXCEPT ![c] = r]
  <2>1. AfterTarget(call[c]) \in Calls /\ CallerOK(AfterTarget(call[c]))
    BY <1>2, AfterTargetOK, AnswerStays
  <2>2. AfterTarget(call[c]).at # "must"
    BY <1>2 DEF AfterTarget, Idle, Calls
  <2>. QED  BY <2>1, <2>2 DEF Open, Answer
<1>4. PICK s : /\ session' = Append(session, s) /\ s.user = call[c].by /\ s.epoch = call[c].seen.epoch
               /\ s.late = (call[c].seen.epoch # user[call[c].by].epoch)
  <2>1. PICK live, late :
           /\ live = TRUE /\ late = (call[c].seen.epoch # user[call[c].by].epoch)
    OBVIOUS
  <2>2. session' = Append(session, [user |-> call[c].by, live |-> live,
                                    epoch |-> call[c].seen.epoch, late |-> late])
    BY <2>1, Zenon DEF Open
  <2>3. PICK s : s = [user |-> call[c].by, live |-> live, epoch |-> call[c].seen.epoch, late |-> late]
    OBVIOUS
  <2>4. s.user = call[c].by /\ s.epoch = call[c].seen.epoch /\ s.late = late
    BY <2>3
  <2>5. session' = Append(session, s)
    BY <2>2, <2>3
  <2>. QED  BY <2>1, <2>4, <2>5, Zenon
<1>5. \A i \in DOMAIN session' :
         (i \in DOMAIN session /\ session'[i] = session[i]) \/ session'[i] = s
  BY <1>1, <1>4
<1>6. \A i \in DOMAIN session' : user[session'[i].user].exists
  BY <1>2, <1>4, <1>5 DEF PromiseInv
<1>7. OldSessionsEnd'
  <2> SUFFICES ASSUME NEW i \in DOMAIN session', NEW u, u = session'[i].user,
                      session'[i].live, session'[i].epoch # user'[u].epoch,
                      ~session'[i].late, u \notin past'.cut
               PROVE  \E d \in Callers : Finishing(d, u)'
    BY Zenon DEF OldSessionsEnd
  <2>1. session'[i] # s
    BY <1>1, <1>4, Zenon
  <2>2. i \in DOMAIN session /\ session'[i] = session[i]
    BY <1>5, <2>1
  <2>3. PICK d \in Callers : Finishing(d, u)
    BY <1>1, <2>2 DEF PromiseInv, OldSessionsEnd
  <2>4. d # c
    BY <1>1, <2>3 DEF Finishing, At
  <2>5. AccessTypeOK
    BY <1>1 DEF AccessInv
  <2>6. Finishing(d, u)'
    BY <1>3, <2>3, <2>4, <2>5, OthersWait
  <2>. QED  BY <2>6
<1>. QED  BY <1>1, <1>3, <1>6, <1>7, SessionStep

-----------------------------------------------------------------------------
(* The statements that write a user *)

(* A write of one row that keeps what the other requests know.                *)
LEMMA RowRespects ==
    ASSUME PromiseInv, AccessInv', NEW c \in Callers, NEW u \in Users, NEW row,
           user' = [user EXCEPT ![u] = row],
           past.removals <= past'.removals, past.crossed \subseteq past'.crossed,
           past'.removals = past.removals /\ Administers(u) => row.exists /\ row.admin /\ row.active,
           user[u].exists => row.exists,
           \A d \in Callers \ {c} :
               At(d, "must") /\ Target(d) = u /\ user[u].exists /\ row.temp =>
                   user[u].temp \/ u \in past'.crossed
    PROVE  Respects(c) /\ user'[u] = row /\ \A v \in Users \ {u} : user'[v] = user[v]
<1>1. /\ AccessInv /\ user \in [Users -> Rows]
      /\ \A d \in Callers : At(d, "must") => Target(d) \in Users
  BY Serving DEF PromiseInv, AccessInv, AccessTypeOK, At
<1>2. user'[u] = row /\ \A v \in Users \ {u} : user'[v] = user[v]
  BY <1>1
<1>3. ASSUME NEW v \in Users
      PROVE  /\ user[v].exists => user'[v].exists
             /\ past'.removals = past.removals /\ Administers(v) => Administers(v)'
  <2>1. CASE v = u
    <3>1. user'[v] = row
      BY <1>2, <2>1
    <3>. QED  BY <2>1, <3>1 DEF Administers
  <2>2. CASE v # u
    <3>1. user'[v] = user[v]
      BY <1>2, <2>2
    <3>. QED  BY <3>1 DEF Administers
  <2>. QED  BY <2>1, <2>2
<1>4. ASSUME NEW d \in Callers \ {c}, At(d, "must"), user[Target(d)].exists,
             user'[Target(d)].temp
      PROVE  user[Target(d)].temp \/ Target(d) \in past'.crossed
  <2>1. CASE Target(d) = u
    BY <1>2, <1>4, <2>1
  <2>2. CASE Target(d) # u
    <3>1. user'[Target(d)] = user[Target(d)]
      BY <1>1, <1>2, <1>4, <2>2
    <3>. QED  BY <1>4, <3>1
  <2>. QED  BY <2>1, <2>2
<1>. QED  BY <1>2, <1>3, <1>4 DEF Respects

(* A step that writes one user and no session.                              *)
LEMMA UserStep ==
    ASSUME PromiseInv, AccessInv', NEW c \in Callers, NEW r, call' = [call EXCEPT ![c] = r],
           CallerOK(r)', Respects(c), session' = session, past'.cut = past.cut,
           SomeoneAdministers', NEW u \in Users,
           \A v \in Users \ {u} : user'[v] = user[v] /\ ~Marking(c, v),
           user[u].exists => user'[u].epoch = user[u].epoch \/ Finishing(c, u)',
           \A v \in Users : Finishing(c, v) => Finishing(c, v)',
           user'[u].temp /\ ~user'[u].must =>
               \/ u \in past'.cut \union past'.crossed
               \/ Marking(c, u)'
               \/ user[u].temp /\ ~user[u].must /\ ~Marking(c, u)
    PROVE  PromiseInv'
<1>1. \A d \in Callers : CallerOK(call[d])'
  BY OthersStay
<1>2. \A i \in DOMAIN session' : user'[session'[i].user].exists
  BY SessionUser DEF PromiseInv, Respects
<1>3. past.crossed \subseteq past'.crossed
  BY DEF Respects
<1>4. OldSessionsEnd'
  <2>1. \A v \in Users : user[v].exists =>
           user'[v].epoch = user[v].epoch \/ Finishing(c, v)'
    OBVIOUS
  <2>. QED  BY <2>1, OldSessionsStay
<1>5. AdminPasswordIsTemporary'
  <2>1. \A v \in Users : user'[v].temp /\ ~user'[v].must =>
           \/ v \in past'.cut \union past'.crossed
           \/ Marking(c, v)'
           \/ user[v].temp /\ ~user[v].must /\ ~Marking(c, v)
    OBVIOUS
  <2>. QED  BY <1>3, <2>1, TemporaryStays
<1>. QED  BY <1>1, <1>2, <1>4, <1>5 DEF PromiseInv

(* SetMustChangePassword marks the password that the request has chosen.      *)
LEMMA MustKeeps == ASSUME PromiseInv, NEW c \in Callers, Must(c) PROVE PromiseInv'
<1>. DEFINE u == Target(c)
<1>1. /\ AccessInv /\ AccessInv' /\ past' = past /\ session' = session
      /\ call[c] \in Calls /\ CallOK(call[c], user) /\ CallerOK(call[c]) /\ call[c].at = "must"
      /\ u \in Users /\ user[u] \in Rows /\ past.removals \in Nat
  BY MustOK, Serving DEF PromiseInv, Must, At, Pasts
<1>2. PICK m \in BOOLEAN : m = (call[c].op # "password")
  OBVIOUS
<1>3. PICK row : /\ row = WithMust(user[u], m)
                 /\ row.exists = user[u].exists /\ row.admin = user[u].admin
                 /\ row.active = user[u].active /\ row.temp = user[u].temp
                 /\ row.epoch = user[u].epoch /\ row.must = m
  <2>1. PICK row : row = WithMust(user[u], m)
    OBVIOUS
  <2>. QED  BY <1>1, <2>1 DEF WithMust, Rows
<1>4. user' = [user EXCEPT ![u] = row]
  BY <1>1, <1>2, <1>3, Serving DEF Must, WithMust
<1>5. PICK n \in Users : n = u
  BY <1>1
<1>. HIDE DEF u
<1>6. Respects(c) /\ user'[n] = row /\ \A v \in Users \ {n} : user'[v] = user[v]
  <2>1. /\ user' = [user EXCEPT ![n] = row] /\ past.removals <= past'.removals
        /\ past.crossed \subseteq past'.crossed /\ (Administers(n) => row.exists /\ row.admin /\ row.active)
        /\ (row.temp => user[n].temp) /\ (user[n].exists => row.exists)
    BY <1>1, <1>3, <1>4, <1>5 DEF Administers
  <2>. QED  BY <1>1, <2>1, RowRespects
<1>7. PICK r \in Calls :
         /\ call' = [call EXCEPT ![c] = r] /\ CallerOK(r) /\ r.at # "must"
         /\ call[c].op # "create" => r.at = "revoke" /\ r.op = call[c].op /\ Head(r.todo) = n
  <2>1. CASE call[c].op = "create"
    <3>1. AfterTarget(call[c]) \in Calls /\ CallerOK(AfterTarget(call[c]))
      BY <1>1, AfterTargetOK, AnswerStays
    <3>2. AfterTarget(call[c]).at # "must"
      BY <1>1 DEF AfterTarget, Idle, Calls
    <3>. QED  BY <2>1, <3>1, <3>2 DEF Must, Answer
  <2>2. CASE call[c].op # "create"
    <3>1. PICK x : x = [call[c] EXCEPT !.at = "revoke"]
      OBVIOUS
    <3>2. x \in Calls /\ x.at = "revoke" /\ x.op = call[c].op /\ x.todo = call[c].todo
      BY <1>1, <3>1 DEF Calls, Steps
    <3>3. CallerOK(x)
      BY <1>1, <3>1, GotoStays DEF Steps
    <3>4. call' = [call EXCEPT ![c] = x]
      BY <1>1, <2>2, <3>1, Serving DEF Must, Goto
    <3>. QED  BY <1>5, <3>2, <3>3, <3>4 DEF u, Target
  <2>. QED  BY <2>1, <2>2
<1>8. CallerOK(r)'
  BY <1>1, <1>6, <1>7, RequestStays
<1>9. SomeoneAdministers'
  BY <1>1, <1>6, SomeoneStays
<1>10. \A v : Finishing(c, v) \/ Marking(c, v) => v = n
  BY <1>5 DEF Finishing, Marking, u
<1>11. Finishing(c, n) => Finishing(c, n)'
  <2>1. call'[c] = r
    BY <1>1, <1>7, Serving
  <2>. QED  BY <1>7, <2>1 DEF Finishing, Target, At
<1>12. user'[n].temp /\ ~user'[n].must => n \in past'.crossed
  <2> SUFFICES ASSUME user'[n].temp, ~user'[n].must PROVE n \in past.crossed
    BY <1>1
  <2>1. call[c].op = "password" /\ user[n].temp
    BY <1>2, <1>3, <1>5, <1>6
  <2>2. n = call[c].by
    BY <1>1, <1>5, <2>1 DEF CallerOK, PasswordOK, u, Target
  <2>. QED  BY <1>1, <2>1, <2>2 DEF CallerOK, PasswordOK
<1>13. user'[n].epoch = user[n].epoch
  BY <1>3, <1>5, <1>6
<1>. QED  BY <1>1, <1>6, <1>7, <1>8, <1>9, <1>10, <1>11, <1>12, <1>13, UserStep

(* The next statement of handleCreateUser.                                  *)
LEMMA CreateProceeds ==
    ASSUME PromiseInv, NEW c \in Callers, ~At(c, "idle"), NEW step \in {"assign", "unassign", "must"},
           Goto(c, step), call[c].op = "create", Takes(call[c]) \/ Target(c) # call[c].by
    PROVE  \E r \in Calls :
              /\ call' = [call EXCEPT ![c] = r] /\ CallerOK(r) /\ r.op = "create"
              /\ r.at = step /\ Head(r.todo) = Target(c)
<1>1. AccessInv /\ call[c] \in Calls /\ CallerOK(call[c]) /\ call[c].at # "idle"
  BY Serving DEF PromiseInv, At
<1>2. PICK x : x = [call[c] EXCEPT !.at = step]
  OBVIOUS
<1>3. x \in Calls /\ x.at = step /\ x.op = call[c].op /\ x.todo = call[c].todo
  BY <1>1, <1>2 DEF Calls, Steps
<1>4. CallerOK(x)
  BY <1>1, <1>2, GotoStays DEF Steps, Target
<1>5. call' = [call EXCEPT ![c] = x]
  BY <1>1, <1>2, Serving DEF Goto
<1>. QED  BY <1>3, <1>4, <1>5 DEF Target

(* A statement of handleCreateUser that writes the new user, whose password   *)
(* is still to be marked.                                                     *)
LEMMA CreatedStays ==
    ASSUME PromiseInv, AccessInv', NEW c \in Callers,
           At(c, "insert") \/ At(c, "assign") \/ At(c, "unassign"),
           NEW step \in {"assign", "unassign", "must"}, Goto(c, step),
           Takes(call[c]) \/ Target(c) # call[c].by,
           Respects(c), SomeoneAdministers', session' = session, past'.cut = past.cut,
           \A v \in Users \ {Target(c)} : user'[v] = user[v],
           user[Target(c)].exists => user'[Target(c)].epoch = user[Target(c)].epoch
    PROVE  PromiseInv'
<1>1. /\ AccessInv /\ ~At(c, "idle") /\ Target(c) \in Users /\ CallerOK(call[c])
      /\ call[c].op = "create"
  <2>1. ~At(c, "idle") /\ AccessInv
    BY DEF At, PromiseInv
  <2>. QED  BY <2>1, Serving DEF PromiseInv, CallerOK, RemovalOK, At
<1>2. PICK r \in Calls :
         /\ call' = [call EXCEPT ![c] = r] /\ CallerOK(r) /\ r.op = "create"
         /\ r.at = step /\ Head(r.todo) = Target(c)
  BY <1>1, CreateProceeds
<1>3. CallerOK(r)'
  BY <1>1, <1>2, RequestStays
<1>4. PICK n \in Users : n = Target(c)
  BY <1>1
<1>5. \A v : ~Finishing(c, v) /\ (Marking(c, v) => v = n)
  BY <1>1, <1>4 DEF Finishing, Marking
<1>6. Marking(c, n)'
  <2>1. call'[c] = r
    BY <1>1, <1>2, Serving
  <2>. QED  BY <1>2, <1>4, <2>1 DEF Marking, Target, At
<1>7. \A v \in Users \ {n} : user'[v] = user[v] /\ ~Marking(c, v)
  BY <1>4, <1>5
<1>8. user[n].exists => user'[n].epoch = user[n].epoch
  BY <1>4
<1>. QED  BY <1>2, <1>3, <1>5, <1>6, <1>7, <1>8, UserStep

(* A new user has no session and no request, and takes nothing from anybody.  *)
LEMMA InsertKeeps == ASSUME PromiseInv, NEW c \in Callers, Insert(c) PROVE PromiseInv'
<1>1. /\ AccessInv /\ AccessInv' /\ At(c, "insert") /\ session' = session /\ past' = past
      /\ Target(c) \in Users /\ past.removals \in Nat /\ CallerOK(call[c])
      /\ ~At(c, "idle") /\ user \in [Users -> Rows]
  BY InsertOK, Serving DEF PromiseInv, Insert, At, Pasts
<1>2. CASE user[Target(c)].exists
  <2>1. \A u : ~Finishing(c, u) /\ ~Marking(c, u)
    BY <1>1, NothingBegun DEF At
  <2>. QED  BY <1>1, <1>2, <2>1, Replies DEF Insert
<1>3. CASE ~user[Target(c)].exists
  <2>1. PICK row : user' = [user EXCEPT ![Target(c)] = row]
    BY <1>3 DEF Insert
  <2>2. Goto(c, "assign") /\ Target(c) # call[c].by
    BY <1>1, <1>3 DEF Insert, CallerOK, At
  <2>3. PICK n \in Users : n = Target(c)
    BY <1>1
  <2>4. Respects(c) /\ \A v \in Users \ {n} : user'[v] = user[v]
    <3>1. user' = [user EXCEPT ![n] = row] /\ ~user[n].exists /\ past.removals <= past'.removals
      BY <1>1, <1>3, <2>1, <2>3
    <3>2. ~Administers(n) /\ past.crossed \subseteq past'.crossed
      BY <1>1, <3>1 DEF Administers
    <3>. QED  BY <1>1, <3>1, <3>2, RowRespects
  <2>5. SomeoneAdministers'
    BY <1>1, <2>4, SomeoneStays
  <2>. QED  BY <1>1, <1>3, <2>2, <2>3, <2>4, <2>5, CreatedStays
<1>. QED  BY <1>2, <1>3

(* The fields that the triggers do not write.                               *)
LEMMA GrantFields ==
    ASSUME NEW row \in Rows, NEW rs
    PROVE  /\ WithGrant(row, rs, "admin" \in rs).exists = row.exists
           /\ WithGrant(row, rs, "admin" \in rs).active = row.active
           /\ WithGrant(row, rs, "admin" \in rs).temp = row.temp
           /\ WithGrant(row, rs, "admin" \in rs).epoch = row.epoch
           /\ WithGrant(row, rs, "admin" \in rs).admin <=> "admin" \in rs
<1>1. ASSUME NEW a \in BOOLEAN
      PROVE  /\ WithGrant(row, rs, a).exists = row.exists /\ WithGrant(row, rs, a).active = row.active
             /\ WithGrant(row, rs, a).temp = row.temp /\ WithGrant(row, rs, a).epoch = row.epoch
             /\ WithGrant(row, rs, a).admin = a
  BY DEF WithGrant, Rows
<1>2. ("admin" \in rs) \in BOOLEAN
  OBVIOUS
<1>. QED  BY <1>1, <1>2

(* The first statement of AssignUserRole takes nothing from the new user.     *)
LEMMA AssignRoleKeeps == ASSUME PromiseInv, NEW c \in Callers, AssignRole(c) PROVE PromiseInv'
<1>1. /\ AccessInv /\ AccessInv' /\ At(c, "assign") /\ session' = session /\ past' = past
      /\ Goto(c, "unassign")
      /\ Target(c) \in Users /\ past.removals \in Nat /\ user[Target(c)] \in Rows
      /\ RowOK(user[Target(c)])
  BY AssignRoleOK, Serving DEF PromiseInv, AssignRole, At, Pasts, AccessInv
<1>2. PICK n \in Users : n = Target(c)
  BY <1>1
<1>3. PICK rs : rs = user[n].roles \union {call[c].role}
  OBVIOUS
<1>4. PICK row : row = WithGrant(user[n], rs, "admin" \in rs)
  OBVIOUS
<1>5. user' = [user EXCEPT ![n] = row]
  BY <1>1, <1>2, <1>3, <1>4, Serving DEF AssignRole, WithGrant
<1>6. /\ row.exists = user[n].exists /\ row.active = user[n].active /\ row.temp = user[n].temp
      /\ row.epoch = user[n].epoch /\ (row.admin <=> "admin" \in rs)
  BY <1>1, <1>2, <1>4, GrantFields
<1>7. Respects(c) /\ user'[n] = row /\ \A v \in Users \ {n} : user'[v] = user[v]
  <2>1. Administers(n) => row.exists /\ row.admin /\ row.active
    BY <1>1, <1>2, <1>3, <1>6 DEF Administers, RowOK
  <2>2. past.removals <= past'.removals /\ past.crossed \subseteq past'.crossed
    BY <1>1
  <2>. QED  BY <1>1, <1>5, <1>6, <2>1, <2>2, RowRespects
<1>8. SomeoneAdministers'
  BY <1>1, <1>7, SomeoneStays
<1>9. Takes(call[c])
  BY <1>1 DEF Takes, At
<1>10. user'[Target(c)].epoch = user[Target(c)].epoch
  BY <1>2, <1>6, <1>7
<1>. QED  BY <1>1, <1>2, <1>7, <1>8, <1>9, <1>10, CreatedStays

(* The second takes the role admin from the new user, if a request has given  *)
(* it meanwhile; then the caller, who is another, still administers, or       *)
(* removals have overlapped.                                                  *)
LEMMA UnassignRolesKeeps == ASSUME PromiseInv, NEW c \in Callers, UnassignRoles(c) PROVE PromiseInv'
<1>1. /\ AccessInv /\ AccessInv' /\ At(c, "unassign") /\ session' = session /\ Goto(c, "must")
      /\ Target(c) \in Users /\ past \in Pasts /\ user[Target(c)] \in Rows
      /\ CallerOK(call[c]) /\ call[c] \in Calls
  BY UnassignRolesOK, Serving DEF PromiseInv, UnassignRoles, At, AccessInv
<1>2. PICK n \in Users : n = Target(c)
  BY <1>1
<1>3. PICK rs : rs = user[n].roles \intersect {call[c].role}
  OBVIOUS
<1>4. PICK row : row = WithGrant(user[n], rs, "admin" \in rs)
  OBVIOUS
<1>5. user' = [user EXCEPT ![n] = row]
  BY <1>1, <1>2, <1>3, <1>4, Serving DEF UnassignRoles, WithGrant
<1>6. /\ row.exists = user[n].exists /\ row.active = user[n].active /\ row.temp = user[n].temp
      /\ row.epoch = user[n].epoch /\ (row.admin <=> "admin" \in rs)
  BY <1>1, <1>2, <1>4, GrantFields
<1>7. PICK removes \in BOOLEAN, b \in BOOLEAN :
         /\ removes = (Administers(n) /\ "admin" \notin rs)
         /\ b = (past.overlapped \/ (removes /\ call[c].since # past.removals))
  OBVIOUS
<1>8. past' = [past EXCEPT !.removals = IF removes THEN past.removals + 1 ELSE past.removals,
                           !.overlapped = b]
  BY <1>2, <1>3, <1>7 DEF UnassignRoles
<1>9. /\ past'.removals = (IF removes THEN past.removals + 1 ELSE past.removals)
      /\ past'.overlapped = b /\ past'.cut = past.cut /\ past'.crossed = past.crossed
      /\ past.removals \in Nat
  BY <1>1, <1>8 DEF Pasts
<1>10. Respects(c) /\ user'[n] = row /\ \A v \in Users \ {n} : user'[v] = user[v]
  <2>1. past'.removals = past.removals /\ Administers(n) => row.exists /\ row.admin /\ row.active
    <3>1. past'.removals = past.removals => ~removes
      BY <1>9
    <3>. QED  BY <1>6, <1>7, <3>1 DEF Administers
  <2>2. past.removals <= past'.removals /\ past.crossed \subseteq past'.crossed
    BY <1>9
  <2>. QED  BY <1>1, <1>5, <1>6, <2>1, <2>2, RowRespects
<1>11. SomeoneAdministers'
  <2>1. CASE ~removes
    BY <1>7, <1>9, <1>10, <2>1, SomeoneStays
  <2>2. CASE removes /\ call[c].since # past.removals
    BY <1>7, <1>9, <2>2 DEF SomeoneAdministers
  <2>3. CASE removes /\ call[c].since = past.removals
    <3>1. /\ Administers(call[c].by) /\ n # call[c].by /\ call[c].by \in Users
      BY <1>1, <1>2, <2>3 DEF CallerOK, RemovalOK, Takes, Target, At, Calls
    <3>2. user'[call[c].by] = user[call[c].by]
      BY <1>10, <3>1
    <3>. QED  BY <3>1, <3>2 DEF SomeoneAdministers, Administers
  <2>. QED  BY <2>1, <2>2, <2>3
<1>12. Takes(call[c])
  BY <1>1 DEF Takes, At
<1>13. user'[Target(c)].epoch = user[Target(c)].epoch
  BY <1>2, <1>6, <1>10
<1>. QED  BY <1>1, <1>2, <1>9, <1>10, <1>11, <1>12, <1>13, CreatedStays

(* The write of a handler: who takes administration from another still        *)
(* administers, or removals have overlapped.                                  *)
LEMMA WriteKeeps == ASSUME PromiseInv, NEW c \in Callers, Write(c) PROVE PromiseInv'
<1>1. /\ AccessInv /\ AccessInv' /\ At(c, "write") /\ call[c].at = "write" /\ session' = session
      /\ Target(c) \in Users /\ past \in Pasts /\ user[Target(c)] \in Rows
      /\ CallerOK(call[c]) /\ call[c] \in Calls /\ CallOK(call[c], user)
  BY WriteOK, Serving DEF PromiseInv, Write, At, AccessInv
<1>2. PICK n \in Users : n = Target(c)
  BY <1>1
<1>3. PICK op \in TargetOps \union {"password"} : op = call[c].op
  BY <1>1 DEF CallOK
<1>4. PICK row : row = Updated(op, user[n])
  OBVIOUS
<1>5. user' = [user EXCEPT ![n] = row]
  BY <1>2, <1>3, <1>4 DEF Write
<1>6. /\ row.exists = user[n].exists /\ row.must = user[n].must
      /\ op \notin Removals => /\ user[n].admin => row.admin
                               /\ user[n].active => row.active
      /\ op = "activate" => row.epoch = user[n].epoch
      /\ op = "password" => ~row.temp
      /\ op \notin {"password", "reset"} => row.temp = user[n].temp
  BY <1>1, <1>2, <1>4, UpdatedFields
<1>7. PICK removes \in BOOLEAN, crosses \in BOOLEAN, b \in BOOLEAN :
         /\ removes = (Administers(n) /\ op \in Removals)
         /\ crosses = (/\ op \in {"reset", "password"}
                       /\ \E d \in Callers \ {c} : At(d, "must") /\ Target(d) = n)
         /\ b = (past.overlapped \/ (removes /\ call[c].since # past.removals))
  OBVIOUS
<1>8. past' = [past EXCEPT !.removals = IF removes THEN past.removals + 1 ELSE past.removals,
                           !.overlapped = b,
                           !.crossed = IF crosses THEN past.crossed \union {n} ELSE past.crossed]
  BY <1>2, <1>3, <1>7 DEF Write, Removals
<1>9. /\ past'.removals = (IF removes THEN past.removals + 1 ELSE past.removals)
      /\ past'.overlapped = b /\ past'.cut = past.cut
      /\ past'.crossed = (IF crosses THEN past.crossed \union {n} ELSE past.crossed)
      /\ past.removals \in Nat /\ call[c].since \in Nat
  BY <1>1, <1>8 DEF Pasts, Calls
<1>10. Respects(c) /\ user'[n] = row /\ \A v \in Users \ {n} : user'[v] = user[v]
  <2>1. past'.removals = past.removals /\ Administers(n) => row.exists /\ row.admin /\ row.active
    <3>1. past'.removals = past.removals => ~removes
      BY <1>9
    <3>. QED  BY <1>6, <1>7, <3>1 DEF Administers
  <2>2. past.removals <= past'.removals /\ past.crossed \subseteq past'.crossed
    BY <1>9
  <2>3. ASSUME NEW d \in Callers \ {c}, At(d, "must") /\ Target(d) = n /\ row.temp
        PROVE  user[n].temp \/ n \in past'.crossed
    <3>1. CASE op \in {"reset", "password"}
      <4>1. crosses
        BY <1>7, <2>3, <3>1
      <4>. QED  BY <1>9, <4>1
    <3>2. CASE op \notin {"reset", "password"}
      BY <1>6, <2>3, <3>2
    <3>. QED  BY <3>1, <3>2
  <2>4. \A d \in Callers \ {c} :
           At(d, "must") /\ Target(d) = n /\ user[n].exists /\ row.temp =>
               user[n].temp \/ n \in past'.crossed
    BY <2>3
  <2>5. user[n].exists => row.exists
    BY <1>6
  <2>6. AccessInv'
    BY <1>1
  <2>. QED  BY <1>5, <2>1, <2>2, <2>4, <2>5, <2>6, RowRespects DEF At, Target
<1>. PICK by \in Users : by = call[c].by
  BY <1>1 DEF Calls
<1>11. removes /\ call[c].since = past.removals => Administers(by)'
  <2> SUFFICES ASSUME removes, call[c].since = past.removals
               PROVE  Administers(by)'
    OBVIOUS
  <2>1. op \in Removals /\ op \in TargetOps /\ Takes(call[c])
    BY <1>1, <1>3, <1>7 DEF Takes, Removals, TargetOps
  <2>2. Administers(by) /\ n # by
    BY <1>1, <1>2, <1>3, <2>1 DEF CallerOK, RemovalOK, Target
  <2>3. user'[by] = user[by]
    BY <1>10, <2>2
  <2>. QED  BY <2>2, <2>3 DEF Administers
<1>12. SomeoneAdministers'
  <2>1. CASE ~removes
    BY <1>7, <1>9, <1>10, <2>1, SomeoneStays
  <2>2. CASE removes /\ call[c].since # past.removals
    BY <1>7, <1>9, <2>2 DEF SomeoneAdministers
  <2>3. CASE removes /\ call[c].since = past.removals
    BY <1>11, <2>3 DEF SomeoneAdministers
  <2>. QED  BY <2>1, <2>2, <2>3
<1>13. \A v : ~Finishing(c, v) /\ ~Marking(c, v)
  BY <1>1, NothingBegun DEF At
<1>14. CASE op = "activate"
  <2>1. PICK r : r = AfterTarget(call[c])
    OBVIOUS
  <2>2. r \in Calls /\ CallerOK(r) /\ r.at # "must"
    <3>1. r \in Calls /\ CallerOK(r)
      BY <1>1, <2>1, AfterTargetOK, AnswerStays
    <3>2. r.at # "must"
      BY <1>1, <2>1 DEF AfterTarget, Idle, Calls
    <3>. QED  BY <3>1, <3>2
  <2>3. call' = [call EXCEPT ![c] = r]
    BY <1>3, <1>14, <2>1 DEF Write, Answer
  <2>4. CallerOK(r)'
    BY <1>1, <1>10, <2>2, RequestStays
  <2>5. user'[n].epoch = user[n].epoch /\ user'[n].must = user[n].must /\ user'[n].temp = user[n].temp
    BY <1>6, <1>10, <1>14
  <2>6. \A v \in Users \ {n} : user'[v] = user[v] /\ ~Marking(c, v)
    BY <1>10, <1>13
  <2>. QED  BY <1>1, <1>9, <1>10, <1>12, <1>13, <2>3, <2>4, <2>5, <2>6, UserStep
<1>15. CASE op # "activate"
  <2>1. PICK step \in {"must", "revoke"} :
           /\ step = AfterWrite(op)
           /\ step = "must" => op \in {"reset", "password"}
           /\ op \in {"reset", "password"} => step = "must"
    BY <1>15 DEF AfterWrite, TargetOps
  <2>2. PICK since \in Nat : since = IF removes THEN call[c].since + 1 ELSE call[c].since
    BY <1>9
  <2>3. PICK r : r = [call[c] EXCEPT !.at = step, !.seen = row, !.since = since]
    OBVIOUS
  <2>4. /\ r.at = step /\ r.op = op /\ r.by = by /\ r.since = since
        /\ Head(r.todo) = n
    <3>1. r.at = step /\ r.op = op /\ r.by = by /\ r.since = since /\ r.todo = call[c].todo
      BY <1>1, <1>3, <2>3 DEF Calls
    <3>. QED  BY <1>2, <3>1 DEF Target
  <2>5. call' = [call EXCEPT ![c] = r]
    <3>1. user'[Target(c)] = row
      BY <1>2, <1>10
    <3>. QED  BY <1>1, <1>2, <1>3, <1>7, <1>15, <2>1, <2>2, <2>3, <3>1, Serving DEF Write, Removals
  <2>6. CallerOK(r)'
    <3>1. user'[r.by].exists
      BY <1>1, <1>10, <2>4 DEF CallerOK, Respects, Calls
    <3>2. RemovalOK(r)'
      <4>1. call[c].since <= past.removals
        BY <1>1 DEF CallerOK, RemovalOK
      <4>2. r.since <= past'.removals /\ (r.since = past'.removals => call[c].since = past.removals)
        BY <1>9, <2>2, <2>4, <4>1
      <4>3. ASSUME r.op \in TargetOps, r.since = past'.removals PROVE Administers(r.by)'
        <5>1. CASE removes
          BY <1>11, <2>4, <4>2, <4>3, <5>1 DEF Administers
        <5>2. CASE ~removes
          <6>1. past'.removals = past.removals /\ call[c].since = past.removals
            BY <1>9, <4>2, <4>3, <5>2
          <6>2. Administers(r.by) /\ r.by \in Users
            BY <1>1, <1>3, <2>4, <4>3, <6>1 DEF CallerOK, RemovalOK, Calls
          <6>. QED  BY <1>10, <6>1, <6>2 DEF Respects
        <5>. QED  BY <5>1, <5>2
      <4>4. r.op # "create" /\ ~Takes(r) /\ r.at \notin {"check", "insert", "assign", "unassign"}
        BY <2>4 DEF TargetOps, Takes
      <4>. QED  BY <4>2, <4>3, <4>4 DEF RemovalOK, Takes
    <3>3. PasswordOK(r)'
      <4> SUFFICES ASSUME r.op = "password"
                   PROVE  Head(r.todo) = r.by /\ ~user'[r.by].temp
        BY DEF PasswordOK
      <4>1. n = by
        BY <1>1, <1>2, <1>3, <2>4 DEF CallerOK, PasswordOK, Target
      <4>. QED  BY <1>6, <1>10, <2>4, <4>1
    <3>. QED  BY <3>1, <3>2, <3>3 DEF CallerOK
  <2>7. call'[c] = r
    BY <1>1, <2>5, Serving
  <2>8. Finishing(c, n)' /\ (op \in {"reset", "password"} => Marking(c, n)')
    <3>1. op \notin {"logout", "login", "create"}
      BY DEF TargetOps
    <3>. QED  BY <2>1, <2>4, <2>7, <3>1 DEF Finishing, Marking, Target, At
  <2>9. user'[n].temp /\ ~user'[n].must => Marking(c, n)' \/ (user[n].temp /\ ~user[n].must)
    BY <1>6, <1>10, <2>8
  <2>10. \A v \in Users \ {n} : user'[v] = user[v] /\ ~Marking(c, v)
    BY <1>10, <1>13
  <2>. QED  BY <1>1, <1>9, <1>10, <1>12, <1>13, <2>5, <2>6, <2>8, <2>9, <2>10, UserStep
<1>. QED  BY <1>14, <1>15

-----------------------------------------------------------------------------
(* The promises hold *)

(* What the administration tool has made, with an administrator at least.     *)
LEMMA PromiseStart ==
    ASSUME NEW admins \in SUBSET Users, admins # {}, NEW marked, AccessInit(admins, marked)
    PROVE  PromiseInv
<1>1. AccessInv
  BY AccessStart
<1>2. PICK sys \in BOOLEAN, o \in Others :
         user = [u \in Users |-> IF u \notin admins THEN o
                                 ELSE [Fresh(TRUE, "active") EXCEPT !.sys = sys /\ u = marked]]
  BY DEF AccessInit
<1>3. ASSUME NEW u \in admins
      PROVE  user[u].exists /\ user[u].admin /\ user[u].active /\ user[u].epoch = 0
  <2>1. PICK b \in BOOLEAN : b = (sys /\ u = marked)
    OBVIOUS
  <2>2. user[u] = [Fresh(TRUE, "active") EXCEPT !.sys = b]
    BY <1>2, <2>1
  <2>3. /\ Fresh(TRUE, "active") \in Rows /\ Fresh(TRUE, "active").exists
        /\ Fresh(TRUE, "active").active /\ Fresh(TRUE, "active").admin
    BY FreshRow DEF RowOK
  <2>4. Fresh(TRUE, "active").epoch = 0
    BY DEF Fresh, NoRow
  <2>. QED  BY <2>2, <2>3, <2>4 DEF Rows
<1>4. \A u \in Users : ~user[u].temp
  <2>1. Fresh(FALSE, "active").temp = FALSE /\ Fresh(TRUE, "active").temp = FALSE
    BY DEF Fresh, NoRow
  <2>2. \A o2 \in Others : o2.temp = FALSE
    BY <2>1 DEF Others, NoRow, Fresh
  <2>3. ASSUME NEW u \in Users PROVE ~user[u].temp
    <3>1. CASE u \notin admins
      <4>1. user[u] = o
        BY <1>2, <3>1
      <4>. QED  BY <2>2, <4>1
    <3>2. CASE u \in admins
      <4>1. PICK b \in BOOLEAN : b = (sys /\ u = marked)
        OBVIOUS
      <4>2. user[u] = [Fresh(TRUE, "active") EXCEPT !.sys = b]
        BY <1>2, <3>2, <4>1
      <4>3. Fresh(TRUE, "active") \in Rows
        BY FreshRow DEF RowOK
      <4>. QED  BY <2>1, <4>2, <4>3 DEF Rows
    <3>. QED  BY <3>1, <3>2
  <2>. QED  BY <2>3
<1>5. \A i \in DOMAIN session : session[i].user \in admins /\ session[i].epoch = 0
  <2>1. IsFiniteSet(admins)
    BY FS_Subset, AccessAssumption DEF AccessAssumption
  <2>2. PICK n \in Nat : n = Cardinality(admins) /\ SetToSeq(admins) \in [1..n -> admins]
    BY <2>1, SeqOfSet
  <2>3. session = [i \in 1..n |->
                     [user |-> SetToSeq(admins)[i], live |-> TRUE, epoch |-> 0, late |-> FALSE]]
    BY <2>2 DEF AccessInit
  <2>. QED  BY <2>2, <2>3
<1>6. \A i \in DOMAIN session : user[session[i].user].exists
  BY <1>3, <1>5
<1>7. \A c \in Callers : CallerOK(call[c])
  BY DEF AccessInit, Idle, CallerOK
<1>8. SomeoneAdministers
  BY <1>3 DEF SomeoneAdministers, Administers
<1>9. OldSessionsEnd
  BY <1>3, <1>5 DEF OldSessionsEnd
<1>10. AdminPasswordIsTemporary
  BY <1>4 DEF AdminPasswordIsTemporary
<1>. QED  BY <1>1, <1>6, <1>7, <1>8, <1>9, <1>10 DEF PromiseInv

(* Every statement of every request keeps the promises.                     *)
LEMMA PromiseStep == PromiseInv /\ [AccessNext]_accessVars => PromiseInv'
<1>. SUFFICES ASSUME PromiseInv, [AccessNext]_accessVars PROVE PromiseInv'
  OBVIOUS
<1>1. ASSUME NEW c \in Callers, CallAdmin(c) \/ CallOwn(c) \/ CallLogin(c) PROVE PromiseInv'
  BY <1>1, CallAdminKeeps, CallOwnKeeps, CallLoginKeeps
<1>2. ASSUME NEW c \in Callers, Fetch(c) \/ Count(c) \/ Write(c) PROVE PromiseInv'
  BY <1>2, FetchKeeps, CountKeeps, WriteKeeps
<1>3. ASSUME NEW c \in Callers, Must(c) \/ Revoke(c) \/ Open(c) PROVE PromiseInv'
  BY <1>3, MustKeeps, RevokeKeeps, OpenKeeps
<1>4. ASSUME NEW c \in Callers,
             CheckEmail(c) \/ Insert(c) \/ AssignRole(c) \/ UnassignRoles(c) \/ Fail(c)
      PROVE  PromiseInv'
  BY <1>4, CheckEmailKeeps, InsertKeeps, AssignRoleKeeps, UnassignRolesKeeps, FailKeeps
<1>5. CASE UNCHANGED accessVars
  <2>1. AccessInv'
    BY <1>5, AccessStep DEF PromiseInv
  <2>2. (\A c \in Callers : CallerOK(call[c]))'
    BY <1>5 DEF PromiseInv, CallerOK, RemovalOK, PasswordOK, Takes, Administers, accessVars
  <2>3. SomeoneAdministers' /\ AdminPasswordIsTemporary'
    BY <1>5 DEF PromiseInv, SomeoneAdministers, AdminPasswordIsTemporary, Administers, At, Target,
                accessVars
  <2>4. OldSessionsEnd'
    BY <1>5 DEF PromiseInv, OldSessionsEnd, Finishing, At, Target, accessVars
  <2>5. (\A i \in DOMAIN session : user[session[i].user].exists)'
    BY <1>5 DEF PromiseInv, accessVars
  <2>. QED  BY <2>1, <2>2, <2>3, <2>4, <2>5 DEF PromiseInv
<1>. QED  BY <1>1, <1>2, <1>3, <1>4, <1>5 DEF AccessNext

(* Rule 3 of canModifyUser: for any number of administrators, requests and    *)
(* failures, an administrator that can log in remains, unless requests that   *)
(* take administration from a user have overlapped.                           *)
THEOREM AnAdministratorRemains ==
    ASSUME NEW admins \in SUBSET Users, admins # {}, NEW marked
    PROVE  AccessSpec(admins, marked) => []SomeoneAdministers
<1>1. AccessInit(admins, marked) => PromiseInv
  BY PromiseStart
<1>2. PromiseInv => SomeoneAdministers
  BY DEF PromiseInv
<1>. QED  BY <1>1, <1>2, PromiseStep, PTL DEF AccessSpec

(* RevokeAllForUserWithReason, a statement after the write that calls for it, *)
(* leaves no older session alive but those of a login that had read the row   *)
(* before, unless a statement of the request failed.                          *)
THEOREM SessionsEnd ==
    ASSUME NEW admins \in SUBSET Users, admins # {}, NEW marked
    PROVE  AccessSpec(admins, marked) => []OldSessionsEnd
<1>1. AccessInit(admins, marked) => PromiseInv
  BY PromiseStart
<1>2. PromiseInv => OldSessionsEnd
  BY DEF PromiseInv
<1>. QED  BY <1>1, <1>2, PromiseStep, PTL DEF AccessSpec

(* SetMustChangePassword, a statement after the one that sets the password:   *)
(* what an administrator has chosen must be changed, unless the request       *)
(* failed half-way or crossed the user's own change of password.              *)
THEOREM ChosenPasswordsMustChange ==
    ASSUME NEW admins \in SUBSET Users, admins # {}, NEW marked
    PROVE  AccessSpec(admins, marked) => []AdminPasswordIsTemporary
<1>1. AccessInit(admins, marked) => PromiseInv
  BY PromiseStart
<1>2. PromiseInv => AdminPasswordIsTemporary
  BY DEF PromiseInv
<1>. QED  BY <1>1, <1>2, PromiseStep, PTL DEF AccessSpec
=============================================================================
