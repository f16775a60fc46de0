-------------------------- MODULE ScanImportProofs --------------------------
(***************************************************************************)
(* For any reports, scans and imports, however they overlap and whatever   *)
(* fails: what ScanImport counts and links is exact.                       *)
(***************************************************************************)
EXTENDS ScanImport, FiniteSetTheorems, WellFoundedInduction, TLAPS

-----------------------------------------------------------------------------
(* The inductive invariant *)

\* What request q has written is, or was, visible to others.
Visible(q) == q \in Scans => scans[q] # None

\* The id was made for an entry with this fingerprint, by the request that the
\* id names.
MadeFor(id, fp) ==
    /\ id[2] \in DOMAIN got[id[1]]
    /\ got[id[1]][id[2]].id = id
    /\ job[id[1]].report[id[2]] = fp

\* An entry has been returned as new exactly if its id was made for it; another
\* id was made before, by this request or by one whose rows are visible.
EntryOK(r, i) ==
    LET e == got[r][i] IN
    /\ i <= Len(job[r].report)
    /\ r \in Scans => e.id # None
    /\ e.new <=> e.id = <<r, i>>
    /\ e.id # None =>
          /\ MadeFor(e.id, job[r].report[i])
          /\ IF e.id[1] = r THEN e.id[2] <= i ELSE Visible(e.id[1])

EntriesOK == \A r \in Requests : \A i \in DOMAIN got[r] : EntryOK(r, i)

RowsOK ==
    \A fp \in Fingerprints : table[fp] # None =>
        MadeFor(table[fp].id, fp) /\ Visible(table[fp].id[1])

\* The entries of s that are the finding with this id.
Own(s, id) == {x \in {s} \X DOMAIN got[s] : got[s][x[2]].id = id}

\* The row that s has written is the one it locked, with its own sightings.
DraftOK(s, fp) ==
    /\ lock[fp] = s <=> draft[s][fp] # None
    /\ draft[s][fp] # None =>
          /\ pc[s] = "upsert"
          /\ MadeFor(draft[s][fp].id, fp)
          /\ IF table[fp] = None
             THEN /\ draft[s][fp].id[1] = s
                  /\ draft[s][fp].times = Cardinality(Own(s, draft[s][fp].id))
             ELSE /\ draft[s][fp].id = table[fp].id
                  /\ draft[s][fp].times = table[fp].times + Cardinality(Own(s, table[fp].id))

\* A scan in progress has no row in table scans, and has written every finding
\* it has seen.
ScanOK(s) ==
    /\ pc[s] \in {"idle", "upsert"} => scans[s] = None
    /\ pc[s] = "idle" => got[s] = <<>>
    /\ pc[s] = "upsert" => \A i \in DOMAIN got[s] :
          LET fp == job[s].report[i]
          IN  draft[s][fp] # None /\ draft[s][fp].id = got[s][i].id

ScansOK == \A s \in Scans : ScanOK(s) /\ \A fp \in Fingerprints : DraftOK(s, fp)

SightingsFinite == \A id \in Ids : IsFiniteSet(SightingsOf(id))

IInv ==
    /\ TypeOK
    /\ EntriesOK /\ RowsOK /\ ScansOK
    /\ SightingsFinite /\ TimesSeenCounts /\ ScanIsWhole

-----------------------------------------------------------------------------
(* Entries, ids and rows *)

Results == [id : Ids \union {None}, new : BOOLEAN]

(* An entry that is still to be upserted.                                   *)
LEMMA NextEntry ==
    ASSUME TypeOK, NEW r \in Requests, Todo(r)
    PROVE  /\ Entry(r) \in Fingerprints /\ NewId(r) \in Ids
           /\ Len(got[r]) \in Nat /\ Len(got[r]) + 1 \in 1..Len(job[r].report)
           /\ DOMAIN got[r] = 1..Len(got[r])
           /\ Entry(r) = job[r].report[Len(got[r]) + 1]
           /\ NewId(r)[1] = r /\ NewId(r)[2] = Len(got[r]) + 1
<1>1. got[r] \in Seq(Results) /\ job[r].report \in Seq(Fingerprints)
  BY ImportAssumption DEF TypeOK, Results, ImportAssumption
<1>2. Len(got[r]) \in Nat /\ Len(job[r].report) \in Nat /\ DOMAIN got[r] = 1..Len(got[r])
  BY <1>1
<1>3. Len(got[r]) + 1 \in 1..Len(job[r].report)
  BY <1>2 DEF Todo
<1>4. Entry(r) \in Fingerprints
  BY <1>1, <1>3 DEF Entry
<1>. QED  BY <1>2, <1>3, <1>4 DEF NewId, Ids, Entry

(* What the upsert of an entry returns, over the row it finds.              *)
LEMMA UpsertedIs ==
    ASSUME TypeOK, NEW r \in Requests, Todo(r), NEW row \in Rows \union {None}
    PROVE  /\ Upserted(r, row) \in Rows
           /\ Returned(r, row) \in Results
           /\ Returned(r, row).id = Upserted(r, row).id
           /\ Returned(r, row).new <=> row = None
           /\ IF row = None THEN Upserted(r, row).id = NewId(r) /\ Upserted(r, row).times = 1
              ELSE Upserted(r, row).id = row.id /\ Upserted(r, row).times = row.times + 1
<1>1. job[r].project \in Projects /\ NewId(r) \in Ids /\ None \notin Rows
  BY NextEntry, ImportAssumption DEF TypeOK, ImportAssumption
<1>2. /\ Upserted(r, row) \in Rows
      /\ IF row = None THEN Upserted(r, row).id = NewId(r) /\ Upserted(r, row).times = 1
         ELSE Upserted(r, row).id = row.id /\ Upserted(r, row).times = row.times + 1
  <2>1. CASE row = None
    BY <1>1, <2>1 DEF Upserted, Rows
  <2>2. CASE row # None
    <3>1. row \in Rows /\ row.times + 1 \in Nat \ {0}
      BY <2>2 DEF Rows
    <3>2. Upserted(r, row) = [row EXCEPT !.times = row.times + 1]
      BY <2>2, <3>1 DEF Upserted, Rows
    <3>. QED  BY <2>2, <3>1, <3>2 DEF Rows
  <2>. QED  BY <2>1, <2>2
<1>3. PICK b \in BOOLEAN : b = (row = None)
  OBVIOUS
<1>4. Returned(r, row) = [id |-> Upserted(r, row).id, new |-> b]
  BY <1>3 DEF Returned
<1>5. Upserted(r, row).id \in Ids
  BY <1>2 DEF Rows
<1>6. Returned(r, row) \in Results
  BY <1>4, <1>5 DEF Results
<1>7. Returned(r, row).id = Upserted(r, row).id /\ Returned(r, row).new = b
  <2>1. PICK id : id = Upserted(r, row).id
    OBVIOUS
  <2>2. Returned(r, row) = [id |-> id, new |-> b]
    BY <1>4, <2>1
  <2>. QED  BY <2>1, <2>2
<1>. QED  BY <1>2, <1>3, <1>6, <1>7, Zenon

(* The results of a request, with one more.                                 *)
LEMMA Appended ==
    ASSUME TypeOK, NEW r \in Requests, NEW e \in Results,
           got' = [got EXCEPT ![r] = Append(got[r], e)]
    PROVE  /\ got' \in [Requests -> Seq(Results)]
           /\ \A q \in Requests \ {r} : got'[q] = got[q]
           /\ DOMAIN got[r] = 1..Len(got[r])
           /\ DOMAIN got'[r] = DOMAIN got[r] \union {Len(got[r]) + 1}
           /\ \A i \in DOMAIN got[r] : i # Len(got[r]) + 1 /\ got'[r][i] = got[r][i]
           /\ got'[r][Len(got[r]) + 1] = e
<1>1. got \in [Requests -> Seq(Results)]
  BY DEF TypeOK, Results
<1>2. got'[r] = Append(got[r], e) /\ got[r] \in Seq(Results) /\ Len(got[r]) \in Nat
  BY <1>1
<1>3. /\ DOMAIN got[r] = 1..Len(got[r])
      /\ DOMAIN got'[r] = 1..(Len(got[r]) + 1)
      /\ \A i \in 1..Len(got[r]) : got'[r][i] = got[r][i]
      /\ got'[r][Len(got[r]) + 1] = e
      /\ got'[r] \in Seq(Results)
  BY <1>2
<1>. QED  BY <1>1, <1>2, <1>3

(* The request that an id names.                                            *)
LEMMA Maker ==
    ASSUME NEW id \in Ids
    PROVE  id[1] \in Requests /\ id[2] \in Nat /\ id[2] >= 1 /\ id = <<id[1], id[2]>> /\ id # None
  BY ImportAssumption DEF Ids, ImportAssumption

(* An id stays one that was made for its fingerprint.                       *)
LEMMA MadeStays ==
    ASSUME TypeOK, NEW id \in Ids, NEW fp, MadeFor(id, fp), job' = job,
           \A i \in DOMAIN got[id[1]] : i \in DOMAIN got'[id[1]] /\ got'[id[1]][i] = got[id[1]][i]
    PROVE  MadeFor(id, fp)'
  BY DEF MadeFor

(* An id is made for one fingerprint.                                       *)
LEMMA MadeForOne ==
    ASSUME NEW id, NEW f, NEW g, MadeFor(id, f), MadeFor(id, g)
    PROVE  f = g
  BY DEF MadeFor

(* A new id is in no row yet.                                               *)
LEMMA NewIdIsNew ==
    ASSUME TypeOK, NEW r \in Requests, Todo(r), NEW fp, NEW id, MadeFor(id, fp)
    PROVE  id # NewId(r)
<1>1. SUFFICES ASSUME id = NewId(r) PROVE FALSE
  OBVIOUS
<1>. QED  BY <1>1, NextEntry DEF MadeFor

(* The row that the upsert of an entry finds was made for its fingerprint, and *)
(* is the request's own or visible.                                           *)
Finds(r, row) ==
    row # None =>
        /\ row \in Rows /\ MadeFor(row.id, Entry(r))
        /\ row.id[1] # r => Visible(row.id[1])

(* The results of all requests, with one more of r.                         *)
LEMMA EntriesAppended ==
    ASSUME TypeOK, EntriesOK, NEW r \in Requests, Todo(r), NEW e \in Results,
           got' = [got EXCEPT ![r] = Append(got[r], e)], job' = job, scans' = scans,
           r \in Scans => e.id # None,
           e.new <=> e.id = NewId(r),
           e.id \notin {None, NewId(r)} =>
               MadeFor(e.id, Entry(r)) /\ (e.id[1] # r => Visible(e.id[1]))
    PROVE  /\ EntriesOK'
           /\ \A id \in Ids : \A f : MadeFor(id, f) => MadeFor(id, f)'
           /\ \A f : f = Entry(r) /\ e.id # None => MadeFor(e.id, f)'
<1>1. /\ \A p \in Requests \ {r} : got'[p] = got[p]
      /\ DOMAIN got[r] = 1..Len(got[r])
      /\ DOMAIN got'[r] = DOMAIN got[r] \union {Len(got[r]) + 1}
      /\ \A k \in DOMAIN got[r] : k # Len(got[r]) + 1 /\ got'[r][k] = got[r][k]
      /\ got'[r][Len(got[r]) + 1] = e
      /\ got' \in [Requests -> Seq(Results)]
  BY Appended
<1>2. \A id \in Ids : \A f : MadeFor(id, f) => MadeFor(id, f)'
  <2> SUFFICES ASSUME NEW id \in Ids, NEW f, MadeFor(id, f) PROVE MadeFor(id, f)'
    OBVIOUS
  <2>1. \A k \in DOMAIN got[id[1]] : k \in DOMAIN got'[id[1]] /\ got'[id[1]][k] = got[id[1]][k]
    <3>1. CASE id[1] = r
      BY <1>1, <3>1
    <3>2. CASE id[1] # r
      BY <1>1, <3>2, Maker
    <3>. QED  BY <3>1, <3>2
  <2>. QED  BY <2>1, MadeStays
<1>3. PICK n, fp : n = Len(got[r]) + 1 /\ fp = Entry(r)
  OBVIOUS
<1>4. /\ NewId(r) = <<r, n>> /\ n <= Len(job[r].report) /\ fp = job[r].report[n]
      /\ <<r, n>> \in Ids /\ n \in Nat /\ n = Len(got[r]) + 1 /\ got'[r][n] = e
      /\ n \in DOMAIN got'[r]
  BY <1>1, <1>3, NextEntry DEF NewId
<1>5. e.id # None => MadeFor(e.id, fp)'
  <2>1. CASE e.id = NewId(r)
    BY <1>4, <2>1 DEF MadeFor
  <2>2. CASE e.id \notin {None, NewId(r)}
    <3>1. e.id \in Ids /\ MadeFor(e.id, fp)
      BY <1>3, <2>2 DEF Results
    <3>. QED  BY <1>2, <3>1
  <2>. QED  BY <2>1, <2>2
<1>6. ASSUME NEW q \in Requests, NEW i \in DOMAIN got'[q]
      PROVE  EntryOK(q, i)'
  <2>1. \A p : Visible(p)' <=> Visible(p)
    BY DEF Visible
  <2>2. CASE i \in DOMAIN got[q]
    <3>1. got'[q][i] = got[q][i] /\ EntryOK(q, i) /\ got[q] \in Seq(Results)
      BY <1>1, <2>2 DEF EntriesOK, TypeOK, Results
    <3>2. PICK x, g : x = got[q][i] /\ g = job[q].report[i]
      OBVIOUS
    <3>3. x.id \in Ids \union {None} /\ got'[q][i] = x /\ job'[q].report[i] = g
      <4>1. x \in Results
        BY <2>2, <3>1, <3>2
      <4>. QED  BY <3>1, <3>2, <4>1 DEF Results
    <3>4. /\ i <= Len(job[q].report)
          /\ q \in Scans => x.id # None
          /\ x.new <=> x.id = <<q, i>>
          /\ x.id # None =>
               /\ MadeFor(x.id, g)
               /\ IF x.id[1] = q THEN x.id[2] <= i ELSE Visible(x.id[1])
      BY <3>1, <3>2 DEF EntryOK
    <3>5. /\ i <= Len(job'[q].report)
          /\ q \in Scans => x.id # None
          /\ x.new <=> x.id = <<q, i>>
          /\ x.id # None =>
               /\ MadeFor(x.id, g)'
               /\ IF x.id[1] = q THEN x.id[2] <= i ELSE Visible(x.id[1])'
      BY <1>2, <2>1, <3>3, <3>4
    <3>. QED  BY <3>3, <3>5 DEF EntryOK
  <2>3. CASE i \notin DOMAIN got[q]
    <3>1. q = r /\ i = n
      BY <1>1, <1>3, <2>3
    <3>2. e.id # None => IF e.id[1] = r THEN e.id[2] <= n ELSE Visible(e.id[1])'
      <4>1. CASE e.id = NewId(r)
        BY <1>4, <4>1
      <4>2. CASE e.id \notin {None, NewId(r)} /\ e.id[1] = r
        <5>1. e.id[2] \in 1..Len(got[r])
          BY <1>1, <4>2 DEF MadeFor
        <5>. QED  BY <1>4, <4>2, <5>1, NextEntry
      <4>3. CASE e.id \notin {None, NewId(r)} /\ e.id[1] # r
        BY <2>1, <4>3
      <4>. QED  BY <4>1, <4>2, <4>3
    <3>3. /\ n <= Len(job'[r].report)
          /\ r \in Scans => e.id # None
          /\ e.new <=> e.id = <<r, n>>
          /\ e.id # None =>
               /\ MadeFor(e.id, fp)'
               /\ IF e.id[1] = r THEN e.id[2] <= n ELSE Visible(e.id[1])'
      BY <1>4, <1>5, <3>2
    <3>4. got'[r][n] = e /\ job'[r].report[n] = fp
      BY <1>4
    <3>5. EntryOK(r, n)'
      BY <3>3, <3>4 DEF EntryOK
    <3>. QED  BY <3>1, <3>5
  <2>. QED  BY <2>2, <2>3
<1>7. \A f : f = Entry(r) /\ e.id # None => MadeFor(e.id, f)'
  BY <1>3, <1>5
<1>. QED  BY <1>2, <1>6, <1>7 DEF EntriesOK

-----------------------------------------------------------------------------
(* Types *)

(* What the counters of a scan row hold.                                    *)
LEMMA CountNewIsNat ==
    ASSUME TypeOK, NEW s \in Scans, NEW b \in BOOLEAN
    PROVE  CountNew(s, b) \in Nat
<1>1. got[s] \in Seq(Results)
  BY DEF TypeOK, Results, Requests
<1>2. IsFiniteSet(1..Len(got[s])) /\ DOMAIN got[s] = 1..Len(got[s])
  BY <1>1, FS_Interval
<1>. QED  BY <1>2, FS_Subset, FS_CardinalityType DEF CountNew

(* The rows of a commit.                                                    *)
LEMMA CommittedTyped ==
    ASSUME TypeOK, EntriesOK, NEW s \in Scans, Committed(s)
    PROVE  /\ table' \in [Fingerprints -> Rows \union {None}]
           /\ draft' \in [Scans -> [Fingerprints -> Rows \union {None}]]
           /\ lock' \in [Fingerprints -> Scans \union {None}]
           /\ links' \subseteq [id : Ids, scan : Scans, new : BOOLEAN]
           /\ scans' \in [Scans -> ScanRows \union {None}]
<1>1. draft[s] \in [Fingerprints -> Rows \union {None}]
  BY DEF TypeOK
<1>2. /\ table' \in [Fingerprints -> Rows \union {None}]
      /\ draft' \in [Scans -> [Fingerprints -> Rows \union {None}]]
      /\ lock' \in [Fingerprints -> Scans \union {None}]
  BY <1>1 DEF TypeOK, Committed, ReleasedBy
<1>3. LinksOf(s) \subseteq [id : Ids, scan : Scans, new : BOOLEAN]
  <2> SUFFICES ASSUME NEW i \in DOMAIN got[s]
               PROVE  [id |-> got[s][i].id, scan |-> s, new |-> got[s][i].new]
                          \in [id : Ids, scan : Scans, new : BOOLEAN]
    BY DEF LinksOf
  <2>1. s \in Requests /\ got[s] \in Seq(Results)
    BY DEF TypeOK, Results, Requests
  <2>2. got[s][i] \in Results /\ got[s][i].id # None
    BY <2>1 DEF EntriesOK, EntryOK
  <2>. QED  BY <2>2 DEF Results
<1>4. scans' \in [Scans -> ScanRows \union {None}]
  <2>1. PICK m, n : m = CountNew(s, TRUE) /\ n = CountNew(s, FALSE)
    OBVIOUS
  <2>2. m \in Nat /\ n \in Nat
    BY <2>1, CountNewIsNat
  <2>3. scans' = [scans EXCEPT ![s] = [status |-> "completed", imported |-> m, updated |-> n]]
    BY <2>1 DEF Committed
  <2>. QED  BY <2>2, <2>3 DEF TypeOK, ScanRows
<1>. QED  BY <1>2, <1>3, <1>4 DEF Committed, TypeOK

(* The entry that a scan upserts.                                           *)
LEMMA UpsertTyped ==
    ASSUME TypeOK, NEW s \in Scans, Upsert(s)
    PROVE  /\ draft' \in [Scans -> [Fingerprints -> Rows \union {None}]]
           /\ lock' \in [Fingerprints -> Scans \union {None}]
           /\ got' \in [Requests -> Seq(Results)]
<1>1. PICK fp, row : /\ fp = Entry(s)
                     /\ row = IF draft[s][fp] # None THEN draft[s][fp] ELSE table[fp]
  OBVIOUS
<1>2. s \in Requests /\ Todo(s)
  BY DEF Upsert, Requests
<1>3. fp \in Fingerprints
  BY <1>1, <1>2, NextEntry
<1>4. row \in Rows \union {None}
  BY <1>1, <1>3 DEF TypeOK
<1>5. PICK u, e : u = Upserted(s, row) /\ e = Returned(s, row)
  OBVIOUS
<1>6. u \in Rows /\ e \in Results
  BY <1>2, <1>4, <1>5, UpsertedIs
<1>7. /\ lock' = [lock EXCEPT ![fp] = s]
      /\ draft' = [draft EXCEPT ![s][fp] = u]
      /\ got' = [got EXCEPT ![s] = Append(got[s], e)]
  BY <1>1, <1>5 DEF Upsert
<1>8. got' \in [Requests -> Seq(Results)]
  BY <1>2, <1>6, <1>7, Appended
<1>. QED  BY <1>3, <1>6, <1>7, <1>8 DEF TypeOK

(* The entry that an import upserts or passes over.                         *)
LEMMA ImportTyped ==
    ASSUME TypeOK, NEW r \in Imports, ImportUpsert(r) \/ ImportSkip(r)
    PROVE  /\ table' \in [Fingerprints -> Rows \union {None}]
           /\ got' \in [Requests -> Seq(Results)]
<1>1. r \in Requests /\ Todo(r)
  BY DEF ImportUpsert, ImportSkip, Requests
<1>2. CASE ImportUpsert(r)
  <2>1. PICK fp, row : fp = Entry(r) /\ row = table[fp]
    OBVIOUS
  <2>2. fp \in Fingerprints
    BY <1>1, <2>1, NextEntry
  <2>3. row \in Rows \union {None}
    BY <2>1, <2>2 DEF TypeOK
  <2>4. PICK u, e : u = Upserted(r, row) /\ e = Returned(r, row)
    OBVIOUS
  <2>5. u \in Rows /\ e \in Results
    BY <1>1, <2>3, <2>4, UpsertedIs
  <2>6. table' = [table EXCEPT ![fp] = u] /\ got' = [got EXCEPT ![r] = Append(got[r], e)]
    BY <1>2, <2>1, <2>2, <2>4 DEF ImportUpsert, TypeOK
  <2>7. got' \in [Requests -> Seq(Results)]
    BY <1>1, <2>5, <2>6, Appended
  <2>. QED  BY <2>2, <2>5, <2>6, <2>7 DEF TypeOK
<1>3. CASE ImportSkip(r)
  <2>1. [id |-> None, new |-> FALSE] \in Results
    BY DEF Results
  <2>2. PICK e : e = [id |-> None, new |-> FALSE]
    OBVIOUS
  <2>3. e \in Results /\ got' = [got EXCEPT ![r] = Append(got[r], e)]
    BY <1>3, <2>1, <2>2 DEF ImportSkip
  <2>4. got' \in [Requests -> Seq(Results)]
    BY <1>1, <2>3, Appended
  <2>. QED  BY <1>3, <2>4 DEF ImportSkip, TypeOK, dbVars
<1>. QED  BY <1>2, <1>3

(* What a request publishes are findings.                                   *)
LEMMA OutboxTyped ==
    ASSUME TypeOK, EntriesOK, NEW r \in Requests
    PROVE  Outbox(r) \subseteq Ids
<1> SUFFICES ASSUME NEW i \in DOMAIN got[r], r \in Scans \/ got[r][i].new
             PROVE  got[r][i].id \in Ids
  BY DEF Outbox
<1>1. got[r] \in Seq(Results) /\ EntryOK(r, i)
  BY DEF TypeOK, Results, EntriesOK
<1>2. got[r][i] \in Results /\ i \in Nat \ {0}
  BY <1>1
<1>3. <<r, i>> \in Ids
  BY <1>2 DEF Ids
<1>. QED  BY <1>1, <1>2, <1>3 DEF EntryOK, Results

(* Every step keeps the types.                                              *)
LEMMA TypeStep ==
    ASSUME TypeOK, EntriesOK, [Next]_vars
    PROVE  TypeOK'
<1>1. ASSUME NEW s \in Scans, BeginScan(s) \/ ParseFails(s) PROVE TypeOK'
  BY <1>1 DEF TypeOK, BeginScan, ParseFails, Goto, dbVars, Requests
<1>2. ASSUME NEW s \in Scans, Upsert(s) PROVE TypeOK'
  BY <1>2, UpsertTyped DEF TypeOK, Upsert, Results
<1>3. ASSUME NEW s \in Scans, DeadlockDetected(s) \/ StatementFails(s) PROVE TypeOK'
  <2>1. /\ Rollback(s) /\ (faults' = faults \/ Fault)
        /\ UNCHANGED <<table, links, scans, events, published, job, got, deletes>>
    BY <1>3 DEF DeadlockDetected, StatementFails
  <2>2. lock' \in [Fingerprints -> Scans \union {None}]
    BY <2>1 DEF TypeOK, Rollback, ReleasedBy
  <2>3. draft' \in [Scans -> [Fingerprints -> Rows \union {None}]]
    BY <2>1 DEF TypeOK, Rollback
  <2>4. pc' \in [Requests -> {"idle", "upsert", "event", "publish", "fail", "done", "failed"}]
    BY <2>1 DEF TypeOK, Rollback, Goto
  <2>5. faults' \in 0..MaxFaults
    BY <2>1, ImportAssumption DEF TypeOK, Fault, ImportAssumption
  <2>. QED  BY <2>1, <2>2, <2>3, <2>4, <2>5 DEF TypeOK
<1>4. ASSUME NEW s \in Scans, Commit(s) \/ CommitUnacknowledged(s) PROVE TypeOK'
  <2>1. Committed(s)
    BY <1>4 DEF Commit, CommitUnacknowledged
  <2>2. faults' \in 0..MaxFaults
    BY <1>4, ImportAssumption DEF TypeOK, Commit, CommitUnacknowledged, Fault, ImportAssumption
  <2>. QED  BY <1>4, <2>1, <2>2, CommittedTyped DEF TypeOK, Commit, CommitUnacknowledged, Goto
<1>5. ASSUME NEW s \in Scans, Fail(s) PROVE TypeOK'
  BY <1>5 DEF TypeOK, Fail, Goto, ScanRows
<1>6. ASSUME NEW r \in Imports, ImportUpsert(r) \/ ImportSkip(r) PROVE TypeOK'
  <2>1. /\ table' \in [Fingerprints -> Rows \union {None}]
        /\ got' \in [Requests -> Seq(Results)]
    BY <1>6, ImportTyped
  <2>2. faults' \in 0..MaxFaults
    BY <1>6, ImportAssumption DEF TypeOK, ImportUpsert, ImportSkip, Fault, ImportAssumption
  <2>. QED  BY <1>6, <2>1, <2>2 DEF TypeOK, ImportUpsert, ImportSkip, Goto, Results, dbVars
<1>7. ASSUME NEW r \in Imports, ImportEvent(r) PROVE TypeOK'
  <2>1. events' \subseteq Ids \X {"created", "seen_again"}
    <3>1. PICK e : e = got[r][Len(got[r])]
      OBVIOUS
    <3>2. Exists(e.id) => e.id \in Ids
      BY DEF Exists, TypeOK, Rows
    <3>. QED  BY <1>7, <3>1, <3>2 DEF ImportEvent, TypeOK
  <2>. QED  BY <1>7, <2>1 DEF TypeOK, ImportEvent, Goto
<1>8. ASSUME NEW r \in Requests, Publish(r) PROVE TypeOK'
  BY <1>8, OutboxTyped DEF TypeOK, Publish, Goto, dbVars
<1>9. ASSUME NEW r \in Requests, Die(r) PROVE TypeOK'
  <2>1. faults' \in 0..MaxFaults
    BY <1>9, ImportAssumption DEF TypeOK, Die, Fault, ImportAssumption
  <2>2. draft' \in [Scans -> [Fingerprints -> Rows \union {None}]]
    BY <1>9 DEF TypeOK, Die
  <2>. QED  BY <1>9, <2>1, <2>2 DEF TypeOK, Die, ReleasedBy, Goto
<1>10. ASSUME NEW fp \in Fingerprints, DeleteFinding(fp) PROVE TypeOK'
  <2>1. deletes' \in 0..MaxDeletes
    BY <1>10, ImportAssumption DEF TypeOK, DeleteFinding, ImportAssumption
  <2>. QED  BY <1>10, <2>1 DEF TypeOK, DeleteFinding
<1>11. CASE UNCHANGED vars
  BY <1>11 DEF TypeOK, vars, dbVars
<1>. QED  BY <1>1, <1>2, <1>3, <1>4, <1>5, <1>6, <1>7, <1>8, <1>9, <1>10, <1>11
          DEF Next, ScanStep, ImportStep

-----------------------------------------------------------------------------
(* Steps that upsert nothing and commit nothing *)

(* A sighting is an entry of a request whose rows are visible.              *)
LEMMA SightingIs ==
    ASSUME NEW id, NEW x
    PROVE  /\ x \in SightingsOf(id) <=>
                \E r \in Requests : \E i \in DOMAIN got[r] :
                    x = <<r, i>> /\ Visible(r) /\ got[r][i].id = id
           /\ x \in SightingsOf(id)' <=>
                \E r \in Requests : \E i \in DOMAIN got'[r] :
                    x = <<r, i>> /\ Visible(r)' /\ got'[r][i].id = id
<1>1. x \in SightingsOf(id) <=>
          \E r \in Requests : \E i \in DOMAIN got[r] :
              x = <<r, i>> /\ Visible(r) /\ got[r][i].id = id
  BY DEF SightingsOf, Sightings, Visible
<1>2. x \in SightingsOf(id)' <=>
          \E r \in Requests : \E i \in DOMAIN got'[r] :
              x = <<r, i>> /\ Visible(r)' /\ got'[r][i].id = id
  BY DEF SightingsOf, Sightings, Visible
<1>. QED  BY <1>1, <1>2

(* The entries of a scan that are a given finding.                          *)
LEMMA OwnIs ==
    ASSUME NEW s, NEW id, NEW x
    PROVE  /\ x \in Own(s, id) <=> \E i \in DOMAIN got[s] : x = <<s, i>> /\ got[s][i].id = id
           /\ x \in Own(s, id)' <=> \E i \in DOMAIN got'[s] : x = <<s, i>> /\ got'[s][i].id = id
<1>1. x \in Own(s, id) <=> \E i \in DOMAIN got[s] : x = <<s, i>> /\ got[s][i].id = id
  BY DEF Own
<1>2. x \in Own(s, id)' <=> \E i \in DOMAIN got'[s] : x = <<s, i>> /\ got'[s][i].id = id
  BY DEF Own
<1>. QED  BY <1>1, <1>2

(* Nothing is upserted, and what was visible stays so.                       *)
LEMMA EntriesKept ==
    ASSUME got' = got, job' = job, \A q : Visible(q) => Visible(q)', EntriesOK
    PROVE  EntriesOK'
<1>1. SUFFICES ASSUME NEW r \in Requests, NEW i \in DOMAIN got[r]
               PROVE  EntryOK(r, i)'
  BY DEF EntriesOK
<1>2. EntryOK(r, i)
  BY DEF EntriesOK
<1>3. PICK e, fp, n : e = got[r][i] /\ fp = job[r].report[i] /\ n = Len(job[r].report)
  OBVIOUS
<1>4. MadeFor(e.id, fp)' <=> MadeFor(e.id, fp)
  BY DEF MadeFor
<1>5. /\ i <= n /\ (r \in Scans => e.id # None) /\ (e.new <=> e.id = <<r, i>>)
      /\ e.id # None => /\ MadeFor(e.id, fp)
                        /\ IF e.id[1] = r THEN e.id[2] <= i ELSE Visible(e.id[1])
  BY <1>2, <1>3 DEF EntryOK
<1>6. Visible(e.id[1]) => Visible(e.id[1])'
  OBVIOUS
<1>7. EntryOK(r, i)' <=>
        /\ i <= n /\ (r \in Scans => e.id # None) /\ (e.new <=> e.id = <<r, i>>)
        /\ e.id # None => /\ MadeFor(e.id, fp)'
                          /\ IF e.id[1] = r THEN e.id[2] <= i ELSE Visible(e.id[1])'
  BY <1>3 DEF EntryOK
<1>. QED  BY <1>4, <1>5, <1>6, <1>7

(* Nothing is upserted, and nothing becomes visible.                        *)
LEMMA SameEntries ==
    ASSUME got' = got, job' = job,
           \A s \in Scans : scans'[s] = None <=> scans[s] = None
    PROVE  /\ \A id : SightingsOf(id)' = SightingsOf(id)
           /\ \A s, id : Own(s, id)' = Own(s, id)
           /\ \A id, f : MadeFor(id, f)' <=> MadeFor(id, f)
           /\ \A q : Visible(q)' <=> Visible(q)
           /\ EntriesOK => EntriesOK'
<1>1. \A q : Visible(q)' <=> Visible(q)
  BY DEF Visible
<1>2. \A id : SightingsOf(id)' = SightingsOf(id)
  <2> SUFFICES ASSUME NEW id, NEW x
               PROVE  x \in SightingsOf(id)' <=> x \in SightingsOf(id)
    BY DEF SightingsOf
  <2>. QED  BY <1>1, SightingIs
<1>3. \A s, id : Own(s, id)' = Own(s, id)
  BY DEF Own
<1>4. \A id, f : MadeFor(id, f)' <=> MadeFor(id, f)
  BY SMTT(30) DEF MadeFor
<1>5. EntriesOK => EntriesOK'
  BY <1>1, EntriesKept
<1>. QED  BY <1>1, <1>2, <1>3, <1>4, <1>5

(* ... and the rows and the links stay.                                     *)
LEMMA QuietStep ==
    ASSUME IInv, got' = got, job' = job, table' = table, links' = links,
           \A s \in Scans : scans'[s] = None <=> scans[s] = None
    PROVE  /\ EntriesOK' /\ RowsOK' /\ SightingsFinite'
           /\ TimesSeenCounts' /\ ScanIsWhole'
<1>1. /\ \A id : SightingsOf(id)' = SightingsOf(id)
      /\ \A id, f : MadeFor(id, f)' <=> MadeFor(id, f)
      /\ \A q : Visible(q)' <=> Visible(q)
      /\ EntriesOK'
  BY SameEntries DEF IInv
<1>2. RowsOK'
  <2> SUFFICES ASSUME NEW fp \in Fingerprints, table[fp] # None
               PROVE  MadeFor(table[fp].id, fp)' /\ Visible(table[fp].id[1])'
    BY DEF RowsOK
  <2>1. PICK id : id = table[fp].id
    OBVIOUS
  <2>2. MadeFor(id, fp)' /\ Visible(id[1])'
    BY <1>1, <2>1 DEF IInv, RowsOK
  <2>. QED  BY <2>1, <2>2
<1>3. SightingsFinite'
  BY <1>1 DEF IInv, SightingsFinite
<1>4. TimesSeenCounts'
  <2> SUFFICES ASSUME NEW fp \in Fingerprints, table[fp] # None
               PROVE  table[fp].times = Cardinality(SightingsOf(table[fp].id))'
    BY DEF TimesSeenCounts
  <2>1. PICK id : id = table[fp].id
    OBVIOUS
  <2>2. table[fp].times = Cardinality(SightingsOf(id))'
    BY <1>1, <2>1 DEF IInv, TimesSeenCounts
  <2>. QED  BY <2>1, <2>2
<1>5. ScanIsWhole'
  <2>1. Stored' = Stored
    BY DEF Stored
  <2>2. ScanIsWhole
    BY DEF IInv
  <2>. QED  BY <2>1, <2>2 DEF ScanIsWhole, IInv, TypeOK
<1>. QED  BY <1>1, <1>2, <1>3, <1>4, <1>5

(* A scan goes on to its first entry, or has nothing written any more.      *)
LEMMA ScansOKStep ==
    ASSUME IInv, got' = got, job' = job,
           \A s \in Scans, fp \in Fingerprints : draft'[s][fp] # None => table'[fp] = table[fp],
           \A s \in Scans : pc'[s] \in {"idle", "upsert"} =>
              (scans'[s] = None <=> scans[s] = None),
           \A s \in Scans :
              \/ /\ pc'[s] = pc[s] \/ (pc[s] = "idle" /\ pc'[s] = "upsert")
                 /\ draft'[s] = draft[s]
                 /\ \A fp \in Fingerprints : lock'[fp] = s <=> lock[fp] = s
              \/ /\ pc'[s] \notin {"idle", "upsert"}
                 /\ \A fp \in Fingerprints : draft'[s][fp] = None /\ lock'[fp] # s
    PROVE  ScansOK'
<1> SUFFICES ASSUME NEW s \in Scans
             PROVE  ScanOK(s)' /\ \A fp \in Fingerprints : DraftOK(s, fp)'
  BY DEF ScansOK
<1>1. /\ \A q, id : Own(q, id)' = Own(q, id)
      /\ \A id, f : MadeFor(id, f)' <=> MadeFor(id, f)
  BY DEF Own, MadeFor
<1>2. ScanOK(s) /\ \A fp \in Fingerprints : DraftOK(s, fp)
  BY DEF IInv, ScansOK
<1>3. s \in Requests /\ DOMAIN <<>> = {}
  BY DEF Requests
<1>4. ScanOK(s)'
  BY <1>2, <1>3 DEF ScanOK
<1>5. ASSUME NEW fp \in Fingerprints PROVE DraftOK(s, fp)'
  <2>1. CASE draft'[s][fp] = None
    BY <1>2, <2>1 DEF DraftOK
  <2>2. CASE draft'[s][fp] # None
    <3>1. /\ draft'[s] = draft[s] /\ (lock'[fp] = s <=> lock[fp] = s)
          /\ draft[s][fp] # None /\ DraftOK(s, fp)
          /\ pc'[s] = "upsert" /\ table'[fp] = table[fp]
      BY <1>2, <2>2 DEF DraftOK
    <3>2. PICK id, tid : id = draft[s][fp].id /\ tid = table[fp].id
      OBVIOUS
    <3>3. /\ MadeFor(id, fp)'
          /\ IF table[fp] = None
             THEN id[1] = s /\ draft[s][fp].times = Cardinality(Own(s, id))'
             ELSE id = tid /\ draft[s][fp].times = table[fp].times + Cardinality(Own(s, tid))'
      BY <1>1, <3>1, <3>2 DEF DraftOK
    <3>4. /\ MadeFor(draft[s][fp].id, fp)'
          /\ IF table[fp] = None
             THEN id[1] = s /\ draft[s][fp].times = Cardinality(Own(s, draft[s][fp].id))'
             ELSE id = tid /\ draft[s][fp].times = table[fp].times + Cardinality(Own(s, table[fp].id))'
      BY <3>1, <3>2, <3>3
    <3>. QED  BY <3>1, <3>2, <3>4 DEF DraftOK
  <2>. QED  BY <2>1, <2>2
<1>. QED  BY <1>4, <1>5

(* A scan that has written nothing holds no lock.                           *)
LEMMA NothingWritten ==
    ASSUME IInv, NEW s \in Scans, pc[s] # "upsert", NEW fp \in Fingerprints
    PROVE  draft[s][fp] = None /\ lock[fp] # s
BY DEF IInv, ScansOK, DraftOK

(* The steps of handleCreateScan that upsert nothing and commit nothing.    *)
LEMMA QuietScanStep ==
    ASSUME IInv, TypeOK', NEW s \in Scans,
           \/ BeginScan(s) \/ ParseFails(s) \/ DeadlockDetected(s) \/ StatementFails(s) \/ Fail(s)
    PROVE  IInv'
<1>1. s \in Requests /\ \A q \in Scans : q \in Requests /\ q # None /\ None \notin ScanRows
  BY ImportAssumption DEF Requests, ImportAssumption
<1>2. got' = got /\ job' = job /\ table' = table /\ links' = links
  BY DEF BeginScan, ParseFails, DeadlockDetected, StatementFails, Fail, dbVars
<1>3. \A q \in Scans : scans'[q] = None <=> scans[q] = None
  <2>1. CASE Fail(s)
    <3>1. [status |-> "failed", imported |-> 0, updated |-> 0] # None
      BY <1>1 DEF ScanRows
    <3>. QED  BY <2>1, <3>1 DEF Fail, IInv, TypeOK
  <2>2. CASE ~Fail(s)
    <3>1. scans' = scans
      BY <2>2 DEF BeginScan, ParseFails, DeadlockDetected, StatementFails, dbVars
    <3>. QED  BY <3>1
  <2>. QED  BY <2>1, <2>2
<1>4. \A q \in Scans :
         \/ /\ pc'[q] = pc[q] \/ (pc[q] = "idle" /\ pc'[q] = "upsert")
            /\ draft'[q] = draft[q]
            /\ \A fp \in Fingerprints : lock'[fp] = q <=> lock[fp] = q
         \/ /\ pc'[q] \notin {"idle", "upsert"}
            /\ \A fp \in Fingerprints : draft'[q][fp] = None /\ lock'[fp] # q
  <2>0. IInv /\ TypeOK
    BY DEF IInv
  <2>1. CASE BeginScan(s)
    BY <1>1, <2>0, <2>1 DEF TypeOK, BeginScan, Goto, dbVars
  <2>2. CASE ParseFails(s) \/ Fail(s)
    <3>1. pc' = [pc EXCEPT ![s] = pc'[s]] /\ pc'[s] \in {"fail", "failed"}
      BY <1>1, <2>0, <2>2 DEF TypeOK, ParseFails, Fail, Goto
    <3>2. draft' = draft /\ lock' = lock /\ pc[s] # "upsert"
      BY <2>2 DEF ParseFails, Fail, dbVars
    <3>. QED  BY <1>1, <2>0, <3>1, <3>2, NothingWritten DEF TypeOK
  <2>3. CASE DeadlockDetected(s) \/ StatementFails(s)
    <3>1. Rollback(s)
      BY <2>3 DEF DeadlockDetected, StatementFails
    <3>. QED  BY <1>1, <2>0, <3>1 DEF TypeOK, Rollback, ReleasedBy, Goto
  <2>. QED  BY <2>1, <2>2, <2>3
<1>5. EntriesOK' /\ RowsOK' /\ SightingsFinite' /\ TimesSeenCounts' /\ ScanIsWhole'
  BY <1>2, <1>3, QuietStep
<1>6. ScansOK'
  BY <1>2, <1>3, <1>4, ScansOKStep
<1>. QED  BY <1>5, <1>6 DEF IInv

(* An event, the publication at the end, and a request that is broken off.  *)
LEMMA QuietRequestStep ==
    ASSUME IInv, TypeOK', NEW r \in Requests,
           \/ (r \in Imports /\ ImportEvent(r)) \/ Publish(r) \/ Die(r)
    PROVE  IInv'
<1>1. /\ \A q \in Scans : q \in Requests /\ q # None
      /\ \A q \in Imports : q \notin Scans /\ q # None
  BY ImportAssumption DEF Requests, ImportAssumption
<1>2. got' = got /\ job' = job /\ table' = table /\ links' = links /\ scans' = scans
  BY DEF ImportEvent, Publish, Die, dbVars
<1>3. \A q \in Scans :
         \/ /\ pc'[q] = pc[q] \/ (pc[q] = "idle" /\ pc'[q] = "upsert")
            /\ draft'[q] = draft[q]
            /\ \A fp \in Fingerprints : lock'[fp] = q <=> lock[fp] = q
         \/ /\ pc'[q] \notin {"idle", "upsert"}
            /\ \A fp \in Fingerprints : draft'[q][fp] = None /\ lock'[fp] # q
  <2>0. IInv /\ TypeOK
    BY DEF IInv
  <2>1. CASE r \in Imports /\ ImportEvent(r)
    BY <1>1, <2>0, <2>1 DEF TypeOK, ImportEvent, Goto
  <2>2. CASE Publish(r)
    <3>1. draft' = draft /\ lock' = lock /\ pc' = [pc EXCEPT ![r] = "done"]
      BY <2>2 DEF Publish, Goto, dbVars
    <3>2. r \in Scans => pc[r] # "upsert"
      BY <1>1, <2>2 DEF Publish
    <3>. QED  BY <1>1, <2>0, <3>1, <3>2, NothingWritten DEF TypeOK
  <2>3. CASE Die(r)
    <3>1. lock' = ReleasedBy(r) /\ pc' = [pc EXCEPT ![r] = "failed"]
      BY <2>3 DEF Die, Goto
    <3>2. draft' = [s \in Scans |-> IF s = r THEN [fp \in Fingerprints |-> None] ELSE draft[s]]
      BY <2>3 DEF Die
    <3>. QED  BY <1>1, <2>0, <3>1, <3>2 DEF TypeOK, ReleasedBy
  <2>. QED  BY <2>1, <2>2, <2>3
<1>4. EntriesOK' /\ RowsOK' /\ SightingsFinite' /\ TimesSeenCounts' /\ ScanIsWhole'
  BY <1>2, QuietStep
<1>5. ScansOK'
  BY <1>2, <1>3, ScansOKStep
<1>. QED  BY <1>4, <1>5 DEF IInv

-----------------------------------------------------------------------------
(* One more entry *)

(* No entry was made under the id of an entry that is still to come.        *)
LEMMA NewIdUnseen ==
    ASSUME TypeOK, EntriesOK, NEW r \in Requests, Todo(r), NEW id, id = NewId(r)
    PROVE  /\ \A q \in Requests : \A i \in DOMAIN got[q] : got[q][i].id # id
           /\ SightingsOf(id) = {}
           /\ Own(r, id) = {}
<1>1. ASSUME NEW q \in Requests, NEW i \in DOMAIN got[q], got[q][i].id = id PROVE FALSE
  <2>1. PICK f : f = job[q].report[i]
    OBVIOUS
  <2>2. id # None
    BY NextEntry, Maker
  <2>3. MadeFor(id, f)
    BY <1>1, <2>1, <2>2 DEF EntriesOK, EntryOK
  <2>. QED  BY <2>3, NewIdIsNew
<1>2. \A x : x \notin SightingsOf(id) /\ x \notin Own(r, id)
  BY <1>1, SightingIs, OwnIs
<1>. QED  BY <1>1, <1>2

(* The sightings, with one more entry.                                      *)
LEMMA SightingsAppended ==
    ASSUME TypeOK, NEW r \in Requests, Todo(r), NEW e \in Results,
           got' = [got EXCEPT ![r] = Append(got[r], e)], scans' = scans
    PROVE  \A id :
             /\ NewId(r) \notin SightingsOf(id) /\ NewId(r) \notin Own(r, id)
             /\ SightingsOf(id)' = IF Visible(r) /\ e.id = id
                                   THEN SightingsOf(id) \union {NewId(r)} ELSE SightingsOf(id)
             /\ Own(r, id)' = IF e.id = id THEN Own(r, id) \union {NewId(r)} ELSE Own(r, id)
             /\ \A q \in Requests \ {r} : Own(q, id)' = Own(q, id)
<1> TAKE id
<1>1. /\ \A p \in Requests \ {r} : got'[p] = got[p]
      /\ DOMAIN got[r] = 1..Len(got[r])
      /\ DOMAIN got'[r] = DOMAIN got[r] \union {Len(got[r]) + 1}
      /\ \A k \in DOMAIN got[r] : k # Len(got[r]) + 1 /\ got'[r][k] = got[r][k]
      /\ got'[r][Len(got[r]) + 1] = e
  BY Appended
<1>2. PICK n : n = Len(got[r]) + 1
  OBVIOUS
<1>3. NewId(r) = <<r, n>>
  BY <1>2 DEF NewId
<1>4. \A q : Visible(q)' <=> Visible(q)
  BY DEF Visible
<1>5. NewId(r) \notin SightingsOf(id) /\ NewId(r) \notin Own(r, id)
  <2>1. NewId(r) \notin SightingsOf(id)
    <3>1. SUFFICES ASSUME NEW q \in Requests, NEW i \in DOMAIN got[q], <<r, n>> = <<q, i>>
                   PROVE  FALSE
      BY <1>3, SightingIs
    <3>. QED  BY <1>1, <1>2, <3>1
  <2>2. NewId(r) \notin Own(r, id)
    <3>1. SUFFICES ASSUME NEW i \in DOMAIN got[r], <<r, n>> = <<r, i>>
                   PROVE  FALSE
      BY <1>3, OwnIs
    <3>. QED  BY <1>1, <1>2, <3>1
  <2>. QED  BY <2>1, <2>2
<1>6. ASSUME NEW x
      PROVE  x \in SightingsOf(id)' <=> x \in SightingsOf(id) \/ (Visible(r) /\ e.id = id /\ x = <<r, n>>)
  <2>1. x \in SightingsOf(id)' <=>
          \E q \in Requests : \E i \in DOMAIN got'[q] :
              x = <<q, i>> /\ Visible(q) /\ got'[q][i].id = id
    BY <1>4, SightingIs
  <2>2. x \in SightingsOf(id) <=>
          \E q \in Requests : \E i \in DOMAIN got[q] :
              x = <<q, i>> /\ Visible(q) /\ got[q][i].id = id
    BY SightingIs
  <2>. QED  BY <1>1, <1>2, <2>1, <2>2
<1>7. ASSUME NEW q \in Requests, NEW x
      PROVE  x \in Own(q, id)' <=> x \in Own(q, id) \/ (q = r /\ e.id = id /\ x = <<r, n>>)
  BY <1>1, <1>2, OwnIs
<1>8. SightingsOf(id)' = IF Visible(r) /\ e.id = id
                         THEN SightingsOf(id) \union {<<r, n>>} ELSE SightingsOf(id)
  BY <1>6
<1>9. /\ Own(r, id)' = IF e.id = id THEN Own(r, id) \union {<<r, n>>} ELSE Own(r, id)
      /\ \A q \in Requests \ {r} : Own(q, id)' = Own(q, id)
  BY <1>7
<1>. QED  BY <1>3, <1>5, <1>8, <1>9

(* ... are finite.                                                          *)
LEMMA FiniteAppended ==
    ASSUME TypeOK, SightingsFinite, NEW r \in Requests, Todo(r), NEW e \in Results,
           got' = [got EXCEPT ![r] = Append(got[r], e)], scans' = scans
    PROVE  SightingsFinite'
<1> SUFFICES ASSUME NEW id \in Ids PROVE IsFiniteSet(SightingsOf(id)')
  BY DEF SightingsFinite
<1>1. IsFiniteSet(SightingsOf(id))
  BY DEF SightingsFinite
<1>2. SightingsOf(id)' \in {SightingsOf(id), SightingsOf(id) \union {NewId(r)}}
  BY SightingsAppended
<1>3. IsFiniteSet(SightingsOf(id) \union {NewId(r)})
  BY <1>1, FS_AddElement
<1>. QED  BY <1>1, <1>2, <1>3

(* The entries of a scan are finitely many.                                 *)
LEMMA OwnFinite ==
    ASSUME TypeOK, NEW s \in Scans, NEW id
    PROVE  IsFiniteSet(Own(s, id)) /\ Cardinality(Own(s, id)) \in Nat
<1>1. got[s] \in Seq(Results)
  BY DEF TypeOK, Results, Requests
<1>2. IsFiniteSet(DOMAIN got[s])
  BY <1>1, FS_Interval
<1>3. IsFiniteSet({s} \X DOMAIN got[s])
  BY <1>2, FS_Singleton, FS_Product
<1>. QED  BY <1>3, FS_Subset, FS_CardinalityType DEF Own

(* The links of a finding with this id that scan s has made.                *)
LinkOf(s, id) == {l \in links : l.scan = s /\ l.id = id}
ItsLink(s, id) == [id |-> id, scan |-> s, new |-> id[1] = s]

(* ScanIsWhole, one finding at a time.                                      *)
LEMMA WholeIs ==
    /\ ScanIsWhole <=>
          /\ \A s \in Scans, id \in Stored :
                scans[s] # None /\ (\E i \in DOMAIN got[s] : got[s][i].id = id)
                    => LinkOf(s, id) = {ItsLink(s, id)}
          /\ \A l \in links : scans[l.scan] # None /\ l.id \in Stored
    /\ ScanIsWhole' <=>
          /\ \A s \in Scans, id \in Stored' :
                scans'[s] # None /\ (\E i \in DOMAIN got'[s] : got'[s][i].id = id)
                    => LinkOf(s, id)' = {ItsLink(s, id)}
          /\ \A l \in links' : scans'[l.scan] # None /\ l.id \in Stored'
<1>1. ScanIsWhole <=>
          /\ \A s \in Scans, id \in Stored :
                scans[s] # None /\ (\E i \in DOMAIN got[s] : got[s][i].id = id)
                    => LinkOf(s, id) = {ItsLink(s, id)}
          /\ \A l \in links : scans[l.scan] # None /\ l.id \in Stored
  BY DEF ScanIsWhole, LinkOf, ItsLink
<1>2. ScanIsWhole' <=>
          /\ \A s \in Scans, id \in Stored' :
                scans'[s] # None /\ (\E i \in DOMAIN got'[s] : got'[s][i].id = id)
                    => LinkOf(s, id)' = {ItsLink(s, id)}
          /\ \A l \in links' : scans'[l.scan] # None /\ l.id \in Stored'
  BY DEF ScanIsWhole, LinkOf, ItsLink
<1>. QED  BY <1>1, <1>2

(* No scan has seen a finding that is stored now and was not before.        *)
LEMMA WholeStays ==
    ASSUME ScanIsWhole, links' = links, scans' = scans,
           \A s \in Scans : scans[s] # None => got'[s] = got[s],
           Stored \subseteq Stored',
           \A s \in Scans : scans[s] # None =>
              \A i \in DOMAIN got[s] : got[s][i].id \in Stored' => got[s][i].id \in Stored
    PROVE  ScanIsWhole'
<1>1. \A s, id : LinkOf(s, id)' = LinkOf(s, id)
  BY DEF LinkOf
<1>2. ASSUME NEW s \in Scans, NEW id \in Stored', scans'[s] # None,
             NEW i \in DOMAIN got'[s], got'[s][i].id = id
      PROVE  LinkOf(s, id)' = {ItsLink(s, id)}
  <2>1. scans[s] # None /\ i \in DOMAIN got[s] /\ got[s][i].id = id
    BY <1>2
  <2>2. id \in Stored
    BY <1>2, <2>1
  <2>3. LinkOf(s, id) = {ItsLink(s, id)}
    BY <2>1, <2>2, WholeIs, Zenon
  <2>. QED  BY <1>1, <2>3
<1>3. \A l \in links' : scans'[l.scan] # None /\ l.id \in Stored'
  BY WholeIs
<1>. QED  BY <1>2, <1>3, WholeIs, Zenon

(* The scans while an import has one more entry: their entries, drafts and  *)
(* locks stay, and so do the rows they have locked.                         *)
LEMMA ScansAside ==
    ASSUME IInv, NEW r \in Imports, NEW e \in Results, Todo(r),
           got' = [got EXCEPT ![r] = Append(got[r], e)], EntriesOK',
           \A id \in Ids : \A f : MadeFor(id, f) => MadeFor(id, f)',
           UNCHANGED <<draft, lock, scans, job>>,
           \A s \in Scans : pc'[s] = pc[s],
           \A fp \in Fingerprints : lock[fp] # None => table'[fp] = table[fp]
    PROVE  ScansOK'
<1> SUFFICES ASSUME NEW s \in Scans
             PROVE  ScanOK(s)' /\ \A fp \in Fingerprints : DraftOK(s, fp)'
  BY DEF ScansOK
<1>1. /\ s \in Requests /\ r \in Requests /\ s # r /\ s # None
  BY ImportAssumption DEF Requests, ImportAssumption
<1>2. got'[s] = got[s] /\ pc'[s] = pc[s] /\ TypeOK
  BY <1>1 DEF IInv, TypeOK
<1>3. ScanOK(s) /\ \A fp \in Fingerprints : DraftOK(s, fp)
  BY DEF IInv, ScansOK
<1>4. ScanOK(s)'
  BY <1>2, <1>3 DEF ScanOK
<1>5. ASSUME NEW fp \in Fingerprints PROVE DraftOK(s, fp)'
  <2>1. CASE draft[s][fp] = None
    BY <1>2, <1>3, <2>1 DEF DraftOK
  <2>2. CASE draft[s][fp] # None
    <3>1. lock[fp] = s /\ table'[fp] = table[fp] /\ DraftOK(s, fp)
      BY <1>1, <1>3, <2>2 DEF DraftOK
    <3>2. PICK id, tid : id = draft[s][fp].id /\ tid = table[fp].id
      OBVIOUS
    <3>3. id \in Ids
      BY <1>2, <2>2, <3>2 DEF TypeOK, Rows
    <3>4. \A x : Own(s, x)' = Own(s, x)
      BY <1>2 DEF Own
    <3>5. /\ pc'[s] = "upsert" /\ MadeFor(id, fp)'
          /\ IF table[fp] = None
             THEN id[1] = s /\ draft[s][fp].times = Cardinality(Own(s, id))'
             ELSE id = tid /\ draft[s][fp].times = table[fp].times + Cardinality(Own(s, tid))'
      BY <1>2, <2>2, <3>1, <3>2, <3>3, <3>4 DEF DraftOK
    <3>6. /\ pc'[s] = "upsert" /\ MadeFor(draft[s][fp].id, fp)'
          /\ IF table'[fp] = None
             THEN draft'[s][fp].id[1] = s
                  /\ draft'[s][fp].times = Cardinality(Own(s, draft[s][fp].id))'
             ELSE draft'[s][fp].id = table'[fp].id
                  /\ draft'[s][fp].times = table'[fp].times + Cardinality(Own(s, table[fp].id))'
      BY <3>1, <3>2, <3>5
    <3>. QED  BY <2>2, <3>1, <3>6 DEF DraftOK
  <2>. QED  BY <2>1, <2>2
<1>. QED  BY <1>4, <1>5

(* A refused entry is no sighting of anything.                              *)
LEMMA ImportSkipStep ==
    ASSUME IInv, TypeOK', NEW r \in Imports, ImportSkip(r)
    PROVE  IInv'
<1>1. /\ TypeOK /\ EntriesOK /\ r \in Requests /\ r \notin Scans /\ Todo(r)
      /\ None \notin Ids
  BY ImportAssumption DEF IInv, ImportSkip, Requests, ImportAssumption
<1>2. PICK e : e = [id |-> None, new |-> FALSE]
  OBVIOUS
<1>3. /\ e \in Results /\ e.id = None /\ ~e.new
      /\ got' = [got EXCEPT ![r] = Append(got[r], e)]
      /\ UNCHANGED <<table, draft, lock, links, scans, job, pc>>
  BY <1>2 DEF ImportSkip, Results, dbVars
<1>4. NewId(r) \in Ids
  BY <1>1, NextEntry
<1>5. /\ EntriesOK'
      /\ \A id \in Ids : \A f : MadeFor(id, f) => MadeFor(id, f)'
  BY <1>1, <1>3, <1>4, EntriesAppended
<1>6. \A id \in Ids : SightingsOf(id)' = SightingsOf(id)
  <2> SUFFICES ASSUME NEW id \in Ids PROVE SightingsOf(id)' = SightingsOf(id)
    OBVIOUS
  <2>1. e.id # id
    BY <1>1, <1>3
  <2>2. /\ TypeOK /\ r \in Requests /\ Todo(r) /\ e \in Results /\ scans' = scans
        /\ got' = [got EXCEPT ![r] = Append(got[r], e)]
    BY <1>1, <1>3
  <2>3. \A x : SightingsOf(x)' = IF Visible(r) /\ e.id = x
                           THEN SightingsOf(x) \union {NewId(r)} ELSE SightingsOf(x)
    BY <2>2, SightingsAppended, Zenon
  <2>. QED  BY <2>1, <2>3
<1>7. ASSUME NEW fp \in Fingerprints, table[fp] # None
      PROVE  /\ MadeFor(table[fp].id, fp)' /\ Visible(table[fp].id[1])'
             /\ table[fp].times = Cardinality(SightingsOf(table[fp].id))'
  <2>1. PICK id : id = table[fp].id
    OBVIOUS
  <2>2. id \in Ids
    BY <1>1, <1>7, <2>1 DEF TypeOK, Rows
  <2>3. MadeFor(id, fp) /\ Visible(id[1]) /\ table[fp].times = Cardinality(SightingsOf(id))
    BY <1>7, <2>1 DEF IInv, RowsOK, TimesSeenCounts
  <2>4. MadeFor(id, fp)' /\ Visible(id[1])' /\ table[fp].times = Cardinality(SightingsOf(id))'
    BY <1>3, <1>5, <1>6, <2>2, <2>3 DEF Visible
  <2>. QED  BY <1>3, <2>1, <2>4
<1>8. RowsOK' /\ TimesSeenCounts'
  BY <1>3, <1>7 DEF RowsOK, TimesSeenCounts
<1>9. SightingsFinite'
  BY <1>1, <1>3, FiniteAppended DEF IInv
<1>10. ScanIsWhole'
  <2>1. \A s \in Scans : got'[s] = got[s]
    BY <1>1, <1>3 DEF TypeOK, Requests
  <2>2. Stored' = Stored
    BY <1>3 DEF Stored
  <2>3. ScanIsWhole
    BY DEF IInv
  <2>. QED  BY <1>3, <2>1, <2>2, <2>3, WholeStays
<1>11. ScansOK'
  BY <1>1, <1>3, <1>5, ScansAside
<1>. QED  BY <1>5, <1>8, <1>9, <1>10, <1>11 DEF IInv

-----------------------------------------------------------------------------
(* The upserts *)

(* An upsert over the row it may find: the entry is of that row, or new.    *)
LEMMA UpsertOverFound ==
    ASSUME TypeOK, EntriesOK, NEW r \in Requests, Todo(r),
           NEW row \in Rows \union {None}, Finds(r, row)
    PROVE  /\ Upserted(r, row) \in Rows
           /\ Returned(r, row) \in Results
           /\ Returned(r, row).id = Upserted(r, row).id
           /\ Upserted(r, row).id \in Ids
           /\ IF row = None THEN Upserted(r, row).id = NewId(r) /\ Upserted(r, row).times = 1
              ELSE /\ Upserted(r, row).id = row.id /\ Upserted(r, row).id # NewId(r)
                   /\ Upserted(r, row).times = row.times + 1
<1>1. /\ Upserted(r, row) \in Rows
      /\ Returned(r, row) \in Results
      /\ Returned(r, row).id = Upserted(r, row).id
      /\ IF row = None THEN Upserted(r, row).id = NewId(r) /\ Upserted(r, row).times = 1
         ELSE Upserted(r, row).id = row.id /\ Upserted(r, row).times = row.times + 1
  BY UpsertedIs
<1>2. Upserted(r, row).id \in Ids
  BY <1>1 DEF Rows
<1>3. row # None => row.id # NewId(r)
  BY NewIdIsNew DEF Finds
<1>. QED  BY <1>1, <1>2, <1>3

(* ... and it is made for its fingerprint.                                  *)
LEMMA EntriesUpserted ==
    ASSUME TypeOK, EntriesOK, NEW r \in Requests, Todo(r),
           NEW row \in Rows \union {None}, Finds(r, row),
           got' = [got EXCEPT ![r] = Append(got[r], Returned(r, row))],
           job' = job, scans' = scans
    PROVE  /\ EntriesOK'
           /\ \A id \in Ids : \A f : MadeFor(id, f) => MadeFor(id, f)'
           /\ \A id, f : id = Upserted(r, row).id /\ f = Entry(r) => MadeFor(id, f)'
<1>1. PICK u, e : u = Upserted(r, row) /\ e = Returned(r, row)
  OBVIOUS
<1>2. /\ u \in Rows /\ e \in Results /\ e.id = u.id /\ u.id \in Ids
      /\ IF row = None THEN u.id = NewId(r) ELSE u.id = row.id /\ u.id # NewId(r)
  BY <1>1, UpsertOverFound
<1>3. e.new <=> row = None
  BY <1>1, UpsertedIs
<1>4. /\ e.id # None
      /\ e.new <=> e.id = NewId(r)
      /\ e.id \notin {None, NewId(r)} =>
            MadeFor(e.id, Entry(r)) /\ (e.id[1] # r => Visible(e.id[1]))
  BY <1>2, <1>3, Maker DEF Finds
<1>5. /\ EntriesOK'
      /\ \A id \in Ids : \A f : MadeFor(id, f) => MadeFor(id, f)'
      /\ \A f : f = Entry(r) /\ e.id # None => MadeFor(e.id, f)'
  BY <1>1, <1>2, <1>4, EntriesAppended
<1>. QED  BY <1>1, <1>2, <1>4, <1>5

(* The statement of an import is a transaction of its own: the row counts   *)
(* the entry at once.                                                       *)
LEMMA ImportUpsertStep ==
    ASSUME IInv, TypeOK', NEW r \in Imports, ImportUpsert(r)
    PROVE  IInv'
<1>1. TypeOK /\ EntriesOK /\ RowsOK /\ r \in Requests /\ r \notin Scans /\ Todo(r) /\ Visible(r)
  BY ImportAssumption DEF IInv, ImportUpsert, Requests, ImportAssumption, Visible
<1>2. PICK fp, row : fp = Entry(r) /\ row = table[fp]
  OBVIOUS
<1>3. fp \in Fingerprints /\ lock[fp] = None
  BY <1>1, <1>2, NextEntry DEF ImportUpsert
<1>4. row \in Rows \union {None}
  BY <1>1, <1>2, <1>3 DEF TypeOK
<1>5. Finds(r, row)
  BY <1>1, <1>2, <1>3, <1>4 DEF Finds, RowsOK
<1>6. PICK u, e : u = Upserted(r, row) /\ e = Returned(r, row)
  OBVIOUS
<1>7. /\ table' = [table EXCEPT ![fp] = u]
      /\ got' = [got EXCEPT ![r] = Append(got[r], e)]
      /\ UNCHANGED <<draft, lock, links, scans, job>>
      /\ \A s \in Scans : pc'[s] = pc[s]
  <2>1. /\ table' = [table EXCEPT ![fp] = u]
        /\ got' = [got EXCEPT ![r] = Append(got[r], e)]
        /\ UNCHANGED <<draft, lock, links, scans, job>>
        /\ pc' = [pc EXCEPT ![r] = "event"]
    BY <1>1, <1>2, <1>3, <1>6 DEF ImportUpsert, TypeOK, Goto
  <2>. QED  BY <1>1, <2>1 DEF TypeOK, Requests
<1>8. /\ u \in Rows /\ e \in Results /\ e.id = u.id /\ u.id \in Ids
      /\ IF row = None THEN u.id = NewId(r) /\ u.times = 1
         ELSE u.id = row.id /\ u.times = row.times + 1 /\ u.id # NewId(r)
      /\ EntriesOK'
      /\ \A id \in Ids : \A f : MadeFor(id, f) => MadeFor(id, f)'
      /\ MadeFor(u.id, fp)'
  <2>1. /\ u \in Rows /\ e \in Results /\ e.id = u.id /\ u.id \in Ids
        /\ IF row = None THEN u.id = NewId(r) /\ u.times = 1
           ELSE u.id = row.id /\ u.times = row.times + 1 /\ u.id # NewId(r)
    BY <1>1, <1>4, <1>5, <1>6, UpsertOverFound
  <2>2. /\ job' = job /\ scans' = scans
        /\ got' = [got EXCEPT ![r] = Append(got[r], Returned(r, row))]
    BY <1>6, <1>7
  <2>3. /\ EntriesOK'
        /\ \A id \in Ids : \A f : MadeFor(id, f) => MadeFor(id, f)'
        /\ \A id, f : id = Upserted(r, row).id /\ f = Entry(r) => MadeFor(id, f)'
    BY <1>1, <1>4, <1>5, <2>2, EntriesUpserted
  <2>. QED  BY <1>2, <1>6, <2>1, <2>3
<1>9. PICK id : id = u.id
  OBVIOUS
<1>10. /\ table'[fp] = u /\ u # None
       /\ \A g \in Fingerprints \ {fp} : table'[g] = table[g]
  <2>1. u # None
    BY <1>8, ImportAssumption DEF ImportAssumption
  <2>. QED  BY <1>1, <1>3, <1>7, <2>1 DEF TypeOK
<1>11. \A x : SightingsOf(x)' = IF x = id THEN SightingsOf(x) \union {NewId(r)} ELSE SightingsOf(x)
  <2>1. /\ e \in Results /\ scans' = scans
        /\ got' = [got EXCEPT ![r] = Append(got[r], e)]
    BY <1>7, <1>8
  <2>2. \A x : SightingsOf(x)' = IF Visible(r) /\ e.id = x
                                 THEN SightingsOf(x) \union {NewId(r)} ELSE SightingsOf(x)
    BY <1>1, <2>1, SightingsAppended, Zenon
  <2>. QED  BY <1>1, <1>8, <1>9, <2>2
<1>12. NewId(r) \notin SightingsOf(id) /\ IsFiniteSet(SightingsOf(id))
  <2>1. /\ e \in Results /\ scans' = scans
        /\ got' = [got EXCEPT ![r] = Append(got[r], e)]
    BY <1>7, <1>8
  <2>2. NewId(r) \notin SightingsOf(id)
    BY <1>1, <2>1, SightingsAppended, Zenon
  <2>. QED  BY <1>8, <1>9, <2>2 DEF IInv, SightingsFinite
<1>13. row = None => SightingsOf(id) = {}
  BY <1>1, <1>8, <1>9, NewIdUnseen
<1>14. u.times = Cardinality(SightingsOf(id)')
  <2>1. Cardinality(SightingsOf(id)') = Cardinality(SightingsOf(id)) + 1
    BY <1>11, <1>12, FS_AddElement
  <2>2. CASE row = None
    BY <1>8, <1>13, <2>1, <2>2, FS_EmptySet
  <2>3. CASE row # None
    <3>1. row.times = Cardinality(SightingsOf(id))
      BY <1>2, <1>3, <1>8, <1>9, <2>3 DEF IInv, TimesSeenCounts
    <3>. QED  BY <1>8, <2>1, <2>3, <3>1
  <2>. QED  BY <2>2, <2>3
<1>15. ASSUME NEW g \in Fingerprints, table'[g] # None
       PROVE  /\ MadeFor(table[g].id, g)' /\ Visible(table[g].id[1])'
              /\ table'[g].times = Cardinality(SightingsOf(table[g].id))'
  <2>1. CASE g = fp
    <3>1. Visible(id[1])'
      <4>1. CASE row = None
        BY <1>1, <1>7, <1>8, <1>9, <4>1, NextEntry DEF Visible
      <4>2. CASE row # None
        BY <1>2, <1>3, <1>7, <1>8, <1>9, <4>2 DEF IInv, RowsOK, Visible
      <4>. QED  BY <4>1, <4>2
    <3>2. MadeFor(id, g)' /\ Visible(id[1])' /\ u.times = Cardinality(SightingsOf(id))'
      BY <1>8, <1>9, <1>14, <2>1, <3>1
    <3>. QED  BY <1>9, <1>10, <2>1, <3>2
  <2>2. CASE g # fp
    <3>1. PICK x : x = table[g].id
      OBVIOUS
    <3>2. table'[g] = table[g] /\ table[g] # None
      BY <1>10, <1>15, <2>2
    <3>3. x \in Ids /\ MadeFor(x, g) /\ Visible(x[1]) /\ table[g].times = Cardinality(SightingsOf(x))
      BY <1>1, <3>1, <3>2 DEF IInv, RowsOK, TimesSeenCounts, TypeOK, Rows
    <3>4. x # id
      <4>1. CASE row = None
        BY <1>1, <1>8, <1>9, <3>3, <4>1, NewIdIsNew
      <4>2. CASE row # None
        BY <1>2, <1>3, <1>8, <1>9, <2>2, <3>3, <4>2, MadeForOne DEF IInv, RowsOK
      <4>. QED  BY <4>1, <4>2
    <3>5. MadeFor(x, g)' /\ Visible(x[1])' /\ table[g].times = Cardinality(SightingsOf(x))'
      BY <1>7, <1>8, <1>11, <3>3, <3>4 DEF Visible
    <3>. QED  BY <3>1, <3>2, <3>5
  <2>. QED  BY <2>1, <2>2
<1>16. RowsOK' /\ TimesSeenCounts'
  BY <1>15 DEF RowsOK, TimesSeenCounts
<1>17. SightingsFinite'
  BY <1>1, <1>7, <1>8, FiniteAppended DEF IInv
<1>18. ScanIsWhole'
  <2>1. \A s \in Scans : got'[s] = got[s]
    BY <1>1, <1>7 DEF TypeOK, Requests
  <2>2. Stored \subseteq Stored' /\ Stored' \subseteq Stored \union {id}
    BY <1>2, <1>3, <1>8, <1>9, <1>10 DEF Stored
  <2>3. id \notin Stored => row = None
    BY <1>2, <1>3, <1>8, <1>9 DEF Stored
  <2>4. row = None => \A s \in Scans : \A i \in DOMAIN got[s] : got[s][i].id # id
    BY <1>1, <1>8, <1>9, NewIdUnseen DEF Requests
  <2>5. ScanIsWhole
    BY DEF IInv
  <2>. QED  BY <1>7, <2>1, <2>2, <2>3, <2>4, <2>5, WholeStays
<1>19. ScansOK'
  <2>1. \A g \in Fingerprints : lock[g] # None => table'[g] = table[g]
    BY <1>3, <1>10
  <2>. QED  BY <1>1, <1>7, <1>8, <2>1, ScansAside
<1>. QED  BY <1>8, <1>16, <1>17, <1>18, <1>19 DEF IInv

(* What a scan has seen and not written, it has not seen.                   *)
LEMMA OwnWritten ==
    ASSUME IInv, NEW s \in Scans, pc[s] = "upsert", NEW fp \in Fingerprints,
           draft[s][fp] = None, NEW id, id # None, MadeFor(id, fp)
    PROVE  Own(s, id) = {}
<1>1. ASSUME NEW i \in DOMAIN got[s], got[s][i].id = id PROVE FALSE
  <2>1. PICK g : g = job[s].report[i]
    OBVIOUS
  <2>2. EntryOK(s, i) /\ ScanOK(s)
    BY DEF IInv, EntriesOK, ScansOK, Requests
  <2>3. MadeFor(id, g) /\ draft[s][g] # None
    BY <1>1, <2>1, <2>2 DEF EntryOK, ScanOK
  <2>4. g = fp
    BY <2>3, MadeForOne
  <2>. QED  BY <2>3, <2>4
<1>2. \A x : x \notin Own(s, id)
  BY <1>1, OwnIs
<1>. QED  BY <1>2

(* The row of a scan's draft, or the committed one.                         *)
DraftRow(s, fp) == IF draft[s][fp] # None THEN draft[s][fp] ELSE table[fp]

(* The row that the upsert of a scan finds is its own or visible.           *)
LEMMA ScanFinds ==
    ASSUME IInv, NEW s \in Scans, Todo(s), NEW row, row = DraftRow(s, Entry(s))
    PROVE  row \in Rows \union {None} /\ Finds(s, row)
<1>1. TypeOK /\ s \in Requests
  BY DEF IInv, Requests
<1>2. PICK fp : fp = Entry(s)
  OBVIOUS
<1>3. fp \in Fingerprints
  BY <1>1, <1>2, NextEntry
<1>4. row \in Rows \union {None}
  BY <1>1, <1>2, <1>3 DEF DraftRow, TypeOK
<1>5. DraftOK(s, fp) /\ (table[fp] # None => MadeFor(table[fp].id, fp) /\ Visible(table[fp].id[1]))
  BY <1>3 DEF IInv, ScansOK, RowsOK
<1>6. row # None => MadeFor(row.id, fp) /\ (row.id[1] # s => Visible(row.id[1]))
  BY <1>2, <1>5 DEF DraftOK, DraftRow
<1>. QED  BY <1>2, <1>4, <1>6 DEF Finds

(* What the upsert of a scan changes.                                       *)
LEMMA ScanUpserts ==
    ASSUME IInv, NEW s \in Scans, Upsert(s), NEW fp, fp = Entry(s),
           NEW row, row = DraftRow(s, fp),
           NEW u, u = Upserted(s, row), NEW e, e = Returned(s, row)
    PROVE  /\ fp \in Fingerprints /\ lock[fp] \in {None, s}
           /\ got' = [got EXCEPT ![s] = Append(got[s], e)]
           /\ lock'[fp] = s /\ draft'[s][fp] = u
           /\ \A g \in Fingerprints \ {fp} : lock'[g] = lock[g] /\ draft'[s][g] = draft[s][g]
           /\ \A q \in Scans \ {s} : draft'[q] = draft[q]
           /\ UNCHANGED <<table, links, scans, pc, job>>
<1>1. TypeOK /\ s \in Requests /\ Todo(s)
  BY DEF IInv, Requests, Upsert
<1>2. fp \in Fingerprints
  BY <1>1, NextEntry
<1>3. /\ lock[fp] \in {None, s}
      /\ lock' = [lock EXCEPT ![fp] = s]
      /\ draft' = [draft EXCEPT ![s][fp] = u]
      /\ got' = [got EXCEPT ![s] = Append(got[s], e)]
      /\ UNCHANGED <<table, links, scans, pc, job>>
  BY DEF Upsert, DraftRow
<1>. QED  BY <1>1, <1>2, <1>3 DEF TypeOK

(* The entry of a scan is written to its draft, and counted when it commits. *)
LEMMA UpsertStep ==
    ASSUME IInv, TypeOK', NEW s \in Scans, Upsert(s)
    PROVE  IInv'
<1>1. /\ TypeOK /\ EntriesOK /\ s \in Requests /\ Todo(s) /\ pc[s] = "upsert"
      /\ scans[s] = None /\ ~Visible(s)
  BY DEF IInv, Upsert, Requests, ScansOK, ScanOK, Visible
<1>2. PICK fp : fp = Entry(s)
  OBVIOUS
<1>3. PICK row : row = DraftRow(s, fp)
  OBVIOUS
<1>4. PICK u, e : u = Upserted(s, row) /\ e = Returned(s, row)
  OBVIOUS
<1>5. /\ fp \in Fingerprints /\ lock[fp] \in {None, s}
      /\ got' = [got EXCEPT ![s] = Append(got[s], e)]
      /\ lock'[fp] = s /\ draft'[s][fp] = u
      /\ \A g \in Fingerprints \ {fp} : lock'[g] = lock[g] /\ draft'[s][g] = draft[s][g]
      /\ \A q \in Scans \ {s} : draft'[q] = draft[q]
      /\ UNCHANGED <<table, links, scans, pc, job>>
  BY <1>2, <1>3, <1>4, ScanUpserts
<1>6. row \in Rows \union {None} /\ Finds(s, row)
  BY <1>1, <1>2, <1>3, ScanFinds
<1>7. /\ u \in Rows /\ e \in Results /\ e.id = u.id /\ u.id \in Ids
      /\ IF row = None THEN u.id = NewId(s) /\ u.times = 1
         ELSE u.id = row.id /\ u.times = row.times + 1 /\ u.id # NewId(s)
  BY <1>1, <1>4, <1>6, UpsertOverFound
<1>8. /\ EntriesOK'
      /\ \A id \in Ids : \A f : MadeFor(id, f) => MadeFor(id, f)'
      /\ MadeFor(u.id, fp)'
  <2>1. /\ job' = job /\ scans' = scans
        /\ got' = [got EXCEPT ![s] = Append(got[s], Returned(s, row))]
    BY <1>4, <1>5
  <2>2. /\ EntriesOK'
        /\ \A id \in Ids : \A f : MadeFor(id, f) => MadeFor(id, f)'
        /\ \A id, f : id = Upserted(s, row).id /\ f = Entry(s) => MadeFor(id, f)'
    BY <1>1, <1>6, <2>1, EntriesUpserted
  <2>. QED  BY <1>2, <1>4, <2>2
<1>9. PICK id : id = u.id
  OBVIOUS
<1>10. u # None /\ id # None /\ id \in Ids
  BY <1>7, <1>9, Maker, ImportAssumption DEF ImportAssumption
<1>11. \A x : SightingsOf(x)' = SightingsOf(x)
  <2>1. /\ e \in Results /\ scans' = scans
        /\ got' = [got EXCEPT ![s] = Append(got[s], e)]
    BY <1>5, <1>7
  <2>2. \A x : SightingsOf(x)' = IF Visible(s) /\ e.id = x
                                 THEN SightingsOf(x) \union {NewId(s)} ELSE SightingsOf(x)
    BY <1>1, <2>1, SightingsAppended, ZenonT(60)
  <2>. QED  BY <1>1, <2>2
<1>12. \A x : Own(s, x)' = IF x = id THEN Own(s, x) \union {NewId(s)} ELSE Own(s, x)
  <2>1. /\ e \in Results /\ scans' = scans
        /\ got' = [got EXCEPT ![s] = Append(got[s], e)]
    BY <1>5, <1>7
  <2>2. \A x : Own(s, x)' = IF e.id = x THEN Own(s, x) \union {NewId(s)} ELSE Own(s, x)
    BY <1>1, <2>1, SightingsAppended, ZenonT(60)
  <2>. QED  BY <1>7, <1>9, <2>2
<1>13. /\ \A q \in Requests \ {s} : got'[q] = got[q]
       /\ DOMAIN got'[s] = DOMAIN got[s] \union {Len(got[s]) + 1}
       /\ \A i \in DOMAIN got[s] : got'[s][i] = got[s][i]
       /\ got'[s][Len(got[s]) + 1] = e
  <2>1. got' = [got EXCEPT ![s] = Append(got[s], e)]
    BY <1>5
  <2>2. e \in Results
    BY <1>7
  <2>. QED  BY <1>1, <2>1, <2>2, Appended
<1>14. RowsOK'
  <2> SUFFICES ASSUME NEW g \in Fingerprints, table'[g] # None
               PROVE  MadeFor(table[g].id, g)' /\ Visible(table[g].id[1])'
    BY DEF RowsOK
  <2>1. PICK x : x = table[g].id
    OBVIOUS
  <2>2. x \in Ids /\ MadeFor(x, g) /\ Visible(x[1])
    BY <1>1, <1>5, <2>1 DEF IInv, RowsOK, TypeOK, Rows
  <2>3. MadeFor(x, g)' /\ Visible(x[1])'
    BY <1>5, <1>8, <2>2 DEF Visible
  <2>. QED  BY <1>5, <2>1, <2>3
<1>15. SightingsFinite'
  BY <1>11 DEF IInv, SightingsFinite
<1>16. TimesSeenCounts'
  <2> SUFFICES ASSUME NEW g \in Fingerprints, table'[g] # None
               PROVE  table'[g].times = Cardinality(SightingsOf(table[g].id))'
    BY DEF TimesSeenCounts
  <2>1. PICK x : x = table[g].id
    OBVIOUS
  <2>2. table[g].times = Cardinality(SightingsOf(x))
    BY <1>5, <2>1 DEF IInv, TimesSeenCounts
  <2>3. table[g].times = Cardinality(SightingsOf(x))'
    BY <1>11, <2>2
  <2>. QED  BY <1>5, <2>1, <2>3
<1>17. ScanIsWhole'
  <2>1. Stored' = Stored
    BY <1>5 DEF Stored
  <2>2. \A q \in Scans : scans[q] # None => got'[q] = got[q]
    BY <1>1, <1>13 DEF Requests
  <2>3. ScanIsWhole
    BY DEF IInv
  <2>. QED  BY <1>5, <2>1, <2>2, <2>3, WholeStays
<1>18. ASSUME NEW q \in Scans \ {s}
       PROVE  ScanOK(q)' /\ \A g \in Fingerprints : DraftOK(q, g)'
  <2>1. q \in Requests /\ got'[q] = got[q] /\ draft'[q] = draft[q] /\ q # None
    BY <1>5, <1>13, ImportAssumption DEF Requests, ImportAssumption
  <2>2. ScanOK(q) /\ \A g \in Fingerprints : DraftOK(q, g)
    BY DEF IInv, ScansOK
  <2>3. ScanOK(q)'
    BY <1>5, <2>1, <2>2 DEF ScanOK
  <2>4. ASSUME NEW g \in Fingerprints PROVE DraftOK(q, g)'
    <3>1. lock'[g] = q <=> lock[g] = q
      BY <1>5, <2>1
    <3>2. PICK x, y : x = draft[q][g].id /\ y = table[g].id
      OBVIOUS
    <3>3. \A z : Own(q, z)' = Own(q, z)
      BY <2>1 DEF Own
    <3>4. draft[q][g] # None =>
             /\ pc[q] = "upsert" /\ MadeFor(x, g)'
             /\ IF table[g] = None
                THEN x[1] = q /\ draft[q][g].times = Cardinality(Own(q, x))'
                ELSE x = y /\ draft[q][g].times = table[g].times + Cardinality(Own(q, y))'
      <4> SUFFICES ASSUME draft[q][g] # None
                   PROVE  /\ pc[q] = "upsert" /\ MadeFor(x, g)'
                          /\ IF table[g] = None
                             THEN x[1] = q /\ draft[q][g].times = Cardinality(Own(q, x))'
                             ELSE x = y /\ draft[q][g].times = table[g].times + Cardinality(Own(q, y))'
        OBVIOUS
      <4>1. x \in Ids
        BY <1>1, <3>2 DEF TypeOK, Rows
      <4>. QED  BY <1>8, <2>2, <3>2, <3>3, <4>1 DEF DraftOK
    <3>5. draft[q][g] # None =>
             /\ MadeFor(draft[q][g].id, g)'
             /\ IF table[g] = None
                THEN draft[q][g].times = Cardinality(Own(q, draft[q][g].id))'
                ELSE draft[q][g].times = table[g].times + Cardinality(Own(q, table[g].id))'
      BY <1>5, <2>1, <3>2, <3>4
    <3>. QED  BY <1>5, <2>1, <2>2, <3>1, <3>2, <3>4, <3>5 DEF DraftOK
  <2>. QED  BY <2>3, <2>4
<1>19. ScanOK(s)'
  <2>1. ASSUME NEW i \in DOMAIN got'[s], NEW g, g = job[s].report[i]
        PROVE  draft'[s][g] # None /\ draft'[s][g].id = got'[s][i].id
    <3>1. CASE i \in DOMAIN got[s]
      <4>1. draft[s][g] # None /\ draft[s][g].id = got[s][i].id
        BY <1>1, <2>1, <3>1 DEF IInv, ScansOK, ScanOK
      <4>2. CASE g = fp
        BY <1>3, <1>5, <1>7, <1>10, <1>13, <3>1, <4>1, <4>2 DEF DraftRow
      <4>3. CASE g # fp
        <5>1. EntryOK(s, i)
          BY <1>1, <3>1 DEF EntriesOK
        <5>2. g \in Fingerprints
          <6>1. job[s].report \in Seq(Fingerprints) /\ got[s] \in Seq(Results)
            BY <1>1, ImportAssumption DEF TypeOK, ImportAssumption, Results
          <6>2. i \in 1..Len(job[s].report)
            BY <3>1, <5>1, <6>1 DEF EntryOK
          <6>. QED  BY <2>1, <6>1, <6>2
        <5>. QED  BY <1>5, <1>13, <3>1, <4>1, <4>3, <5>2
      <4>. QED  BY <4>2, <4>3
    <3>2. CASE i = Len(got[s]) + 1
      <4>1. g = fp
        BY <1>1, <1>2, <2>1, <3>2, NextEntry
      <4>. QED  BY <1>5, <1>7, <1>10, <1>13, <3>2, <4>1
    <3>. QED  BY <1>13, <3>1, <3>2
  <2>. QED  BY <1>1, <1>5, <2>1 DEF ScanOK
<1>20. ASSUME NEW g \in Fingerprints \ {fp}
       PROVE  DraftOK(s, g)'
  <2>1. DraftOK(s, g) /\ draft'[s][g] = draft[s][g] /\ lock'[g] = lock[g]
    BY <1>5 DEF IInv, ScansOK
  <2>2. CASE draft[s][g] = None
    BY <2>1, <2>2 DEF DraftOK
  <2>3. CASE draft[s][g] # None
    <3>1. PICK x, y : x = draft[s][g].id /\ y = table[g].id
      OBVIOUS
    <3>2. /\ MadeFor(x, g)
          /\ IF table[g] = None
             THEN x[1] = s /\ draft[s][g].times = Cardinality(Own(s, x))
             ELSE x = y /\ draft[s][g].times = table[g].times + Cardinality(Own(s, y))
      BY <2>1, <2>3, <3>1 DEF DraftOK
    <3>3. x \in Ids
      BY <1>1, <2>3, <3>1 DEF TypeOK, Rows
    <3>4. x # id
      <4>1. CASE row = None
        BY <1>1, <1>7, <1>9, <3>2, <4>1, NewIdIsNew
      <4>2. CASE row # None
        BY <1>2, <1>6, <1>7, <1>9, <3>2, <4>2, MadeForOne DEF Finds
      <4>. QED  BY <4>1, <4>2
    <3>5. /\ MadeFor(x, g)'
          /\ IF table[g] = None
             THEN x[1] = s /\ draft[s][g].times = Cardinality(Own(s, x))'
             ELSE x = y /\ draft[s][g].times = table[g].times + Cardinality(Own(s, y))'
      BY <1>8, <1>12, <3>2, <3>3, <3>4
    <3>6. /\ MadeFor(draft[s][g].id, g)'
          /\ IF table[g] = None
             THEN draft[s][g].times = Cardinality(Own(s, draft[s][g].id))'
             ELSE draft[s][g].times = table[g].times + Cardinality(Own(s, table[g].id))'
      BY <1>5, <2>1, <3>1, <3>5
    <3>. QED  BY <1>1, <1>5, <2>1, <2>3, <3>1, <3>5, <3>6 DEF DraftOK
  <2>. QED  BY <2>2, <2>3
<1>21. DraftOK(s, fp)'
  <2>1. DraftOK(s, fp)
    BY <1>5 DEF IInv, ScansOK
  <2>2. Cardinality(Own(s, id)') = Cardinality(Own(s, id)) + 1 /\ Cardinality(Own(s, id)) \in Nat
    <3>1. NewId(s) \notin Own(s, id)
      <4>1. /\ e \in Results /\ scans' = scans
            /\ got' = [got EXCEPT ![s] = Append(got[s], e)]
        BY <1>5, <1>7
      <4>. QED  BY <1>1, <4>1, SightingsAppended, Zenon
    <3>. QED  BY <1>1, <1>12, <3>1, OwnFinite, FS_AddElement
  <2>3. row = None => Own(s, id) = {}
    BY <1>1, <1>7, <1>9, NewIdUnseen
  <2>4. IF table[fp] = None
        THEN id[1] = s /\ u.times = Cardinality(Own(s, id)')
        ELSE id = table[fp].id /\ u.times = table[fp].times + Cardinality(Own(s, id)')
    <3>1. CASE row = None
      <4>1. table[fp] = None /\ id[1] = s
        BY <1>1, <1>3, <1>7, <1>9, <3>1, NextEntry DEF DraftRow
      <4>2. Cardinality(Own(s, id)) = 0
        BY <2>3, <3>1, FS_EmptySet
      <4>3. u.times = Cardinality(Own(s, id)')
        BY <1>7, <2>2, <3>1, <4>2
      <4>. QED  BY <4>1, <4>3
    <3>2. CASE draft[s][fp] # None
      <4>1. row = draft[s][fp] /\ id = row.id /\ u.times = row.times + 1
        BY <1>3, <1>7, <1>9, <3>2 DEF DraftRow
      <4>2. CASE table[fp] = None
        BY <2>1, <2>2, <3>2, <4>1, <4>2 DEF DraftOK
      <4>3. CASE table[fp] # None
        <5>1. table[fp].times \in Nat
          BY <1>1, <1>5, <4>3 DEF TypeOK, Rows
        <5>. QED  BY <2>1, <2>2, <3>2, <4>1, <4>3, <5>1 DEF DraftOK
      <4>. QED  BY <4>2, <4>3
    <3>3. CASE draft[s][fp] = None /\ row # None
      <4>1. row = table[fp] /\ id = row.id /\ u.times = row.times + 1 /\ row.times \in Nat
        BY <1>3, <1>6, <1>7, <1>9, <3>3 DEF DraftRow, Rows
      <4>2. MadeFor(id, fp)
        BY <1>2, <1>6, <3>3, <4>1 DEF Finds
      <4>3. Own(s, id) = {}
        BY <1>1, <1>5, <1>10, <3>3, <4>2, OwnWritten
      <4>. QED  BY <2>2, <3>3, <4>1, <4>3, FS_EmptySet
    <3>. QED  BY <3>1, <3>2, <3>3
  <2>5. /\ MadeFor(id, fp)' /\ pc'[s] = "upsert"
        /\ IF table'[fp] = None
           THEN id[1] = s /\ u.times = Cardinality(Own(s, id))'
           ELSE id = table'[fp].id /\ u.times = table'[fp].times + Cardinality(Own(s, id))'
    BY <1>1, <1>5, <1>8, <1>9, <2>4
  <2>6. /\ MadeFor(draft[s][fp].id, fp)' /\ pc'[s] = "upsert"
        /\ IF table'[fp] = None
           THEN id[1] = s /\ u.times = Cardinality(Own(s, draft[s][fp].id))'
           ELSE id = table'[fp].id /\ u.times = table'[fp].times + Cardinality(Own(s, table[fp].id))'
    BY <1>5, <1>9, <2>5
  <2>. QED  BY <1>5, <1>9, <1>10, <2>6 DEF DraftOK
<1>22. ScansOK'
  BY <1>18, <1>19, <1>20, <1>21 DEF ScansOK
<1>. QED  BY <1>8, <1>14, <1>15, <1>16, <1>17, <1>22 DEF IInv

-----------------------------------------------------------------------------
(* The commit *)

(* A scan has a first entry of each finding it has seen.                    *)
LEMMA FirstEntry ==
    ASSUME TypeOK, NEW s \in Scans, NEW id, NEW i \in DOMAIN got[s], got[s][i].id = id
    PROVE  \E m \in DOMAIN got[s] :
               /\ got[s][m].id = id
               /\ \A k \in DOMAIN got[s] : got[s][k].id = id => m <= k
<1> DEFINE T == {k \in DOMAIN got[s] : got[s][k].id = id}
           R == {p \in Nat \X Nat : p[1] < p[2]}
<1>1. got[s] \in Seq(Results)
  BY DEF TypeOK, Results, Requests
<1>2. T \subseteq Nat /\ i \in T
  BY <1>1
<1>3. OpToRel(<, Nat) = R
  BY Zenon DEF OpToRel
<1>4. IsWellFoundedOn(R, Nat)
  BY <1>3, NatLessThanWellFounded, Zenon
<1>5. \A k, m \in Nat : k < m => <<k, m>> \in R
  OBVIOUS
<1> HIDE DEF R
<1>6. PICK m \in T : \A k \in T : ~ (<<k, m>> \in R)
  BY <1>2, <1>4, WFMin
<1>7. ASSUME NEW k \in T PROVE m <= k
  <2>1. k \in Nat /\ m \in Nat /\ ~(k < m)
    BY <1>2, <1>5, <1>6
  <2>. QED  BY <2>1
<1>. QED  BY <1>6, <1>7

(* The link that LinkFinding keeps is that of the first entry: it says new  *)
(* exactly if the scan has created the finding.                             *)
LEMMA FirstLink ==
    ASSUME IInv, NEW s \in Scans, NEW id, NEW i \in DOMAIN got[s], got[s][i].id = id
    PROVE  {l \in LinksOf(s) : l.id = id} = {ItsLink(s, id)}
<1>1. PICK m \in DOMAIN got[s] :
         /\ got[s][m].id = id
         /\ \A k \in DOMAIN got[s] : got[s][k].id = id => m <= k
  BY FirstEntry DEF IInv
<1>2. got[s] \in Seq(Results) /\ s \in Requests
  BY DEF IInv, TypeOK, Results, Requests
<1>3. m \in Nat /\ got[s][m].id = id /\ EntryOK(s, m) /\ EntryOK(s, i)
  BY <1>1, <1>2 DEF IInv, EntriesOK
<1>4. id # None /\ id \in Ids /\ got[s][m] \in Results
  <2>1. got[s][m] \in Results
    BY <1>1, <1>2
  <2>2. id # None
    BY <1>3 DEF EntryOK
  <2>. QED  BY <1>3, <2>1, <2>2 DEF Results
<1>5. got[s][m].new = (id[1] = s)
  <2>1. got[s][m].new \in BOOLEAN
    BY <1>4 DEF Results
  <2>2. got[s][m].new <=> id = <<s, m>>
    BY <1>3 DEF EntryOK
  <2>3. id = <<s, m>> => id[1] = s
    OBVIOUS
  <2>4. id[1] = s => id = <<s, m>>
    <3> SUFFICES ASSUME id[1] = s PROVE id = <<s, m>>
      OBVIOUS
    <3>1. PICK f : f = job[s].report[m]
      OBVIOUS
    <3>2. MadeFor(id, f) /\ id[2] <= m
      BY <1>3, <1>4, <3>1 DEF EntryOK
    <3>3. id[2] \in DOMAIN got[s] /\ got[s][id[2]].id = id
      BY <3>2 DEF MadeFor
    <3>4. m <= id[2] /\ id[2] \in Nat /\ id = <<id[1], id[2]>>
      BY <1>1, <1>4, <3>3, Maker
    <3>. QED  BY <1>3, <3>2, <3>4
  <2>. QED  BY <2>1, <2>2, <2>3, <2>4
<1>6. \A k \in DOMAIN got[s] : k < m => got[s][k].id # got[s][m].id
  BY <1>1, <1>2, <1>3
<1>7. PICK b : b = got[s][m].new
  OBVIOUS
<1>8. ItsLink(s, id) = [id |-> id, scan |-> s, new |-> b]
  BY <1>5, <1>7 DEF ItsLink
<1>9. ItsLink(s, id) \in LinksOf(s) /\ ItsLink(s, id).id = id
  <2>1. [id |-> got[s][m].id, scan |-> s, new |-> got[s][m].new] \in LinksOf(s)
    BY <1>1, <1>6 DEF LinksOf
  <2>2. [id |-> id, scan |-> s, new |-> b] \in LinksOf(s)
    BY <1>3, <1>7, <2>1
  <2>. QED  BY <1>8, <2>2
<1>10. ASSUME NEW l \in LinksOf(s), l.id = id
       PROVE  l = ItsLink(s, id)
  <2>1. PICK j \in DOMAIN got[s] :
           /\ \A k \in DOMAIN got[s] : k < j => got[s][k].id # got[s][j].id
           /\ l = [id |-> got[s][j].id, scan |-> s, new |-> got[s][j].new]
    BY <1>10 DEF LinksOf
  <2>2. got[s][j].id = id
    BY <1>10, <2>1
  <2>3. j = m
    <3>1. j \in Nat /\ m <= j
      BY <1>1, <1>2, <2>2
    <3>. QED  BY <1>1, <1>3, <2>1, <2>2, <3>1
  <2>4. l = [id |-> id, scan |-> s, new |-> b]
    BY <1>7, <2>1, <2>2, <2>3
  <2>. QED  BY <1>8, <2>4
<1>. QED  BY <1>9, <1>10

(* What a commit changes.                                                   *)
LEMMA CommitChanges ==
    ASSUME IInv, NEW s \in Scans, Committed(s)
    PROVE  /\ \A g \in Fingerprints : table'[g] = DraftRow(s, g) /\ draft'[s][g] = None
           /\ \A q \in Scans \ {s} : draft'[q] = draft[q] /\ scans'[q] = scans[q]
           /\ \A g \in Fingerprints : lock'[g] # s
           /\ \A q \in Scans \ {s}, g \in Fingerprints : lock'[g] = q <=> lock[g] = q
           /\ links' = links \union LinksOf(s)
           /\ scans'[s] # None
<1>1. TypeOK /\ None \notin Scans /\ None \notin ScanRows
  BY ImportAssumption DEF IInv, Requests, ImportAssumption
<1>2. \A g \in Fingerprints : table'[g] = DraftRow(s, g)
  BY DEF Committed, DraftRow
<1>3. /\ \A g \in Fingerprints : draft'[s][g] = None
      /\ \A q \in Scans \ {s} : draft'[q] = draft[q]
  BY <1>1 DEF Committed, TypeOK
<1>4. /\ \A g \in Fingerprints : lock'[g] # s
      /\ \A q \in Scans \ {s}, g \in Fingerprints : lock'[g] = q <=> lock[g] = q
  BY <1>1 DEF Committed, ReleasedBy
<1>5. scans'[s] # None /\ \A q \in Scans \ {s} : scans'[q] = scans[q]
  <2>1. PICK m, n : m = CountNew(s, TRUE) /\ n = CountNew(s, FALSE)
    OBVIOUS
  <2>2. m \in Nat /\ n \in Nat
    BY <1>1, <2>1, CountNewIsNat
  <2>3. scans' = [scans EXCEPT ![s] = [status |-> "completed", imported |-> m, updated |-> n]]
    BY <2>1 DEF Committed
  <2>4. [status |-> "completed", imported |-> m, updated |-> n] \in ScanRows
    BY <2>2 DEF ScanRows
  <2>. QED  BY <1>1, <2>3, <2>4 DEF TypeOK
<1>. QED  BY <1>2, <1>3, <1>4, <1>5 DEF Committed

(* With the commit the scan's entries are sightings, which none was before. *)
LEMMA SightingsCommitted ==
    ASSUME IInv, NEW s \in Scans, scans[s] = None, scans'[s] # None, got' = got,
           \A q \in Scans \ {s} : scans'[q] = scans[q]
    PROVE  \A id : /\ SightingsOf(id)' = SightingsOf(id) \union Own(s, id)
                   /\ SightingsOf(id) \intersect Own(s, id) = {}
<1> TAKE id
<1>1. \A q : Visible(q)' <=> Visible(q) \/ q = s
  BY DEF Visible
<1>2. s \in Requests /\ ~Visible(s)
  BY DEF Requests, Visible
<1>3. ASSUME NEW x PROVE x \in SightingsOf(id)' <=> x \in SightingsOf(id) \/ x \in Own(s, id)
  BY <1>1, <1>2, SightingIs, OwnIs
<1>4. ASSUME NEW x, x \in SightingsOf(id), x \in Own(s, id) PROVE FALSE
  <2>1. PICK q \in Requests : \E i \in DOMAIN got[q] : x = <<q, i>> /\ Visible(q)
    BY <1>4, SightingIs
  <2>2. PICK j : x = <<s, j>>
    BY <1>4, OwnIs
  <2>. QED  BY <1>2, <2>1, <2>2
<1>. QED  BY <1>3, <1>4

(* A finding that a scan has made and not committed, nobody else has seen.  *)
LEMMA UnseenByOthers ==
    ASSUME IInv, NEW s \in Scans, scans[s] = None, NEW id, id # None, id[1] = s,
           NEW q \in Requests, Visible(q), NEW i \in DOMAIN got[q]
    PROVE  got[q][i].id # id
<1> SUFFICES ASSUME got[q][i].id = id PROVE FALSE
  OBVIOUS
<1>1. ~Visible(s)
  BY DEF Visible
<1>2. EntryOK(q, i)
  BY DEF IInv, EntriesOK
<1>. QED  BY <1>1, <1>2 DEF EntryOK

(* Commit and its lost acknowledgement.                                     *)
LEMMA CommitStep ==
    ASSUME IInv, TypeOK', NEW s \in Scans, Commit(s) \/ CommitUnacknowledged(s)
    PROVE  IInv'
<1>1. /\ TypeOK /\ EntriesOK /\ s \in Requests /\ pc[s] = "upsert" /\ Committed(s)
      /\ scans[s] = None /\ ~Visible(s) /\ got' = got /\ job' = job
      /\ pc'[s] \in {"publish", "fail"} /\ \A q \in Scans \ {s} : pc'[q] = pc[q]
  <2>1. /\ TypeOK /\ EntriesOK /\ s \in Requests /\ pc[s] = "upsert" /\ Committed(s)
        /\ got' = got /\ job' = job
        /\ pc' = [pc EXCEPT ![s] = "publish"] \/ pc' = [pc EXCEPT ![s] = "fail"]
    BY DEF IInv, Commit, CommitUnacknowledged, Requests, Goto
  <2>2. scans[s] = None
    BY <2>1 DEF IInv, ScansOK, ScanOK
  <2>. QED  BY <2>1, <2>2 DEF TypeOK, Requests, Visible
<1>2. /\ \A g \in Fingerprints : table'[g] = DraftRow(s, g) /\ draft'[s][g] = None
      /\ \A q \in Scans \ {s} : draft'[q] = draft[q] /\ scans'[q] = scans[q]
      /\ \A g \in Fingerprints : lock'[g] # s
      /\ \A q \in Scans \ {s}, g \in Fingerprints : lock'[g] = q <=> lock[g] = q
      /\ links' = links \union LinksOf(s)
      /\ scans'[s] # None
  BY <1>1, CommitChanges
<1>3. \A q : Visible(q)' <=> Visible(q) \/ q = s
  BY <1>1, <1>2 DEF Visible
<1>4. \A id, f : MadeFor(id, f)' <=> MadeFor(id, f)
  BY <1>1 DEF MadeFor
<1>5. EntriesOK'
  BY <1>1, <1>3, EntriesKept
<1>6. \A id : /\ SightingsOf(id)' = SightingsOf(id) \union Own(s, id)
              /\ SightingsOf(id) \intersect Own(s, id) = {}
  BY <1>1, <1>2, SightingsCommitted
<1>7. ASSUME NEW g \in Fingerprints
      PROVE  DraftOK(s, g) /\ (table[g] # None => MadeFor(table[g].id, g) /\ Visible(table[g].id[1]))
  BY DEF IInv, ScansOK, RowsOK
<1>8. SightingsFinite'
  <2> SUFFICES ASSUME NEW id \in Ids PROVE IsFiniteSet(SightingsOf(id)')
    BY DEF SightingsFinite
  <2>1. IsFiniteSet(SightingsOf(id)) /\ IsFiniteSet(Own(s, id))
    BY <1>1, OwnFinite DEF IInv, SightingsFinite
  <2>2. IsFiniteSet(SightingsOf(id) \union Own(s, id))
    BY <2>1, FS_Union
  <2>. QED  BY <1>6, <2>2
<1>9. ASSUME NEW id \in Ids
      PROVE  /\ Cardinality(SightingsOf(id)') = Cardinality(SightingsOf(id)) + Cardinality(Own(s, id))
             /\ Cardinality(SightingsOf(id)) \in Nat /\ Cardinality(Own(s, id)) \in Nat
  <2>1. IsFiniteSet(SightingsOf(id)) /\ IsFiniteSet(Own(s, id))
    BY <1>1, OwnFinite DEF IInv, SightingsFinite
  <2>2. /\ Cardinality(SightingsOf(id)) \in Nat /\ Cardinality(Own(s, id)) \in Nat
        /\ Cardinality({}) = 0
    BY <2>1, FS_CardinalityType, FS_EmptySet
  <2>3. Cardinality(SightingsOf(id) \union Own(s, id))
           = Cardinality(SightingsOf(id)) + Cardinality(Own(s, id))
             - Cardinality(SightingsOf(id) \intersect Own(s, id))
    BY <2>1, FS_Union
  <2>4. /\ SightingsOf(id)' = SightingsOf(id) \union Own(s, id)
        /\ SightingsOf(id) \intersect Own(s, id) = {}
    BY <1>6
  <2>5. Cardinality(SightingsOf(id)')
           = Cardinality(SightingsOf(id)) + Cardinality(Own(s, id)) - 0
    BY <2>2, <2>3, <2>4
  <2>. QED  BY <2>2, <2>5
<1>10. ASSUME NEW g \in Fingerprints, table'[g] # None
       PROVE  /\ MadeFor(table[g].id, g)' /\ Visible(table[g].id[1])'
              /\ table'[g].times = Cardinality(SightingsOf(table[g].id))'
  <2>1. PICK x : x = DraftRow(s, g).id
    OBVIOUS
  <2>2. x \in Ids /\ x # None /\ table'[g] = DraftRow(s, g) /\ DraftRow(s, g) # None
    <3>1. table'[g] = DraftRow(s, g) /\ DraftRow(s, g) # None
      BY <1>2, <1>10
    <3>2. x \in Ids
      BY <1>1, <2>1, <3>1 DEF DraftRow, TypeOK, Rows
    <3>. QED  BY <3>1, <3>2, Maker
  <2>3. MadeFor(x, g) /\ (Visible(x[1]) \/ x[1] = s)
    BY <1>7, <2>1, <2>2 DEF DraftOK, DraftRow
  <2>4. DraftRow(s, g).times = Cardinality(SightingsOf(x)) + Cardinality(Own(s, x))
    <3>1. CASE draft[s][g] # None /\ table[g] # None
      <4>1. table[g].times = Cardinality(SightingsOf(table[g].id))
        BY <3>1 DEF IInv, TimesSeenCounts
      <4>2. /\ x = table[g].id
            /\ DraftRow(s, g).times = table[g].times + Cardinality(Own(s, table[g].id))
        BY <1>7, <2>1, <3>1 DEF DraftOK, DraftRow
      <4>. QED  BY <4>1, <4>2
    <3>2. CASE draft[s][g] # None /\ table[g] = None
      <4>1. x[1] = s /\ DraftRow(s, g).times = Cardinality(Own(s, x))
        BY <1>7, <2>1, <3>2 DEF DraftOK, DraftRow
      <4>2. \A y : y \notin SightingsOf(x)
        BY <1>1, <2>2, <4>1, SightingIs, UnseenByOthers
      <4>3. Cardinality(SightingsOf(x)) = 0
        BY <4>2, FS_EmptySet
      <4>. QED  BY <1>9, <2>2, <4>1, <4>3
    <3>3. CASE draft[s][g] = None
      <4>1. table[g] # None /\ DraftRow(s, g) = table[g] /\ x = table[g].id
        BY <2>1, <2>2, <3>3 DEF DraftRow
      <4>2. table[g].times = Cardinality(SightingsOf(x))
        BY <4>1 DEF IInv, TimesSeenCounts
      <4>3. Own(s, x) = {}
        BY <1>1, <2>2, <2>3, <3>3, OwnWritten
      <4>4. Cardinality(Own(s, x)) = 0
        BY <4>3, FS_EmptySet
      <4>. QED  BY <1>9, <2>2, <4>1, <4>2, <4>4
    <3>. QED  BY <3>1, <3>2, <3>3
  <2>5. /\ MadeFor(x, g)' /\ Visible(x[1])'
        /\ table'[g].times = Cardinality(SightingsOf(x)')
    BY <1>3, <1>4, <1>9, <2>2, <2>3, <2>4
  <2>. QED  BY <2>1, <2>2, <2>5
<1>11. RowsOK' /\ TimesSeenCounts'
  BY <1>10 DEF RowsOK, TimesSeenCounts
<1>12. ScansOK'
  <2>1. \A q \in Scans, g \in Fingerprints : draft'[q][g] # None => table'[g] = table[g]
    <3> SUFFICES ASSUME NEW q \in Scans, NEW g \in Fingerprints, draft'[q][g] # None
                 PROVE  table'[g] = table[g]
      OBVIOUS
    <3>1. q # s /\ draft[q][g] # None
      BY <1>2
    <3>2. lock[g] = q
      BY <3>1 DEF IInv, ScansOK, DraftOK
    <3>3. draft[s][g] = None
      BY <1>7, <3>1, <3>2 DEF DraftOK
    <3>. QED  BY <1>2, <3>3 DEF DraftRow
  <2>2. \A q \in Scans : pc'[q] \in {"idle", "upsert"} => (scans'[q] = None <=> scans[q] = None)
    BY <1>1, <1>2
  <2>3. \A q \in Scans :
         \/ /\ pc'[q] = pc[q] \/ (pc[q] = "idle" /\ pc'[q] = "upsert")
            /\ draft'[q] = draft[q]
            /\ \A fp \in Fingerprints : lock'[fp] = q <=> lock[fp] = q
         \/ /\ pc'[q] \notin {"idle", "upsert"}
            /\ \A fp \in Fingerprints : draft'[q][fp] = None /\ lock'[fp] # q
    BY <1>1, <1>2
  <2>. QED  BY <1>1, <2>1, <2>2, <2>3, ScansOKStep
<1>13. Stored \subseteq Stored'
  <2> SUFFICES ASSUME NEW g \in Fingerprints, table[g] # None
               PROVE  table[g].id \in Stored'
    BY DEF Stored
  <2>1. table'[g] # None /\ table'[g].id = table[g].id
    BY <1>2, <1>7 DEF DraftOK, DraftRow
  <2>. QED  BY <2>1 DEF Stored
<1>14. \A id \in Stored' : id # None /\ (id \in Stored \/ id[1] = s)
  <2> SUFFICES ASSUME NEW g \in Fingerprints, table'[g] # None, NEW id, id = table'[g].id
               PROVE  id # None /\ (id \in Stored \/ id[1] = s)
    BY DEF Stored
  <2>1. table'[g] = DraftRow(s, g) /\ DraftRow(s, g) # None
    BY <1>2
  <2>2. id \in Ids
    BY <1>1, <2>1 DEF DraftRow, TypeOK, Rows
  <2>3. CASE table[g] # None
    BY <1>7, <2>1, <2>2, <2>3, Maker DEF DraftOK, DraftRow, Stored
  <2>4. CASE table[g] = None
    BY <1>7, <2>1, <2>2, <2>4, Maker DEF DraftOK, DraftRow
  <2>. QED  BY <2>3, <2>4
<1>15. ScanIsWhole'
  <2>0. ScanIsWhole
    BY DEF IInv
  <2>1. \A l \in links : scans[l.scan] # None /\ l.id \in Stored
    BY <2>0, WholeIs
  <2>2. \A l \in LinksOf(s) : l.scan = s
    BY DEF LinksOf
  <2>3. ASSUME NEW q \in Scans, NEW id \in Stored', scans'[q] # None,
               NEW i \in DOMAIN got'[q], got'[q][i].id = id
        PROVE  LinkOf(q, id)' = {ItsLink(q, id)}
    <3>1. i \in DOMAIN got[q] /\ got[q][i].id = id
      BY <1>1, <2>3
    <3>2. CASE q = s
      <4>1. LinkOf(s, id)' = {l \in LinksOf(s) : l.id = id}
        BY <1>1, <1>2, <2>1, <2>2 DEF LinkOf
      <4>2. {l \in LinksOf(s) : l.id = id} = {ItsLink(s, id)}
        BY <3>1, <3>2, FirstLink
      <4>. QED  BY <3>2, <4>1, <4>2
    <3>3. CASE q # s
      <4>1. scans[q] # None /\ Visible(q) /\ q \in Requests
        BY <1>2, <2>3, <3>3 DEF Visible, Requests
      <4>2. id \in Stored
        BY <1>1, <1>14, <3>1, <4>1, UnseenByOthers
      <4>3. LinkOf(q, id) = {ItsLink(q, id)}
        BY <2>0, <3>1, <4>1, <4>2, WholeIs, Zenon
      <4>4. LinkOf(q, id)' = LinkOf(q, id)
        BY <1>2, <2>2, <3>3 DEF LinkOf
      <4>. QED  BY <4>3, <4>4
    <3>. QED  BY <3>2, <3>3
  <2>4. ASSUME NEW l \in links'
        PROVE  scans'[l.scan] # None /\ l.id \in Stored'
    <3>1. CASE l \in links
      <4>1. l.scan \in Scans
        BY <1>1, <3>1 DEF TypeOK
      <4>. QED  BY <1>1, <1>2, <1>13, <2>1, <3>1, <4>1
    <3>2. CASE l \in LinksOf(s)
      <4>1. PICK i \in DOMAIN got[s] : l.id = got[s][i].id
        BY <3>2 DEF LinksOf
      <4>2. PICK g : g = job[s].report[i]
        OBVIOUS
      <4>3. draft[s][g] # None /\ draft[s][g].id = l.id
        BY <1>1, <4>1, <4>2 DEF IInv, ScansOK, ScanOK
      <4>4. g \in Fingerprints
        <5>1. job[s].report \in Seq(Fingerprints) /\ got[s] \in Seq(Results)
          BY <1>1, ImportAssumption DEF TypeOK, ImportAssumption, Results
        <5>2. i \in 1..Len(job[s].report)
          BY <1>1, <4>1, <5>1 DEF EntriesOK, EntryOK
        <5>. QED  BY <4>2, <5>1, <5>2
      <4>5. table'[g] # None /\ table'[g].id = l.id
        BY <1>2, <4>3, <4>4 DEF DraftRow
      <4>. QED  BY <1>2, <2>2, <3>2, <4>4, <4>5 DEF Stored
    <3>. QED  BY <1>2, <3>1, <3>2
  <2>. QED  BY <2>3, <2>4, WholeIs, Zenon
<1>. QED  BY <1>5, <1>8, <1>11, <1>12, <1>15 DEF IInv

-----------------------------------------------------------------------------
(* The deletion, and the theorems *)

(* A finding is deleted with its links while no scan has written it.        *)
LEMMA DeleteStep ==
    ASSUME IInv, TypeOK', NEW fp \in Fingerprints, DeleteFinding(fp)
    PROVE  IInv'
<1>1. PICK id : id = table[fp].id
  OBVIOUS
<1>2. /\ TypeOK /\ table[fp] # None /\ lock[fp] = None
      /\ table'[fp] = None /\ \A g \in Fingerprints \ {fp} : table'[g] = table[g]
      /\ links' = {l \in links : l.id # id}
      /\ UNCHANGED <<draft, lock, scans, pc, job, got>>
  BY <1>1 DEF IInv, TypeOK, DeleteFinding
<1>3. /\ \A x : SightingsOf(x)' = SightingsOf(x)
      /\ \A x, f : MadeFor(x, f)' <=> MadeFor(x, f)
      /\ \A q : Visible(q)' <=> Visible(q)
      /\ EntriesOK'
  BY <1>2, SameEntries DEF IInv
<1>4. ASSUME NEW g \in Fingerprints, table'[g] # None
      PROVE  /\ MadeFor(table[g].id, g)' /\ Visible(table[g].id[1])'
             /\ table'[g].times = Cardinality(SightingsOf(table[g].id))'
  <2>1. g # fp /\ table'[g] = table[g] /\ table[g] # None
    BY <1>2, <1>4
  <2>2. PICK x : x = table[g].id
    OBVIOUS
  <2>3. MadeFor(x, g) /\ Visible(x[1]) /\ table[g].times = Cardinality(SightingsOf(x))
    BY <2>1, <2>2 DEF IInv, RowsOK, TimesSeenCounts
  <2>4. MadeFor(x, g)' /\ Visible(x[1])' /\ table[g].times = Cardinality(SightingsOf(x)')
    BY <1>3, <2>3
  <2>. QED  BY <2>1, <2>2, <2>4
<1>5. RowsOK' /\ TimesSeenCounts'
  BY <1>4 DEF RowsOK, TimesSeenCounts
<1>6. SightingsFinite'
  BY <1>3 DEF IInv, SightingsFinite
<1>7. ScansOK'
  <2>1. \A s \in Scans, g \in Fingerprints : draft'[s][g] # None => table'[g] = table[g]
    <3> SUFFICES ASSUME NEW s \in Scans, draft[s][fp] # None PROVE FALSE
      BY <1>2
    <3>1. s # None
      BY ImportAssumption DEF ImportAssumption, Requests
    <3>. QED  BY <1>2, <3>1 DEF IInv, ScansOK, DraftOK
  <2>. QED  BY <1>2, <2>1, ScansOKStep
<1>8. Stored' = Stored \ {id}
  <2>1. ASSUME NEW g \in Fingerprints \ {fp}, table[g] # None PROVE table[g].id # id
    <3>1. MadeFor(table[g].id, g) /\ MadeFor(id, fp)
      BY <1>1, <1>2, <2>1 DEF IInv, RowsOK
    <3>. QED  BY <3>1, MadeForOne
  <2>. QED  BY <1>1, <1>2, <2>1 DEF Stored
<1>9. ScanIsWhole'
  <2>1. ScanIsWhole
    BY DEF IInv
  <2>2. ASSUME NEW q \in Scans, NEW x \in Stored', scans'[q] # None,
               NEW i \in DOMAIN got'[q], got'[q][i].id = x
        PROVE  LinkOf(q, x)' = {ItsLink(q, x)}
    <3>1. scans[q] # None /\ i \in DOMAIN got[q] /\ got[q][i].id = x /\ x \in Stored /\ x # id
      BY <1>2, <1>8, <2>2
    <3>2. LinkOf(q, x) = {ItsLink(q, x)}
      BY <2>1, <3>1, WholeIs, Zenon
    <3>3. LinkOf(q, x)' = LinkOf(q, x)
      BY <1>2, <3>1 DEF LinkOf
    <3>. QED  BY <3>2, <3>3
  <2>3. \A l \in links' : scans'[l.scan] # None /\ l.id \in Stored'
    BY <1>2, <1>8, <2>1, WholeIs
  <2>. QED  BY <2>2, <2>3, WholeIs, Zenon
<1>. QED  BY <1>3, <1>5, <1>6, <1>7, <1>9 DEF IInv

(* Before the first request nothing is stored, seen or linked.              *)
LEMMA InitOK == Init => IInv
<1> SUFFICES ASSUME Init PROVE IInv
  OBVIOUS
<1>1. TypeOK
  <2>1. <<>> \in Seq(Results)
    OBVIOUS
  <2>. QED  BY <2>1, ImportAssumption DEF Init, TypeOK, Results, ImportAssumption
<1>2. \A r \in Requests : got[r] = <<>> /\ DOMAIN got[r] = {}
  BY DEF Init
<1>3. \A s \in Scans : got[s] = <<>> /\ DOMAIN got[s] = {} /\ s # None
  BY <1>2, ImportAssumption DEF Requests, ImportAssumption
<1>4. EntriesOK
  BY <1>2 DEF EntriesOK
<1>5. RowsOK /\ TimesSeenCounts
  BY DEF Init, RowsOK, TimesSeenCounts
<1>6. SightingsFinite
  <2>1. \A id : SightingsOf(id) = {}
    BY <1>2, SightingIs
  <2>. QED  BY <2>1, FS_EmptySet DEF SightingsFinite
<1>7. ScansOK
  BY <1>3 DEF Init, ScansOK, ScanOK, DraftOK
<1>8. ScanIsWhole
  BY <1>3 DEF Init, ScanIsWhole
<1>. QED  BY <1>1, <1>4, <1>5, <1>6, <1>7, <1>8 DEF IInv

(* Every step keeps the invariant.                                          *)
LEMMA StepOK == IInv /\ [Next]_vars => IInv'
<1> SUFFICES ASSUME IInv, [Next]_vars PROVE IInv'
  OBVIOUS
<1>1. TypeOK'
  BY TypeStep DEF IInv
<1>2. ASSUME NEW s \in Scans,
             BeginScan(s) \/ ParseFails(s) \/ ScanStep(s) \/ StatementFails(s) \/ CommitUnacknowledged(s)
      PROVE  IInv'
  <2>1. CASE BeginScan(s) \/ ParseFails(s) \/ DeadlockDetected(s) \/ StatementFails(s) \/ Fail(s)
    BY <1>1, <2>1, QuietScanStep
  <2>2. CASE Upsert(s)
    BY <1>1, <2>2, UpsertStep
  <2>3. CASE Commit(s) \/ CommitUnacknowledged(s)
    BY <1>1, <2>3, CommitStep
  <2>. QED  BY <1>2, <2>1, <2>2, <2>3 DEF ScanStep
<1>3. ASSUME NEW r \in Imports, ImportStep(r) \/ ImportSkip(r) PROVE IInv'
  <2>1. CASE ImportUpsert(r)
    BY <1>1, <2>1, ImportUpsertStep
  <2>2. CASE ImportEvent(r)
    BY <1>1, <2>2, QuietRequestStep DEF Requests
  <2>3. CASE ImportSkip(r)
    BY <1>1, <2>3, ImportSkipStep
  <2>. QED  BY <1>3, <2>1, <2>2, <2>3 DEF ImportStep
<1>4. ASSUME NEW r \in Requests, Publish(r) \/ Die(r) PROVE IInv'
  BY <1>1, <1>4, QuietRequestStep
<1>5. ASSUME NEW fp \in Fingerprints, DeleteFinding(fp) PROVE IInv'
  BY <1>1, <1>5, DeleteStep
<1>6. CASE UNCHANGED vars
  <2>1. UNCHANGED <<table, draft, lock, links, scans, pc, job, got>>
    BY <1>6 DEF vars, dbVars
  <2>2. EntriesOK' /\ RowsOK' /\ SightingsFinite' /\ TimesSeenCounts' /\ ScanIsWhole'
    BY <2>1, QuietStep
  <2>3. ScansOK'
    BY <2>1, ScansOKStep
  <2>. QED  BY <1>1, <2>2, <2>3 DEF IInv
<1>. QED  BY <1>2, <1>3, <1>4, <1>5, <1>6 DEF Next

(* What the upserts, the commits and the deletions of handleCreateScan,     *)
(* handleImport and handleDeleteFinding keep true in every interleaving.    *)
THEOREM Invariance == Spec => []IInv
<1>. QED  BY InitOK, StepOK, PTL DEF Spec

(* The rows, drafts, locks and links of the imports have their types.       *)
THEOREM TypeCorrect == Spec => []TypeOK
<1>1. IInv => TypeOK
  BY DEF IInv
<1>. QED  BY <1>1, Invariance, PTL

(* times_seen counts each committed sighting once, for any number of        *)
(* requests that upsert the same fingerprints (CreateTx and Create).        *)
THEOREM SightingsAreCounted == Spec => []TimesSeenCounts
<1>1. IInv => TimesSeenCounts
  BY DEF IInv
<1>. QED  BY <1>1, Invariance, PTL

(* A completed scan is linked to what it has seen, once and as new exactly  *)
(* if it created it; there is no other link (LinkFinding, Complete).        *)
THEOREM ScansAreWhole == Spec => []ScanIsWhole
<1>1. IInv => ScanIsWhole
  BY DEF IInv
<1>. QED  BY <1>1, Invariance, PTL

(* A stored finding was called new to one entry: that of its id.            *)
LEMMA NewIsTheMaker ==
    ASSUME IInv, NEW fp \in Fingerprints, table[fp] # None, NEW id, id = table[fp].id
    PROVE  Cardinality({x \in SightingsOf(id) : got[x[1]][x[2]].new}) = 1
<1>1. id \in Ids /\ MadeFor(id, fp) /\ Visible(id[1])
  BY DEF IInv, TypeOK, Rows, RowsOK
<1>2. PICK q, i : q = id[1] /\ i = id[2]
  OBVIOUS
<1>3. /\ q \in Requests /\ id = <<q, i>> /\ id # None
      /\ i \in DOMAIN got[q] /\ got[q][i].id = id /\ Visible(q)
  BY <1>1, <1>2, Maker DEF MadeFor
<1>4. EntryOK(q, i)
  BY <1>3 DEF IInv, EntriesOK
<1>5. id \in SightingsOf(id) /\ got[id[1]][id[2]].new
  <2>1. id \in SightingsOf(id)
    BY <1>3, SightingIs
  <2>2. got[q][i].new
    BY <1>3, <1>4 DEF EntryOK
  <2>. QED  BY <1>2, <2>1, <2>2
<1>6. ASSUME NEW x \in SightingsOf(id), got[x[1]][x[2]].new PROVE x = id
  <2>1. PICK r \in Requests : \E k \in DOMAIN got[r] : x = <<r, k>> /\ got[r][k].id = id
    BY SightingIs
  <2>2. PICK j \in DOMAIN got[r] : x = <<r, j>> /\ got[r][j].id = id
    BY <2>1
  <2>3. EntryOK(r, j) /\ got[r][j].new
    BY <1>6, <2>2 DEF IInv, EntriesOK
  <2>. QED  BY <2>2, <2>3 DEF EntryOK
<1>7. {x \in SightingsOf(id) : got[x[1]][x[2]].new} = {id}
  BY <1>5, <1>6
<1>. QED  BY <1>7, FS_Singleton

(* Of all requests that have seen a finding exactly one calls it new, and   *)
(* once ((xmax = 0) of the upsert; imported and updated of the scans).      *)
THEOREM NewOnce == Spec => []NewExactlyOnce
<1>1. IInv => NewExactlyOnce
  BY NewIsTheMaker DEF NewExactlyOnce, Stored
<1>. QED  BY <1>1, Invariance, PTL

-----------------------------------------------------------------------------
(* Scans one after the other                                                  *)

(* The row that a scan has written keeps the project of the committed one.   *)
ProjectKept ==
    \A s \in Scans, fp \in Fingerprints : draft[s][fp] # None =>
        draft[s][fp].project = IF table[fp] = None THEN job[s].project ELSE table[fp].project

(* A row that a scan has written is not changed, in its draft or under it,   *)
(* by anything but its own upserts and its end.                              *)
LEMMA DraftMoves ==
    ASSUME IInv, [Next]_vars, NEW s \in Scans, NEW fp \in Fingerprints,
           draft'[s][fp] # None
    PROVE  \/ Upsert(s) /\ fp = Entry(s)
           \/ draft'[s][fp] = draft[s][fp] /\ table'[fp] = table[fp]
<1>1. TypeOK /\ s # None
  BY ImportAssumption DEF IInv, ImportAssumption, Requests
<1>2. draft[s][fp] # None => lock[fp] = s
  BY DEF IInv, ScansOK, DraftOK
<1>3. ASSUME NEW q \in Scans, Upsert(q)
      PROVE  \/ Upsert(s) /\ fp = Entry(s)
             \/ draft'[s][fp] = draft[s][fp] /\ table'[fp] = table[fp]
  <2>1. PICK g, row : g = Entry(q) /\ row = DraftRow(q, g)
    OBVIOUS
  <2>2. PICK u, e : u = Upserted(q, row) /\ e = Returned(q, row)
    OBVIOUS
  <2>3. /\ \A h \in Fingerprints \ {g} : draft'[q][h] = draft[q][h]
        /\ \A p \in Scans \ {q} : draft'[p] = draft[p]
        /\ UNCHANGED table
    BY <1>3, <2>1, <2>2, ScanUpserts
  <2>. QED  BY <1>3, <2>1, <2>3
<1>4. ASSUME NEW q \in Scans, Rollback(q), UNCHANGED table
      PROVE  draft'[s][fp] = draft[s][fp] /\ table'[fp] = table[fp]
  BY <1>1, <1>4 DEF Rollback, TypeOK
<1>5. ASSUME NEW q \in Scans, Committed(q)
      PROVE  draft'[s][fp] = draft[s][fp] /\ table'[fp] = table[fp]
  <2>1. q # s /\ draft'[s] = draft[s]
    BY <1>5, CommitChanges
  <2>2. draft[q][fp] = None
    BY <1>2, <2>1 DEF IInv, ScansOK, DraftOK
  <2>3. table'[fp] = table[fp]
    BY <1>5, <2>2 DEF Committed
  <2>. QED  BY <2>1, <2>3
<1>6. ASSUME NEW r \in Imports, ImportUpsert(r)
      PROVE  draft'[s][fp] = draft[s][fp] /\ table'[fp] = table[fp]
  <2>1. lock[Entry(r)] = None /\ UNCHANGED draft
        /\ table' = [table EXCEPT ![Entry(r)] = Upserted(r, table[Entry(r)])]
    BY <1>6 DEF ImportUpsert
  <2>2. fp # Entry(r)
    BY <1>1, <1>2, <2>1
  <2>. QED  BY <1>1, <2>1, <2>2 DEF TypeOK
<1>7. ASSUME NEW r \in Requests, Die(r)
      PROVE  draft'[s][fp] = draft[s][fp] /\ table'[fp] = table[fp]
  BY <1>1, <1>7 DEF Die
<1>8. ASSUME NEW g \in Fingerprints, DeleteFinding(g)
      PROVE  draft'[s][fp] = draft[s][fp] /\ table'[fp] = table[fp]
  BY <1>1, <1>2, <1>8 DEF DeleteFinding, TypeOK
<1>9. ASSUME UNCHANGED <<draft, table>>
      PROVE  draft'[s][fp] = draft[s][fp] /\ table'[fp] = table[fp]
  BY <1>9
<1>10. \/ UNCHANGED <<draft, table>>
       \/ \E q \in Scans : Upsert(q) \/ (Rollback(q) /\ UNCHANGED table) \/ Committed(q)
       \/ \E r \in Imports : ImportUpsert(r)
       \/ \E r \in Requests : Die(r)
       \/ \E g \in Fingerprints : DeleteFinding(g)
  <2>1. ASSUME NEW q \in Scans,
               BeginScan(q) \/ ParseFails(q) \/ ScanStep(q) \/ StatementFails(q) \/ CommitUnacknowledged(q)
        PROVE  \/ UNCHANGED <<draft, table>>
               \/ Upsert(q) \/ (Rollback(q) /\ UNCHANGED table) \/ Committed(q)
    BY <2>1 DEF BeginScan, ParseFails, ScanStep, StatementFails, CommitUnacknowledged,
                DeadlockDetected, Commit, Fail, dbVars
  <2>2. ASSUME NEW r \in Imports, ImportStep(r) \/ ImportSkip(r)
        PROVE  UNCHANGED <<draft, table>> \/ ImportUpsert(r)
    BY <2>2 DEF ImportStep, ImportSkip, ImportEvent, dbVars
  <2>3. ASSUME NEW r \in Requests, Publish(r)
        PROVE  UNCHANGED <<draft, table>>
    BY <2>3 DEF Publish, dbVars
  <2>4. CASE UNCHANGED vars
    BY <2>4 DEF vars, dbVars
  <2>. QED  BY <2>1, <2>2, <2>3, <2>4 DEF Next
<1>. QED  BY <1>3, <1>4, <1>5, <1>6, <1>7, <1>8, <1>9, <1>10

(* An upsert keeps the project of the row it finds.                          *)
LEMMA ProjectStep ==
    ASSUME IInv, ProjectKept, [Next]_vars
    PROVE  ProjectKept'
<1> SUFFICES ASSUME NEW s \in Scans, NEW fp \in Fingerprints, draft'[s][fp] # None
             PROVE  draft'[s][fp].project =
                        IF table'[fp] = None THEN job'[s].project ELSE table'[fp].project
  BY DEF ProjectKept
<1>1. job' = job
  BY DEF Next, vars, dbVars, BeginScan, ParseFails, ScanStep, StatementFails,
         CommitUnacknowledged, Upsert, DeadlockDetected, Commit, Fail, ImportStep, ImportSkip,
         ImportUpsert, ImportEvent, Publish, Die, DeleteFinding
<1>2. CASE Upsert(s) /\ fp = Entry(s)
  <2>1. PICK row, u, e : row = DraftRow(s, fp) /\ u = Upserted(s, row) /\ e = Returned(s, row)
    OBVIOUS
  <2>2. draft'[s][fp] = u /\ table' = table
    BY <1>2, <2>1, ScanUpserts
  <2>3. Todo(s) /\ TypeOK /\ s \in Requests
    BY <1>2 DEF Upsert, IInv, Requests
  <2>4. row \in Rows \union {None}
    BY <1>2, <2>1, <2>3, ScanFinds
  <2>5. CASE row = None
    <3>1. table[fp] = None
      BY <2>1, <2>5 DEF DraftRow
    <3>2. u.project = job[s].project
      BY <2>1, <2>5 DEF Upserted
    <3>. QED  BY <1>1, <2>2, <3>1, <3>2
  <2>6. CASE row # None
    <3>1. u = [row EXCEPT !.times = row.times + 1]
      BY <2>1, <2>4, <2>6 DEF Upserted
    <3>2. u.project = row.project
      BY <2>4, <2>6, <3>1 DEF Rows
    <3>3. row.project = IF table[fp] = None THEN job[s].project ELSE table[fp].project
      BY <2>1, <2>6 DEF DraftRow, ProjectKept
    <3>. QED  BY <1>1, <2>2, <3>2, <3>3
  <2>. QED  BY <2>5, <2>6
<1>3. CASE draft'[s][fp] = draft[s][fp] /\ table'[fp] = table[fp]
  BY <1>1, <1>3 DEF ProjectKept
<1>. QED  BY <1>2, <1>3, DraftMoves

(* A scan that has come to the end of its report.                            *)
AtEnd(s) == IInv /\ ProjectKept /\ pc[s] = "upsert" /\ ~Todo(s)

(* Its results are the entries of its report.                                *)
LEMMA ReportRead ==
    ASSUME NEW s \in Scans, AtEnd(s)
    PROVE  /\ TypeOK /\ s \in Requests /\ scans[s] = None
           /\ job[s].report \in Reports /\ job[s].project \in Projects
           /\ got[s] \in Seq(Results) /\ DOMAIN got[s] = DOMAIN job[s].report
           /\ \A i \in DOMAIN got[s] : i \in Nat /\ job[s].report[i] \in Fingerprints
<1>1. TypeOK /\ s \in Requests /\ scans[s] = None
  BY DEF AtEnd, IInv, Requests, ScansOK, ScanOK
<1>2. /\ job[s].report \in Reports /\ job[s].project \in Projects
      /\ job[s].report \in Seq(Fingerprints) /\ got[s] \in Seq(Results)
  BY <1>1, ImportAssumption DEF TypeOK, Results, ImportAssumption
<1>3. PICK m, n : m = Len(got[s]) /\ n = Len(job[s].report)
  OBVIOUS
<1>4. m \in Nat /\ n \in Nat /\ DOMAIN got[s] = 1..m /\ DOMAIN job[s].report = 1..n
  BY <1>2, <1>3
<1>5. m >= n
  BY <1>3, <1>4 DEF AtEnd, Todo
<1>6. m <= n
  <2>1. m > 0 => EntryOK(s, m)
    BY <1>1, <1>4 DEF AtEnd, IInv, EntriesOK
  <2>. QED  BY <1>3, <1>4, <2>1 DEF EntryOK
<1>. QED  BY <1>1, <1>2, <1>4, <1>5, <1>6

(* Each is the finding that the scan has written.                            *)
LEMMA EntryIs ==
    ASSUME NEW s \in Scans, AtEnd(s), NEW i \in DOMAIN got[s],
           NEW fp, fp = job[s].report[i]
    PROVE  /\ draft[s][fp] # None /\ draft[s][fp] \in Rows
           /\ got[s][i] \in Results
           /\ got[s][i].id = draft[s][fp].id /\ got[s][i].id \in Ids
           /\ MadeFor(got[s][i].id, fp) /\ EntryOK(s, i)
<1>1. /\ TypeOK /\ s \in Requests /\ fp \in Fingerprints
      /\ got[s] \in Seq(Results)
  BY ReportRead
<1>2. draft[s][fp] # None /\ draft[s][fp].id = got[s][i].id
  BY DEF AtEnd, IInv, ScansOK, ScanOK
<1>3. draft[s][fp] \in Rows
  BY <1>1, <1>2 DEF TypeOK
<1>4. EntryOK(s, i)
  BY <1>1 DEF AtEnd, IInv, EntriesOK
<1>5. got[s][i].id \in Ids /\ got[s][i].id # None
  BY <1>2, <1>3, Maker DEF Rows
<1>6. MadeFor(got[s][i].id, fp)
  BY <1>4, <1>5, SMTT(30) DEF EntryOK
<1>7. got[s][i] \in Results
  BY <1>1
<1>. QED  BY <1>2, <1>3, <1>4, <1>5, <1>6, <1>7

(* Entries have the same id exactly if they have the same fingerprint.       *)
LEMMA SameFinding ==
    ASSUME NEW s \in Scans, AtEnd(s), NEW i \in DOMAIN got[s], NEW j \in DOMAIN got[s]
    PROVE  got[s][i].id = got[s][j].id <=> job[s].report[i] = job[s].report[j]
<1>1. PICK f, g : f = job[s].report[i] /\ g = job[s].report[j]
  OBVIOUS
<1>2. /\ got[s][i].id = draft[s][f].id /\ MadeFor(got[s][i].id, f)
      /\ got[s][j].id = draft[s][g].id /\ MadeFor(got[s][j].id, g)
  BY <1>1, EntryIs
<1>. QED  BY <1>1, <1>2, MadeForOne

(* A finding was there before the scan exactly if the row it has written is  *)
(* not one it has made; if it is, the scan has made it at its first place.   *)
LEMMA MadeAtFirst ==
    ASSUME NEW s \in Scans, AtEnd(s), NEW fp \in Fingerprints, draft[s][fp] # None
    PROVE  /\ table[fp] = None => draft[s][fp].id[1] = s
           /\ table[fp] # None => draft[s][fp].id[1] # s
           /\ draft[s][fp].id[1] = s =>
                 /\ draft[s][fp].id[2] \in Serial!Places(job[s].report, fp)
                 /\ draft[s][fp].id[2] \in Serial!Firsts(job[s].report)
<1>1. PICK id : id = draft[s][fp].id
  OBVIOUS
<1>2. DraftOK(s, fp) /\ scans[s] = None /\ TypeOK
  BY ReportRead DEF AtEnd, IInv, ScansOK
<1>3. MadeFor(id, fp) /\ (table[fp] = None => id[1] = s) /\ (table[fp] # None => id = table[fp].id)
  BY <1>1, <1>2 DEF DraftOK
<1>4. table[fp] # None => id[1] # s
  <2>1. table[fp] # None => Visible(table[fp].id[1])
    BY DEF AtEnd, IInv, RowsOK
  <2>2. ~Visible(s)
    BY <1>2 DEF Visible
  <2>. QED  BY <1>3, <2>1, <2>2
<1>5. ASSUME id[1] = s
      PROVE  id[2] \in Serial!Places(job[s].report, fp) /\ id[2] \in Serial!Firsts(job[s].report)
  <2>1. PICK k : k = id[2]
    OBVIOUS
  <2>2. k \in DOMAIN got[s] /\ got[s][k].id = id /\ job[s].report[k] = fp
    BY <1>3, <1>5, <2>1 DEF MadeFor
  <2>3. k \in DOMAIN job[s].report /\ k \in Nat
    BY <2>2, ReportRead
  <2>4. ASSUME NEW j \in DOMAIN job[s].report, j < k, job[s].report[j] = fp PROVE FALSE
    <3>1. j \in DOMAIN got[s] /\ j \in Nat
      BY ReportRead
    <3>2. got[s][j].id = id /\ EntryOK(s, j) /\ got[s][j].id \in Ids
      BY <1>1, <2>4, <3>1, EntryIs
    <3>3. id # None
      BY <3>2, Maker
    <3>4. id[2] <= j
      BY <1>5, <3>2, <3>3 DEF EntryOK
    <3>. QED  BY <2>1, <2>3, <2>4, <3>1, <3>4
  <2>5. k \in Serial!Places(job[s].report, fp)
    BY <2>2, <2>3 DEF Serial!Places
  <2>6. k \in Serial!Firsts(job[s].report)
    BY <2>2, <2>3, <2>4 DEF Serial!Firsts
  <2>. QED  BY <2>1, <2>5, <2>6
<1>. QED  BY <1>1, <1>3, <1>4, <1>5

(* An entry is returned as new exactly if the report names it first, and     *)
(* nobody has before.                                                        *)
LEMMA NewIsNews ==
    ASSUME NEW s \in Scans, AtEnd(s), NEW i \in DOMAIN got[s]
    PROVE  got[s][i].new <=> i \in Serial!News(job[s].report)
<1>1. PICK fp, id : fp = job[s].report[i] /\ id = draft[s][fp].id
  OBVIOUS
<1>2. /\ fp \in Fingerprints /\ draft[s][fp] # None /\ got[s][i].id = id /\ id \in Ids
      /\ EntryOK(s, i) /\ i \in Nat /\ i \in DOMAIN job[s].report
  BY <1>1, EntryIs, ReportRead
<1>3. got[s][i].new <=> id = <<s, i>>
  BY <1>2 DEF EntryOK
<1>4. /\ table[fp] = None <=> id[1] = s
      /\ id[1] = s => /\ id[2] \in Serial!Places(job[s].report, fp)
                      /\ id[2] \in Serial!Firsts(job[s].report)
  BY <1>1, <1>2, MadeAtFirst
<1>5. ASSUME id = <<s, i>> PROVE i \in Serial!News(job[s].report)
  <2>1. id[1] = s /\ id[2] = i
    BY <1>5
  <2>. QED  BY <1>1, <1>4, <2>1 DEF Serial!News
<1>6. ASSUME i \in Serial!News(job[s].report) PROVE id = <<s, i>>
  <2>1. table[fp] = None /\ i \in Serial!Firsts(job[s].report)
    BY <1>1, <1>6 DEF Serial!News
  <2>2. PICK k : k = id[2]
    OBVIOUS
  <2>3. id = <<s, k>> /\ k \in Nat
    BY <1>2, <1>4, <2>1, <2>2, Maker
  <2>4. k \in DOMAIN job[s].report /\ job[s].report[k] = fp /\ k \in Serial!Firsts(job[s].report)
    BY <1>4, <2>1, <2>2 DEF Serial!Places
  <2>5. ~(k < i) /\ ~(i < k)
    BY <1>1, <1>2, <2>1, <2>4 DEF Serial!Firsts
  <2>. QED  BY <1>2, <2>3, <2>5
<1>. QED  BY <1>3, <1>5, <1>6

(* The entries of a finding are as many as its places in the report.         *)
LEMMA OwnArePlaces ==
    ASSUME NEW s \in Scans, AtEnd(s), NEW fp \in Fingerprints, draft[s][fp] # None,
           NEW id, id = draft[s][fp].id
    PROVE  /\ Cardinality(Own(s, id)) = Cardinality(Serial!Places(job[s].report, fp))
           /\ Cardinality(Own(s, id)) \in Nat
           /\ IsFiniteSet(Serial!Places(job[s].report, fp))
<1> DEFINE P == Serial!Places(job[s].report, fp)
           h == [i \in P |-> <<s, i>>]
<1>1. P \subseteq DOMAIN got[s] /\ got[s] \in Seq(Results)
  BY ReportRead DEF Serial!Places
<1>2. IsFiniteSet(P)
  <2>1. IsFiniteSet(1..Len(got[s])) /\ DOMAIN got[s] = 1..Len(got[s])
    BY <1>1, FS_Interval
  <2>. QED  BY <1>1, <2>1, FS_Subset
<1>3. ASSUME NEW i \in P PROVE <<s, i>> \in Own(s, id)
  <2>1. job[s].report[i] = fp /\ i \in DOMAIN got[s]
    BY <1>1 DEF Serial!Places
  <2>2. got[s][i].id = id
    BY <2>1, EntryIs
  <2>. QED  BY <2>1, <2>2, OwnIs
<1>4. ASSUME NEW x \in Own(s, id) PROVE \E i \in P : x = <<s, i>>
  <2>1. PICK i \in DOMAIN got[s] : x = <<s, i>> /\ got[s][i].id = id
    BY OwnIs
  <2>2. PICK g : g = job[s].report[i]
    OBVIOUS
  <2>3. MadeFor(id, g)
    BY <2>1, <2>2, EntryIs
  <2>4. MadeFor(id, fp)
    BY DEF AtEnd, IInv, ScansOK, DraftOK
  <2>5. g = fp /\ i \in DOMAIN job[s].report
    BY <2>1, <2>3, <2>4, MadeForOne, ReportRead
  <2>6. i \in P
    BY <2>2, <2>5 DEF Serial!Places
  <2>. QED  BY <2>1, <2>6
<1> HIDE DEF P
<1>5. h \in Bijection(P, Own(s, id))
  <2>1. h \in [P -> Own(s, id)]
    BY <1>3
  <2>2. \A i, j \in P : h[i] = h[j] => i = j
    OBVIOUS
  <2>3. \A x \in Own(s, id) : \E i \in P : h[i] = x
    BY <1>4
  <2>. QED  BY <2>1, <2>2, <2>3 DEF Bijection, Injection, Surjection, IsInjective
<1>6. ExistsBijection(P, Own(s, id))
  BY <1>5, Zenon DEF ExistsBijection
<1>7. Cardinality(Own(s, id)) = Cardinality(P)
  BY <1>2, <1>6, FS_Bijection
<1>. QED  BY <1>2, <1>7, FS_CardinalityType DEF P

(* The row that becomes visible is the committed one, with all the places of *)
(* the report counted at once.                                               *)
LEMMA RowsAtOnce ==
    ASSUME NEW s \in Scans, AtEnd(s), NEW fp \in Fingerprints,
           NEW P, P = Serial!Places(job[s].report, fp),
           NEW k, k = CHOOSE i \in P : i \in Serial!Firsts(job[s].report)
    PROVE  DraftRow(s, fp) = IF P = {} THEN table[fp]
                             ELSE Serial!Seen(s, job[s].project, fp, k, Cardinality(P))
<1>1. TypeOK /\ s \in Requests
  BY ReportRead
<1>2. CASE draft[s][fp] = None
  <2>1. ASSUME NEW i \in P PROVE FALSE
    <3>1. job[s].report[i] = fp /\ i \in DOMAIN job[s].report
      BY DEF Serial!Places
    <3>2. i \in DOMAIN got[s]
      BY <3>1, ReportRead
    <3>. QED  BY <1>2, <3>1, <3>2, EntryIs
  <2>. QED  BY <1>2, <2>1 DEF DraftRow
<1>3. CASE draft[s][fp] # None
  <2>1. PICK d, id, n : d = draft[s][fp] /\ id = d.id /\ n = Cardinality(P)
    OBVIOUS
  <2>2. d \in Rows /\ d = [id |-> id, project |-> d.project, times |-> d.times]
    <3>1. d \in Rows
      BY <1>1, <1>3, <2>1 DEF TypeOK
    <3>. QED  BY <2>1, <3>1 DEF Rows
  <2>3. /\ n = Cardinality(Own(s, id)) /\ n \in Nat /\ IsFiniteSet(P)
    BY <1>3, <2>1, OwnArePlaces
  <2>4. DraftOK(s, fp) /\ d.project = IF table[fp] = None THEN job[s].project ELSE table[fp].project
    BY <1>3, <2>1 DEF AtEnd, IInv, ScansOK, ProjectKept
  <2>5. DraftRow(s, fp) = d
    BY <1>3, <2>1 DEF DraftRow
  <2>6. CASE table[fp] = None
    <3>1. id[1] = s /\ d.times = n
      BY <1>3, <2>1, <2>3, <2>4, <2>6 DEF DraftOK
    <3>2. id[2] \in P /\ id[2] \in Serial!Firsts(job[s].report)
      BY <1>3, <2>1, <3>1, MadeAtFirst
    <3>3. k \in P /\ k \in Serial!Firsts(job[s].report)
      BY <3>2
    <3>4. k = id[2]
      <4>1. PICK j : j = id[2]
        OBVIOUS
      <4>2. /\ k \in DOMAIN job[s].report /\ job[s].report[k] = fp
            /\ j \in DOMAIN job[s].report /\ job[s].report[j] = fp
        BY <3>2, <3>3, <4>1 DEF Serial!Places
      <4>3. j \in Nat /\ k \in Nat
        BY <4>2, ReportRead
      <4>4. ~(j < k) /\ ~(k < j)
        BY <3>2, <3>3, <4>1, <4>2 DEF Serial!Firsts
      <4>. QED  BY <4>1, <4>3, <4>4
    <3>5. id = <<s, k>>
      <4>1. id \in Ids
        BY <2>1, <2>2 DEF Rows
      <4>. QED  BY <3>1, <3>4, <4>1, Maker
    <3>6. Serial!Seen(s, job[s].project, fp, k, n)
              = [id |-> <<s, k>>, project |-> job[s].project, times |-> n]
      BY <2>6 DEF Serial!Seen
    <3>7. d = [id |-> <<s, k>>, project |-> job[s].project, times |-> n]
      BY <2>2, <2>4, <2>6, <3>1, <3>5
    <3>. QED  BY <2>1, <2>5, <3>2, <3>6, <3>7
  <2>7. CASE table[fp] # None
    <3>1. PICK t : t = table[fp]
      OBVIOUS
    <3>2. t \in Rows
      BY <1>1, <2>7, <3>1 DEF TypeOK
    <3>3. d.id = t.id /\ d.times = t.times + n /\ d.project = t.project
      BY <1>3, <2>1, <2>3, <2>4, <2>7, <3>1 DEF DraftOK
    <3>4. d = [t EXCEPT !.times = t.times + n]
      BY <2>2, <3>2, <3>3 DEF Rows
    <3>5. Serial!Seen(s, job[s].project, fp, k, n) = [t EXCEPT !.times = t.times + n]
      BY <2>7, <3>1, <3>2 DEF Serial!Seen, Rows
    <3>6. P = {} => d = t
      <4>1. P = {} => n = 0
        BY <2>1, FS_EmptySet
      <4>2. t.times \in Nat
        BY <3>2 DEF Rows
      <4>. QED  BY <3>2, <3>4, <4>1, <4>2 DEF Rows
    <3>. QED  BY <2>1, <2>5, <3>1, <3>4, <3>5, <3>6
  <2>. QED  BY <2>6, <2>7
<1>. QED  BY <1>2, <1>3

(* The counters of the scan are those of the report.                         *)
LEMMA CountsAtOnce ==
    ASSUME NEW s \in Scans, AtEnd(s), NEW report, report = job[s].report
    PROVE  /\ CountNew(s, TRUE) = Cardinality(Serial!News(report))
           /\ CountNew(s, FALSE) = Cardinality(DOMAIN report \ Serial!News(report))
<1>1. DOMAIN got[s] = DOMAIN report /\ \A i \in DOMAIN got[s] : got[s][i].new \in BOOLEAN
  BY ReportRead, EntryIs DEF Results
<1>2. Serial!News(report) \subseteq DOMAIN report
  BY DEF Serial!News, Serial!Firsts
<1>3. \A i \in DOMAIN got[s] : got[s][i].new <=> i \in Serial!News(report)
  BY NewIsNews
<1>4. ASSUME NEW i PROVE i \in DOMAIN got[s] /\ got[s][i].new = TRUE <=> i \in Serial!News(report)
  BY <1>1, <1>2, <1>3, Zenon
<1>5. ASSUME NEW i
      PROVE  i \in DOMAIN got[s] /\ got[s][i].new = FALSE
                 <=> i \in DOMAIN report \ Serial!News(report)
  <2>1. CASE i \in DOMAIN got[s]
    <3>1. got[s][i].new \in BOOLEAN /\ (got[s][i].new <=> i \in Serial!News(report))
      BY <1>1, <1>3, <2>1
    <3>2. got[s][i].new = FALSE <=> ~(i \in Serial!News(report))
      BY <3>1, Zenon
    <3>. QED  BY <1>1, <2>1, <3>2, Zenon
  <2>2. CASE i \notin DOMAIN got[s]
    BY <1>1, <2>2
  <2>. QED  BY <2>1, <2>2
<1>6. {i \in DOMAIN got[s] : got[s][i].new = TRUE} = Serial!News(report)
  BY <1>4, Zenon
<1>7. {i \in DOMAIN got[s] : got[s][i].new = FALSE} = DOMAIN report \ Serial!News(report)
  BY <1>5, Zenon
<1>. QED  BY <1>6, <1>7 DEF CountNew

(* So are its links.                                                         *)
LEMMA LinksAtOnce ==
    ASSUME NEW s \in Scans, AtEnd(s), NEW report, report = job[s].report
    PROVE  LinksOf(s) = {[id |-> DraftRow(s, report[i]).id, scan |-> s,
                          new |-> i \in Serial!News(report)] : i \in Serial!Firsts(report)}
<1>1. DOMAIN got[s] = DOMAIN report
  BY ReportRead
<1>2. ASSUME NEW i \in DOMAIN got[s]
      PROVE  /\ got[s][i].id = DraftRow(s, report[i]).id
             /\ got[s][i].new = (i \in Serial!News(report))
             /\ (\A j \in DOMAIN got[s] : j < i => got[s][j].id # got[s][i].id)
                    <=> i \in Serial!Firsts(report)
  <2>1. PICK fp : fp = report[i]
    OBVIOUS
  <2>2. got[s][i] \in Results /\ draft[s][fp] # None /\ got[s][i].id = draft[s][fp].id
    BY <2>1, EntryIs
  <2>3. got[s][i].id = DraftRow(s, report[i]).id
    BY <2>1, <2>2 DEF DraftRow
  <2>4. got[s][i].new = (i \in Serial!News(report))
    <3>1. got[s][i].new \in BOOLEAN
      BY <2>2 DEF Results
    <3>2. got[s][i].new <=> i \in Serial!News(report)
      BY NewIsNews
    <3>3. CASE i \in Serial!News(report)
      <4>1. got[s][i].new = TRUE /\ (i \in Serial!News(report)) = TRUE
        BY <3>1, <3>2, <3>3, Zenon
      <4>. QED  BY <4>1, Zenon
    <3>4. CASE ~(i \in Serial!News(report))
      <4>1. got[s][i].new = FALSE
        BY <3>1, <3>2, <3>4, Zenon
      <4>2. (i \in Serial!News(report)) = FALSE
        BY <3>4
      <4>. QED  BY <4>1, <4>2, Zenon
    <3>. QED  BY <3>3, <3>4, Zenon
  <2>5. \A j \in DOMAIN got[s] : got[s][j].id = got[s][i].id <=> report[j] = report[i]
    BY SameFinding
  <2>6. i \in Serial!Firsts(report)
            <=> \A j \in DOMAIN got[s] : j < i => report[j] # report[i]
    BY <1>1 DEF Serial!Firsts
  <2>. QED  BY <2>3, <2>4, <2>5, <2>6
<1>3. LinksOf(s) = {[id |-> got[s][i].id, scan |-> s, new |-> got[s][i].new] :
                       i \in Serial!Firsts(report)}
  <2>1. {i \in DOMAIN got[s] : \A j \in DOMAIN got[s] : j < i => got[s][j].id # got[s][i].id}
            = Serial!Firsts(report)
    <3>1. Serial!Firsts(report) \subseteq DOMAIN got[s]
      BY <1>1 DEF Serial!Firsts
    <3>. QED  BY <1>2, <3>1, Zenon
  <2>. QED  BY <2>1 DEF LinksOf
<1>4. \A i \in Serial!Firsts(report) :
         [id |-> got[s][i].id, scan |-> s, new |-> got[s][i].new]
             = [id |-> DraftRow(s, report[i]).id, scan |-> s, new |-> i \in Serial!News(report)]
  <2> TAKE i \in Serial!Firsts(report)
  <2>1. i \in DOMAIN got[s]
    BY <1>1 DEF Serial!Firsts
  <2>. QED  BY <1>2, <2>1, Zenon
<1> DEFINE T == Serial!Firsts(report)
           A(i) == [id |-> got[s][i].id, scan |-> s, new |-> got[s][i].new]
           B(i) == [id |-> DraftRow(s, report[i]).id, scan |-> s,
                    new |-> i \in Serial!News(report)]
<1>5. \A i \in T : A(i) = B(i)
  BY <1>4, Zenon
<1>6. LinksOf(s) = {A(i) : i \in T}
  BY <1>3, Zenon
<1> HIDE DEF T, A, B
<1>7. {A(i) : i \in T} = {B(i) : i \in T}
  BY <1>5, Zenon
<1>. QED  BY <1>6, <1>7, Zenon DEF T, B

(* The same operator of FiniteSets, seen through the instance.               *)
LEMMA SameCardinality ==
    ASSUME NEW S
    PROVE  Serial!Cardinality(S) = Cardinality(S)
  BY DEF Serial!Cardinality, Cardinality

(* COMMIT is the import of the whole report.                                 *)
LEMMA CommitIsSerial ==
    ASSUME NEW s \in Scans, AtEnd(s), Committed(s)
    PROVE  Serial!ImportReport(s, job[s].project, job[s].report)
<1>1. PICK report, project : report = job[s].report /\ project = job[s].project
  OBVIOUS
<1>2. scans[s] = None
  BY ReportRead
<1>3. table' = [fp \in Fingerprints |->
          IF Serial!Places(report, fp) = {} THEN table[fp]
          ELSE Serial!Seen(s, project, fp,
                           CHOOSE i \in Serial!Places(report, fp) : i \in Serial!Firsts(report),
                           Serial!Cardinality(Serial!Places(report, fp)))]
  <2>1. table' = [fp \in Fingerprints |-> DraftRow(s, fp)]
    BY DEF Committed, DraftRow
  <2>2. \A fp \in Fingerprints : DraftRow(s, fp) =
          IF Serial!Places(report, fp) = {} THEN table[fp]
          ELSE Serial!Seen(s, project, fp,
                           CHOOSE i \in Serial!Places(report, fp) : i \in Serial!Firsts(report),
                           Serial!Cardinality(Serial!Places(report, fp)))
    <3> SUFFICES ASSUME NEW fp \in Fingerprints,
                        NEW P, P = Serial!Places(report, fp),
                        NEW k, k = CHOOSE i \in P : i \in Serial!Firsts(report)
                 PROVE  DraftRow(s, fp) = IF P = {} THEN table[fp]
                                          ELSE Serial!Seen(s, project, fp, k, Serial!Cardinality(P))
      OBVIOUS
    <3>1. Serial!Cardinality(P) = Cardinality(P)
      BY SameCardinality
    <3>. QED  BY <1>1, <3>1, RowsAtOnce
  <2>. QED  BY <2>1, <2>2, Zenon
<1>4. links' = links \union
          {[id |-> table'[report[i]].id, scan |-> s, new |-> i \in Serial!News(report)] :
              i \in Serial!Firsts(report)}
  <2>1. links' = links \union LinksOf(s)
    BY DEF Committed
  <2>2. ASSUME NEW i \in Serial!Firsts(report)
        PROVE  table'[report[i]] = DraftRow(s, report[i])
    <3>1. report[i] \in Fingerprints
      BY <1>1, ReportRead DEF Serial!Firsts
    <3>. QED  BY <3>1 DEF Committed, DraftRow
  <2>3. LinksOf(s) =
          {[id |-> DraftRow(s, report[i]).id, scan |-> s, new |-> i \in Serial!News(report)] :
              i \in Serial!Firsts(report)}
    BY <1>1, LinksAtOnce
  <2>. QED  BY <2>1, <2>2, <2>3, Zenon
<1>5. scans' = [scans EXCEPT ![s] =
          [status |-> "completed", imported |-> Serial!Cardinality(Serial!News(report)),
           updated |-> Serial!Cardinality(DOMAIN report \ Serial!News(report))]]
  <2>1. /\ CountNew(s, TRUE) = Serial!Cardinality(Serial!News(report))
        /\ CountNew(s, FALSE) = Serial!Cardinality(DOMAIN report \ Serial!News(report))
    BY <1>1, CountsAtOnce, SameCardinality
  <2>. QED  BY <2>1, Zenon DEF Committed
<1>6. Serial!ImportReport(s, project, report)
  BY <1>2, <1>3, <1>4, <1>5 DEF Serial!ImportReport
<1>. QED  BY <1>1, <1>6

(* Every step of a request is one of the serial imports, or leaves what they *)
(* are about alone.                                                          *)
LEMMA SerialStep ==
    ASSUME IInv, ProjectKept, [Next]_vars
    PROVE  Serial!Next \/ UNCHANGED <<table, links, scans>>
<1>1. ASSUME NEW s \in Scans, Commit(s) \/ CommitUnacknowledged(s)
      PROVE  Serial!Next
  <2>1. AtEnd(s) /\ Committed(s)
    BY <1>1 DEF AtEnd, Commit, CommitUnacknowledged
  <2>. QED  BY <2>1, CommitIsSerial, ReportRead DEF Serial!Next
<1>2. ASSUME NEW s \in Scans, Fail(s)
      PROVE  Serial!Next \/ UNCHANGED <<table, links, scans>>
  <2>1. CASE scans[s] = None
    <3>1. scans' = [scans EXCEPT ![s] = None]
      BY <1>2, <2>1 DEF Fail
    <3>. QED  BY <1>2, <2>1, <3>1 DEF Fail, IInv, TypeOK
  <2>2. CASE scans[s] # None
    <3>1. Serial!Disown(s)
      BY <1>2, <2>2 DEF Fail, Serial!Disown
    <3>. QED  BY <3>1 DEF Serial!Next
  <2>. QED  BY <2>1, <2>2
<1>3. ASSUME NEW r \in Imports, ImportUpsert(r)
      PROVE  Serial!Next
  <2>1. TypeOK /\ r \in Requests /\ Todo(r)
    BY <1>3 DEF IInv, Requests, ImportUpsert
  <2>2. PICK i, fp, report, project :
           /\ i = Len(got[r]) + 1 /\ fp = Entry(r)
           /\ report = job[r].report /\ project = job[r].project
    OBVIOUS
  <2>3. /\ report \in Reports /\ project \in Projects
        /\ i \in DOMAIN report /\ report[i] = fp /\ fp \in Fingerprints /\ NewId(r) = <<r, i>>
    <3>1. report \in Reports /\ project \in Projects /\ report \in Seq(Fingerprints)
      BY <2>1, <2>2, ImportAssumption DEF TypeOK, ImportAssumption
    <3>2. i \in 1..Len(report) /\ report[i] = fp /\ fp \in Fingerprints
      BY <2>1, <2>2, NextEntry
    <3>. QED  BY <2>2, <3>1, <3>2 DEF NewId
  <2>4. Upserted(r, table[fp]) = Serial!Seen(r, project, fp, i, 1)
    BY <2>2, <2>3 DEF Upserted, Serial!Seen
  <2>5. table' = [table EXCEPT ![fp] = Upserted(r, table[fp])] /\ UNCHANGED <<links, scans>>
    BY <1>3, <2>2 DEF ImportUpsert
  <2>6. Serial!ImportEntry(r, project, report, i)
    BY <2>3, <2>4, <2>5 DEF Serial!ImportEntry
  <2>. QED  BY <2>3, <2>6 DEF Serial!Next
<1>4. ASSUME NEW fp \in Fingerprints, DeleteFinding(fp)
      PROVE  Serial!Next
  <2>1. Serial!Delete(fp)
    BY <1>4 DEF DeleteFinding, Serial!Delete
  <2>. QED  BY <2>1 DEF Serial!Next
<1>5. \/ UNCHANGED <<table, links, scans>>
      \/ \E s \in Scans : Commit(s) \/ CommitUnacknowledged(s) \/ Fail(s)
      \/ \E r \in Imports : ImportUpsert(r)
      \/ \E fp \in Fingerprints : DeleteFinding(fp)
  BY DEF Next, vars, dbVars, BeginScan, ParseFails, ScanStep, StatementFails, Upsert,
         DeadlockDetected, ImportStep, ImportSkip, ImportEvent, Publish, Die
<1>. QED  BY <1>1, <1>2, <1>3, <1>4, <1>5

(* handleCreateScan (scans.go) upserts and links in one transaction: for      *)
(* any reports and any overlap, deadlock, failure or lost acknowledgement,   *)
(* the findings, the links and the outcomes of the scans change as if scans  *)
(* were imported one after the other, each with its whole report at once.    *)
THEOREM ImportsAreSerial == Spec => ImplementsSerial
<1>1. Init => Serial!Init /\ ProjectKept
  BY DEF Init, Serial!Init, ProjectKept
<1>2. IInv /\ ProjectKept /\ [Next]_vars => ProjectKept'
  BY ProjectStep
<1>3. IInv /\ ProjectKept /\ [Next]_vars => [Serial!Next]_(Serial!vars)
  BY SerialStep DEF Serial!vars
<1>. QED  BY <1>1, <1>2, <1>3, Invariance, PTL DEF Spec, ImplementsSerial, Serial!Spec
=============================================================================
