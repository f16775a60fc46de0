--------------------------- MODULE NvdSyncProofs ---------------------------
(***************************************************************************)
(* For any catalogue, page size, windows, callers and bounds, the safety   *)
(* properties of NvdSync hold of every reachable state and step.           *)
(***************************************************************************)
EXTENDS NvdSync, FiniteSetTheorems, TLAPS

-----------------------------------------------------------------------------
(* The inductive invariant *)

\* CVEs are published in catalogue order.
InOrder == \A c, d \in CVEs : d < c /\ mod[c] > 0 => mod[d] > 0

\* A full load leaves a row in sync_status.
RowKnown == complete => status # "absent"

\* Every CVE last modified between lo and hi is stored as it is.
Covered(lo, hi) ==
    \A c \in CVEs : mod[c] > 0 /\ lo <= mod[c] /\ mod[c] <= hi => got[c] = mod[c]

\* A full load reads the catalogue by position: what it has passed is stored,
\* or was modified after it began, and so is what was published too late for
\* it to be counted.
FullProgress(j) ==
    \A c \in CVEs : mod[c] > 0 /\ mod[c] <= j.hi =>
        /\ c <= j.index => got[c] = mod[c]
        /\ j.total # -1 => c <= j.total

\* The result of a window only shrinks; as long as it has not, the positions
\* that were read are those of the CVEs stored.
WindowProgress(j) ==
    j.total # -1 =>
        /\ Cardinality(Matching(j)) <= j.total
        /\ Cardinality(Matching(j)) = j.total =>
              \A c \in Matching(j) : Rank(c, Matching(j)) <= j.index => got[c] = mod[c]

\* Windows lie across the watermark and in the past.
InWindow(j) ==
    /\ mark <= j.hi /\ j.hi <= clock
    /\ ~j.full => j.lo <= mark /\ j.hi <= j.now /\ j.now <= clock

PageInv(j) ==
    /\ j.total = -1 => j.index = 0
    /\ j.total # -1 => j.index < j.total
    /\ IF j.full THEN FullProgress(j) ELSE WindowProgress(j)

JobInv(a) ==
    /\ pc[a] \in {"page", "checkpoint", "finish"} => InWindow(job[a])
    /\ pc[a] = "page" => PageInv(job[a])
    /\ pc[a] = "checkpoint" => ~job[a].full /\ Covered(job[a].lo, job[a].hi)
    /\ pc[a] = "finish" =>
          IF job[a].full THEN Covered(1, job[a].hi) ELSE mark = job[a].hi

IInv ==
    /\ TypeOK
    /\ OneRunAtATime
    /\ InOrder /\ RowKnown
    /\ \A a \in Callers : JobInv(a)
    /\ NothingSkipped

-----------------------------------------------------------------------------
(* Positions in a paged result.                                               *)
LEMMA RankBounds ==
    ASSUME NEW S \in SUBSET CVEs
    PROVE  /\ IsFiniteSet(S) /\ Cardinality(S) \in Nat
           /\ \A c \in CVEs : /\ Rank(c, S) \in Nat /\ Rank(c, S) <= Cardinality(S)
                              /\ IsFiniteSet({d \in S : d <= c})
                              /\ c \in S => Rank(c, S) > 0
<1>1. IsFiniteSet(CVEs)
  BY NvdAssumption, FS_Interval DEF CVEs, NvdAssumption
<1>2. IsFiniteSet(S) /\ Cardinality(S) \in Nat
  BY <1>1, FS_Subset, FS_CardinalityType
<1>3. ASSUME NEW c \in CVEs
      PROVE  /\ Rank(c, S) \in Nat /\ Rank(c, S) <= Cardinality(S)
             /\ IsFiniteSet({d \in S : d <= c})
             /\ c \in S => Rank(c, S) > 0
  <2>1. {d \in S : d <= c} \in SUBSET S
    OBVIOUS
  <2>2. /\ IsFiniteSet({d \in S : d <= c})
        /\ Cardinality({d \in S : d <= c}) <= Cardinality(S)
    BY <1>2, <2>1, FS_Subset
  <2>3. Rank(c, S) \in Nat
    BY <2>2, FS_CardinalityType DEF Rank
  <2>4. ASSUME c \in S
        PROVE  Rank(c, S) # 0
    <3>1. c \in {d \in S : d <= c}
      BY <2>4 DEF CVEs
    <3>. QED  BY <2>2, <3>1, FS_EmptySet DEF Rank
  <2>. QED  BY <2>2, <2>3, <2>4 DEF Rank
<1>. QED  BY <1>2, <1>3

(* A later element of the result has a higher position.                       *)
LEMMA RankGrows ==
    ASSUME NEW S \in SUBSET CVEs, NEW c \in S, NEW d \in S, c < d
    PROVE  Rank(c, S) < Rank(d, S)
<1> DEFINE C == {x \in S : x <= c}
           D == {x \in S : x <= d}
<1>1. c \in Int /\ d \in Int /\ \A x \in S : x \in Int
  BY DEF CVEs
<1>2. C \in SUBSET D /\ d \in D /\ d \notin C
  <2>1. ASSUME NEW x \in C
        PROVE  x \in D
    BY <1>1
  <2>2. d \in D /\ d \notin C
    BY <1>1
  <2>. QED  BY <2>1, <2>2
<1>3. IsFiniteSet(D) /\ Rank(c, S) \in Nat /\ Rank(d, S) \in Nat
  BY RankBounds
<1>4. Cardinality(C) <= Cardinality(D) /\ Cardinality(C) # Cardinality(D)
  <2> HIDE DEF C, D
  <2>. QED  BY <1>2, <1>3, FS_Subset
<1>. QED  BY <1>3, <1>4 DEF Rank

(* A page is at most PageSize entries of the result, and all of them lie past *)
(* the index it was asked for.                                                *)
LEMMA PageFits ==
    ASSUME NEW j, j.index \in Nat
    PROVE  /\ Page(j) \subseteq Matching(j) /\ Matching(j) \in SUBSET CVEs
           /\ Cardinality(Page(j)) \in Nat
           /\ Cardinality(Page(j)) <= PageSize
           /\ Page(j) # {} => j.index + Cardinality(Page(j)) <= Cardinality(Matching(j))
           /\ Page(j) = {} => Cardinality(Page(j)) = 0
<1> DEFINE M == Matching(j)
           P == Page(j)
<1>1. P \subseteq M /\ M \in SUBSET CVEs /\ P \in SUBSET CVEs
  BY DEF Page, Matching
<1>2. IsFiniteSet(P) /\ Cardinality(P) \in Nat /\ Cardinality(M) \in Nat
  <2> HIDE DEF P, M
  <2>. QED  BY <1>1, RankBounds
<1>3. ASSUME NEW lo \in Int, NEW hi \in Int, \A c \in P : Rank(c, M) \in lo..hi
      PROVE  Cardinality(P) <= IF lo > hi THEN 0 ELSE hi - lo + 1
  <2> DEFINE f == [c \in P |-> Rank(c, M)]
  <2>1. f \in Injection(P, lo..hi)
    <3>1. f \in [P -> lo..hi]
      BY <1>3
    <3>2. ASSUME NEW c \in P, NEW d \in P, c # d
          PROVE  f[c] # f[d]
      <4>1. c \in M /\ d \in M /\ c \in Int /\ d \in Int
        BY <1>1 DEF CVEs
      <4>2. c < d \/ d < c
        BY <3>2, <4>1
      <4>3. Rank(c, M) \in Nat /\ Rank(d, M) \in Nat
        <5> HIDE DEF M
        <5>. QED  BY <1>1, <4>1, RankBounds
      <4>4. Rank(c, M) < Rank(d, M) \/ Rank(d, M) < Rank(c, M)
        <5> HIDE DEF M
        <5>. QED  BY <1>1, <4>1, <4>2, RankGrows
      <4>. QED  BY <4>3, <4>4
    <3>. QED  BY <3>1, <3>2 DEF Injection, IsInjective
  <2>2. IsFiniteSet(lo..hi) /\ Cardinality(lo..hi) = IF lo > hi THEN 0 ELSE hi - lo + 1
    BY FS_Interval
  <2> HIDE DEF f, P
  <2>. QED  BY <2>1, <2>2, FS_Injection
<1>4. \A c \in P : Rank(c, M) \in j.index + 1 .. j.index + PageSize
  BY DEF Page
<1>5. Cardinality(P) <= PageSize
  <2> HIDE DEF P, M
  <2>1. PageSize \in Nat \ {0} /\ j.index + 1 \in Int /\ j.index + PageSize \in Int
    BY NvdAssumption DEF NvdAssumption
  <2>. QED  BY <1>2, <1>3, <1>4, <2>1
<1>6. ASSUME P # {}
      PROVE  j.index + Cardinality(P) <= Cardinality(M)
  <2> HIDE DEF P, M
  <2>1. \A c \in P : Rank(c, M) \in Nat /\ Rank(c, M) <= Cardinality(M)
    BY <1>1, RankBounds
  <2>2. \A c \in P : Rank(c, M) \in j.index + 1 .. Cardinality(M)
    BY <1>2, <1>4, <2>1
  <2>3. j.index + 1 <= Cardinality(M)
    BY <1>2, <1>6, <2>2
  <2>4. j.index + 1 \in Int /\ Cardinality(M) \in Int
    BY <1>2
  <2>5. Cardinality(P) <= IF j.index + 1 > Cardinality(M) THEN 0
                          ELSE Cardinality(M) - (j.index + 1) + 1
    BY <1>3, <2>2, <2>4
  <2>. QED  BY <1>2, <2>3, <2>5
<1>7. P = {} => Cardinality(P) = 0
  BY FS_EmptySet
<1>. QED  BY <1>1, <1>2, <1>5, <1>6, <1>7

(* In the whole catalogue a CVE has the position of its publication.          *)
LEMMA RankInOrder ==
    ASSUME InOrder, NEW j, j.full, NEW c \in Matching(j)
    PROVE  Rank(c, Matching(j)) = c /\ c \in Nat
<1>1. c \in CVEs /\ c \in Nat /\ c >= 1 /\ mod[c] > 0
  BY DEF Matching, CVEs
<1>2. {d \in Matching(j) : d <= c} = 1..c
  <2>1. ASSUME NEW d \in 1..c
        PROVE  d \in Matching(j)
    <3>1. d \in CVEs /\ (d = c \/ d < c)
      BY <1>1, NvdAssumption DEF CVEs, NvdAssumption
    <3>2. mod[d] > 0
      BY <1>1, <3>1 DEF InOrder
    <3>. QED  BY <3>1, <3>2 DEF Matching
  <2>. QED  BY <1>1, <2>1 DEF Matching, CVEs
<1>3. Cardinality(1..c) = c
  BY <1>1, FS_Interval
<1>. QED  BY <1>1, <1>2, <1>3 DEF Rank

-----------------------------------------------------------------------------
(* The types of a run's locals.                                               *)
Steps == {"idle", "begin", "choose", "page", "checkpoint", "finish", "report"}

LEMMA JobForms ==
    /\ NoJob \in Jobs
    /\ \A full \in BOOLEAN : /\ [NoJob EXCEPT !.full = full] \in Jobs
                             /\ [NoJob EXCEPT !.full = full].full = full
<1>1. PICK b \in BOOLEAN : b = FALSE
  OBVIOUS
<1>2. NoJob = [full |-> b, lo |-> 0, hi |-> 0, now |-> 0, index |-> 0, total |-> -1]
  BY <1>1, Zenon DEF NoJob
<1>3. NoJob \in Jobs
  BY <1>2 DEF Jobs
<1>4. ASSUME NEW full \in BOOLEAN
      PROVE  [NoJob EXCEPT !.full = full] \in Jobs /\ [NoJob EXCEPT !.full = full].full = full
  BY <1>3 DEF Jobs
<1>. QED  BY <1>3, <1>4

(* The windows Choose and Checkpoint open.                                    *)
LEMMA FullLoadForm ==
    ASSUME TypeOK
    PROVE  /\ FullLoad \in Jobs
           /\ FullLoad.full /\ FullLoad.hi = clock
           /\ FullLoad.index = 0 /\ FullLoad.total = -1
<1>1. PICK b \in BOOLEAN : b = TRUE
  OBVIOUS
<1>2. FullLoad = [NoJob EXCEPT !.full = b, !.hi = clock]
  BY <1>1, Zenon DEF FullLoad
<1>3. clock \in Nat
  BY NvdAssumption DEF TypeOK, NvdAssumption
<1>4. FullLoad \in Jobs /\ FullLoad.full = b /\ FullLoad.hi = clock
      /\ FullLoad.index = NoJob.index /\ FullLoad.total = NoJob.total
  BY <1>2, <1>3, JobForms DEF Jobs
<1>5. NoJob.index = 0 /\ NoJob.total = -1
  BY DEF NoJob
<1>. QED  BY <1>1, <1>4, <1>5

LEMMA IncrementalForm ==
    ASSUME TypeOK, mark # NoMark, NEW from, from = MinOf(mark, clock) - Overlap
    PROVE  /\ Incremental(from) \in Jobs
           /\ ~Incremental(from).full
           /\ Incremental(from).lo = from /\ from <= mark
           /\ Incremental(from).now = clock
           /\ mark <= Incremental(from).hi /\ Incremental(from).hi <= clock
           /\ Incremental(from).index = 0 /\ Incremental(from).total = -1
<1>1. /\ clock \in Nat /\ mark \in Nat /\ mark <= clock
      /\ Overlap \in Nat /\ MaxRange \in Nat /\ Overlap < MaxRange
  BY NvdAssumption DEF TypeOK, NvdAssumption, NoMark
<1>2. from \in Int /\ from <= mark /\ mark <= from + MaxRange
  BY <1>1 DEF MinOf
<1>3. PICK hi \in Nat : /\ hi = MinOf(from + MaxRange, clock)
                        /\ mark <= hi /\ hi <= clock
  BY <1>1, <1>2 DEF MinOf
<1>4. PICK b \in BOOLEAN : b = FALSE
  OBVIOUS
<1>5. Incremental(from) =
          [full |-> b, lo |-> from, hi |-> hi, now |-> clock, index |-> 0, total |-> -1]
  BY <1>3, <1>4, Zenon DEF Incremental
<1>. QED  BY <1>1, <1>2, <1>3, <1>4, <1>5 DEF Jobs

LEMMA NextWindowForm ==
    ASSUME NEW j \in Jobs, j.hi <= j.now
    PROVE  /\ NextWindow(j) \in Jobs
           /\ NextWindow(j).full = j.full
           /\ NextWindow(j).lo = j.hi /\ NextWindow(j).now = j.now
           /\ j.hi <= NextWindow(j).hi /\ NextWindow(j).hi <= j.now
           /\ NextWindow(j).index = 0 /\ NextWindow(j).total = -1
<1>1. j.hi \in Nat /\ j.now \in Nat /\ MaxRange \in Nat
  BY NvdAssumption DEF Jobs, NvdAssumption
<1>2. PICK hi \in Nat : hi = MinOf(j.hi + MaxRange, j.now) /\ j.hi <= hi /\ hi <= j.now
  BY <1>1 DEF MinOf
<1>3. NextWindow(j) = [j EXCEPT !.lo = j.hi, !.hi = hi, !.index = 0, !.total = -1]
  BY <1>2, Zenon DEF NextWindow
<1>4. PICK k \in Nat, t \in Nat \union {-1} : k = 0 /\ t = -1
  OBVIOUS
<1>5. NextWindow(j) = [j EXCEPT !.lo = j.hi, !.hi = hi, !.index = k, !.total = t]
  BY <1>3, <1>4
<1>6. NextWindow(j) = [full |-> j.full, lo |-> j.hi, hi |-> hi, now |-> j.now,
                       index |-> k, total |-> t]
  BY <1>5 DEF Jobs
<1>7. NextWindow(j) \in Jobs
  BY <1>1, <1>6 DEF Jobs
<1>. QED  BY <1>2, <1>4, <1>6, <1>7

(* The state after a page, whatever it holds.                                 *)
LEMMA FetchForm ==
    ASSUME TypeOK, NEW a \in Callers, FetchPage(a)
    PROVE  LET j     == job[a]
               total == IF j.total = -1 THEN Cardinality(Matching(j)) ELSE j.total
               next  == j.index + Cardinality(Page(j))
           IN  /\ total \in Nat /\ next \in Nat
               /\ total > 0 => Page(j) # {}
               /\ job'[a] \in Jobs
               /\ job'[a] = [j EXCEPT !.index = next, !.total = total]
               /\ \A b \in Callers : b # a => job'[b] = job[b]
               /\ job' \in [Callers -> Jobs]
               /\ pc'[a] = IF next >= total THEN AfterLoad(a) ELSE "page"
               /\ pc' \in [Callers -> Steps]
               /\ \A b \in Callers : b # a => pc'[b] = pc[b]
               /\ got' \in [CVEs -> 0..clock]
<1> DEFINE j     == job[a]
           total == IF j.total = -1 THEN Cardinality(Matching(j)) ELSE j.total
           next  == j.index + Cardinality(Page(j))
<1>1. j \in Jobs /\ j.index \in Nat /\ j.total \in Nat \union {-1}
  BY DEF TypeOK, Jobs
<1>2. Cardinality(Page(j)) \in Nat /\ Matching(j) \in SUBSET CVEs
  BY <1>1, PageFits
<1>3. Cardinality(Matching(j)) \in Nat
  BY <1>2, RankBounds
<1>4. total \in Nat /\ next \in Nat
  BY <1>1, <1>2, <1>3
<1>5. /\ total > 0 => Page(j) # {}
      /\ got' = [c \in CVEs |-> IF c \in Page(j) THEN mod[c] ELSE got[c]]
      /\ job' = [job EXCEPT ![a].index = next, ![a].total = total]
      /\ pc' = [pc EXCEPT ![a] = IF next >= total THEN AfterLoad(a) ELSE "page"]
  BY Zenon DEF FetchPage
<1> HIDE DEF total, next
<1>6. [j EXCEPT !.index = next, !.total = total] \in Jobs
  BY <1>1, <1>4 DEF Jobs
<1>7. job' = [job EXCEPT ![a] = [j EXCEPT !.index = next, !.total = total]]
  BY <1>5, <1>1 DEF TypeOK
<1>8. AfterLoad(a) \in Steps /\ "page" \in Steps
  BY DEF AfterLoad, Steps
<1>9. got' \in [CVEs -> 0..clock]
  BY <1>5 DEF TypeOK
<1>10. /\ job'[a] = [j EXCEPT !.index = next, !.total = total]
       /\ \A b \in Callers : b # a => job'[b] = job[b]
       /\ job' \in [Callers -> Jobs]
  BY <1>6, <1>7 DEF TypeOK
<1>11. /\ pc'[a] = IF next >= total THEN AfterLoad(a) ELSE "page"
       /\ \A b \in Callers : b # a => pc'[b] = pc[b]
       /\ pc' \in [Callers -> Steps]
  BY <1>5, <1>8 DEF TypeOK, Steps
<1>. QED  BY <1>4, <1>5, <1>6, <1>9, <1>10, <1>11 DEF total, next

(* The end of a run, for whatever reason.                                     *)
LEMMA ReleaseForm ==
    ASSUME TypeOK, NEW a \in Callers, Release(a)
    PROVE  /\ running' = FALSE
           /\ pc' \in [Callers -> Steps] /\ pc'[a] = "idle"
           /\ \A b \in Callers : b # a => pc'[b] = pc[b]
           /\ job' \in [Callers -> Jobs]
           /\ \A b \in Callers : b # a => job'[b] = job[b]
  BY JobForms DEF Release, TypeOK, Steps

(* A run's window, when it reaches its end.                                   *)
LEMMA CheckpointForm ==
    ASSUME TypeOK, NEW a \in Callers, JobInv(a), Checkpoint(a)
    PROVE  LET j == job[a]
           IN  /\ ~j.full /\ j.hi \in Nat /\ j.now \in Nat
               /\ j.lo <= mark /\ mark <= j.hi /\ j.hi <= j.now /\ j.now <= clock
               /\ Covered(j.lo, j.hi)
               /\ mark' = j.hi
               /\ \A b \in Callers : b # a => pc'[b] = pc[b] /\ job'[b] = job[b]
               /\ job' \in [Callers -> Jobs] /\ pc' \in [Callers -> Steps]
               /\ \/ pc'[a] = "finish" /\ job'[a] = j
                  \/ pc'[a] = "page" /\ job'[a] = NextWindow(j)
<1> DEFINE j == job[a]
<1>1. pc[a] = "checkpoint" /\ j \in Jobs
  BY DEF Checkpoint, TypeOK
<1>2. /\ ~j.full /\ j.hi \in Nat /\ j.now \in Nat
      /\ j.lo <= mark /\ mark <= j.hi /\ j.hi <= j.now /\ j.now <= clock
      /\ Covered(j.lo, j.hi)
  BY <1>1 DEF JobInv, InWindow, Jobs
<1>3. NextWindow(j) \in Jobs
  BY <1>1, <1>2, NextWindowForm
<1>4. mark' = j.hi
  BY DEF Checkpoint
<1>5. CASE j.hi = j.now
  BY <1>2, <1>4, <1>5 DEF Checkpoint, TypeOK, Steps
<1>6. CASE j.hi # j.now
  BY <1>2, <1>3, <1>4, <1>6 DEF Checkpoint, TypeOK, Steps
<1>. QED  BY <1>5, <1>6

LEMMA TypeInit == Init => TypeOK
<1> SUFFICES ASSUME Init
             PROVE  TypeOK
  OBVIOUS
<1>1. clock = 1 /\ clock \in 0..MaxClock
  BY NvdAssumption DEF Init, NvdAssumption
<1>2. mod \in [CVEs -> 0..clock]
  BY <1>1 DEF Init
<1>3. got \in [CVEs -> 0..clock]
  BY <1>1, <1>2 DEF Init, Fresh, AfterFullLoad
<1>4. mark \in -1..clock /\ status \in {"absent", "running", "error", "success"}
  BY <1>1 DEF Init, Fresh, AfterFullLoad, NoMark
<1>5. complete \in BOOLEAN /\ synced \in BOOLEAN /\ running \in BOOLEAN /\ up \in BOOLEAN
  BY DEF Init, Fresh, AfterFullLoad
<1>6. job \in [Callers -> Jobs]
  BY JobForms DEF Init
<1>7. faults \in 0..MaxFaults /\ stops \in 0..MaxStops
  BY NvdAssumption DEF Init, NvdAssumption
<1>8. pc \in [Callers -> Steps]
  BY DEF Init, Steps
<1>. QED  BY <1>1, <1>2, <1>3, <1>4, <1>5, <1>6, <1>7, <1>8 DEF TypeOK, Steps

LEMMA TypeStep ==
    ASSUME TypeOK, \A a \in Callers : JobInv(a), [Next]_vars
    PROVE  TypeOK'
<1> USE DEF TypeOK
<1>0. clock \in Nat
  BY NvdAssumption DEF NvdAssumption
<1>1. ASSUME NEW c \in CVEs, Modify(c)
      PROVE  TypeOK'
  <2>1. clock' = clock + 1 /\ clock' \in 0..MaxClock
    BY <1>0, <1>1, NvdAssumption DEF Modify, NvdAssumption
  <2>2. mod' \in [CVEs -> 0..clock'] /\ got' \in [CVEs -> 0..clock'] /\ mark' \in -1..clock'
    BY <1>0, <1>1, <2>1 DEF Modify, rowVars
  <2>. QED  BY <1>1, <2>1, <2>2 DEF Modify, rowVars, histVars, envVars
<1>2. ASSUME NEW a \in Callers, NEW full \in BOOLEAN, Trigger(a, full)
      PROVE  TypeOK'
  <2>1. job' \in [Callers -> Jobs]
    BY <1>2, JobForms DEF Trigger
  <2>2. pc' \in [Callers -> Steps]
    BY <1>2 DEF Trigger, Steps
  <2>. QED  BY <1>2, <2>1, <2>2 DEF Trigger, Steps, upstream, rowVars, histVars, envVars
<1>3. ASSUME NEW a \in Callers, Begin(a)
      PROVE  TypeOK'
  BY <1>0, <1>3 DEF Begin, upstream, histVars, envVars
<1>4. ASSUME NEW a \in Callers, Choose(a)
      PROVE  TypeOK'
  <2>1. CASE mark = NoMark
    <3>1. job' \in [Callers -> Jobs]
      BY <1>4, <2>1, FullLoadForm DEF Choose
    <3>. QED  BY <1>4, <3>1 DEF Choose, upstream, rowVars, histVars, envVars
  <2>2. CASE mark # NoMark
    <3>1. job' \in [Callers -> Jobs]
      BY <1>4, <2>2, FullLoadForm, IncrementalForm DEF Choose
    <3>. QED  BY <1>4, <3>1 DEF Choose, upstream, rowVars, histVars, envVars
  <2>. QED  BY <2>1, <2>2
<1>5. ASSUME NEW a \in Callers, FetchPage(a)
      PROVE  TypeOK'
  <2>1. job' \in [Callers -> Jobs] /\ pc' \in [Callers -> Steps] /\ got' \in [CVEs -> 0..clock]
    BY <1>5, FetchForm
  <2>2. UNCHANGED <<upstream, rowVars, running, histVars, envVars>>
    BY <1>5 DEF FetchPage
  <2>. QED  BY <2>1, <2>2 DEF Steps, upstream, rowVars, histVars, envVars
<1>6. ASSUME NEW a \in Callers, FetchNothing(a)
      PROVE  TypeOK'
  <2>1. job' \in [Callers -> Jobs] /\ pc' \in [Callers -> Steps] /\ running' \in BOOLEAN
    BY <1>6, ReleaseForm DEF FetchNothing
  <2>. QED  BY <1>6, <2>1 DEF FetchNothing, Steps, upstream, histVars, envVars
<1>7. ASSUME NEW a \in Callers, Checkpoint(a)
      PROVE  TypeOK'
  <2>1. /\ job' \in [Callers -> Jobs] /\ pc' \in [Callers -> Steps]
        /\ mark' = job[a].hi /\ job[a].hi \in Nat /\ job[a].now \in Nat
        /\ job[a].hi <= job[a].now /\ job[a].now <= clock
    BY <1>7, CheckpointForm
  <2>2. mark' \in -1..clock
    BY <1>0, <2>1
  <2>. QED  BY <1>7, <2>1, <2>2 DEF Checkpoint, Steps, upstream, histVars, envVars
<1>8. ASSUME NEW a \in Callers, Finish(a)
      PROVE  TypeOK'
  <2>1. InWindow(job[a]) /\ job[a] \in Jobs
    BY <1>8 DEF Finish, JobInv
  <2>2. mark' \in -1..clock
    BY <1>0, <1>8, <2>1 DEF Finish, InWindow, Jobs
  <2>3. complete' \in BOOLEAN /\ synced' \in BOOLEAN
    BY <1>8 DEF Finish
  <2>. QED  BY <1>8, <2>2, <2>3 DEF Finish, upstream, envVars
<1>9. ASSUME NEW a \in Callers, Report(a)
      PROVE  TypeOK'
  <2>1. job' \in [Callers -> Jobs] /\ pc' \in [Callers -> Steps] /\ running' \in BOOLEAN
    BY <1>9, ReleaseForm DEF Report
  <2>. QED  BY <1>9, <2>1 DEF Report, Steps, upstream, histVars, envVars
<1>10. ASSUME NEW a \in Callers, Fail(a)
       PROVE  TypeOK'
  <2>1. job' \in [Callers -> Jobs] /\ pc' \in [Callers -> Steps] /\ running' \in BOOLEAN
    BY <1>10, ReleaseForm DEF Fail
  <2>2. faults' \in 0..MaxFaults
    BY <1>10, NvdAssumption DEF Fail, NvdAssumption
  <2>3. status' \in {"absent", "running", "error", "success"}
    BY <1>10 DEF Fail
  <2>. QED  BY <1>10, <2>1, <2>2, <2>3 DEF Fail, Steps, upstream, histVars
<1>11. CASE Stop
  <2>1. job' \in [Callers -> Jobs] /\ pc' \in [Callers -> Steps]
    BY <1>11, JobForms DEF Stop, Steps
  <2>2. stops' \in 0..MaxStops
    BY <1>11, NvdAssumption DEF Stop, NvdAssumption
  <2>. QED  BY <1>11, <2>1, <2>2 DEF Stop, Steps, upstream, rowVars, histVars
<1>12. CASE Start
  BY <1>12 DEF Start, upstream, rowVars, histVars
<1>13. CASE UNCHANGED vars
  BY <1>13 DEF vars, upstream, rowVars, histVars, envVars
<1>. QED  BY <1>1, <1>2, <1>3, <1>4, <1>5, <1>6, <1>7, <1>8, <1>9, <1>10, <1>11, <1>12, <1>13
          DEF Next, Run, Step

-----------------------------------------------------------------------------
(* A caller that has no run in progress has nothing to keep.                  *)
LEMMA IdleKeeps ==
    ASSUME NEW a \in Callers, pc'[a] \notin {"page", "checkpoint", "finish"}
    PROVE  JobInv(a)'
  BY DEF JobInv

(* The scheduler's exclusion.                                                 *)
LEMMA OneRunStep ==
    ASSUME TypeOK, \A a \in Callers : JobInv(a), OneRunAtATime, [Next]_vars
    PROVE  OneRunAtATime'
<1> USE DEF OneRunAtATime
<1>1. ASSUME NEW a \in Callers, Release(a), pc[a] # "idle"
      PROVE  OneRunAtATime'
  BY <1>1, ReleaseForm
<1>2. ASSUME UNCHANGED running, \A a \in Callers : (pc[a] = "idle") <=> (pc'[a] = "idle")
      PROVE  OneRunAtATime'
  BY <1>2
<1>3. ASSUME NEW a \in Callers, NEW full \in BOOLEAN, Trigger(a, full)
      PROVE  OneRunAtATime'
  BY <1>3 DEF Trigger, TypeOK
<1>4. ASSUME NEW a \in Callers, Begin(a) \/ Choose(a) \/ Finish(a)
      PROVE  OneRunAtATime'
  BY <1>2, <1>4 DEF Begin, Choose, Finish, TypeOK
<1>5. ASSUME NEW a \in Callers, FetchPage(a)
      PROVE  OneRunAtATime'
  <2>1. /\ pc[a] = "page" /\ pc'[a] # "idle"
        /\ \A b \in Callers : b # a => pc'[b] = pc[b]
    BY <1>5, FetchForm DEF FetchPage, AfterLoad
  <2>. QED  BY <1>2, <1>5, <2>1 DEF FetchPage
<1>6. ASSUME NEW a \in Callers, Checkpoint(a)
      PROVE  OneRunAtATime'
  <2>1. /\ pc[a] = "checkpoint" /\ pc'[a] # "idle"
        /\ \A b \in Callers : b # a => pc'[b] = pc[b]
    BY <1>6, CheckpointForm DEF Checkpoint
  <2>. QED  BY <1>2, <1>6, <2>1 DEF Checkpoint
<1>7. ASSUME NEW a \in Callers, FetchNothing(a) \/ Report(a) \/ Fail(a)
      PROVE  OneRunAtATime'
  BY <1>1, <1>7 DEF FetchNothing, Report, Fail
<1>8. CASE Stop
  BY <1>8 DEF Stop
<1>9. CASE Start \/ (\E c \in CVEs : Modify(c)) \/ UNCHANGED vars
  BY <1>2, <1>9 DEF Start, Modify, vars
<1>. QED  BY <1>3, <1>4, <1>5, <1>6, <1>7, <1>8, <1>9 DEF Next, Run, Step

(* CVEs stay published in order, and the row of sync_status stays.            *)
LEMMA OrderStep ==
    ASSUME TypeOK, InOrder, RowKnown, [Next]_vars
    PROVE  InOrder' /\ RowKnown'
<1>1. InOrder'
  <2>1. CASE UNCHANGED mod
    BY <2>1 DEF InOrder
  <2>2. ASSUME NEW c \in CVEs, Modify(c)
        PROVE  InOrder'
    <3>1. /\ clock + 1 > 0 /\ \A d \in CVEs : d < c => mod[d] > 0
          /\ \A d \in CVEs : mod'[d] = IF d = c THEN clock + 1 ELSE mod[d]
      BY <2>2, NvdAssumption DEF Modify, TypeOK, NvdAssumption
    <3>2. \A d \in CVEs : d \in Int /\ mod[d] \in Int
      BY DEF TypeOK, CVEs
    <3>. QED  BY <3>1, <3>2 DEF InOrder
  <2>. QED
    BY <2>1, <2>2 DEF Next, Run, Trigger, Step, Begin, Choose, FetchPage, FetchNothing,
                      Checkpoint, Finish, Report, Fail, Stop, Start, vars, upstream
<1>2. RowKnown'
  BY DEF RowKnown, Next, Run, Modify, Trigger, Step, Begin, Choose, FetchPage, FetchNothing,
         Checkpoint, Finish, Report, Fail, Stop, Start, vars, rowVars, histVars
<1>. QED  BY <1>1, <1>2

(* A modification is later than every window and every watermark.             *)
LEMMA ModifyCovered ==
    ASSUME TypeOK, NEW c \in CVEs, Modify(c), NEW lo \in Int, NEW hi \in Int, hi <= clock,
           Covered(lo, hi)
    PROVE  Covered(lo, hi)'
<1>1. /\ clock' = clock + 1 /\ clock \in Int /\ got' = got
      /\ \A d \in CVEs : mod'[d] = IF d = c THEN clock + 1 ELSE mod[d]
  BY DEF Modify, TypeOK
<1>. QED  BY <1>1 DEF Covered

(* ... so it leaves a window's result, or was not in it.                      *)
LEMMA ModifyWindow ==
    ASSUME TypeOK, NEW c \in CVEs, Modify(c), NEW j \in Jobs, ~j.full, j.hi <= clock,
           WindowProgress(j)
    PROVE  WindowProgress(j)'
<1> SUFFICES ASSUME j.total # -1
             PROVE  /\ Cardinality(Matching(j)') <= j.total
                    /\ Cardinality(Matching(j)') = j.total =>
                         \A d \in Matching(j)' :
                            Rank(d, Matching(j)') <= j.index => got'[d] = mod'[d]
  BY DEF WindowProgress, Rank
<1>1. /\ clock \in Int /\ got' = got /\ j.hi \in Int /\ j.total \in Nat
      /\ \A d \in CVEs : mod'[d] = IF d = c THEN clock + 1 ELSE mod[d]
  BY DEF Modify, TypeOK, Jobs
<1>2. Matching(j)' = Matching(j) \ {c}
  BY <1>1 DEF Matching, TypeOK
<1>3. Matching(j) \in SUBSET CVEs
  BY DEF Matching
<1>4. IsFiniteSet(Matching(j)) /\ Cardinality(Matching(j)) \in Nat
  BY <1>3, RankBounds
<1>5. Cardinality(Matching(j)) <= j.total
  BY DEF WindowProgress
<1>6. CASE c \in Matching(j)
  <2>1. Cardinality(Matching(j) \ {c}) = Cardinality(Matching(j)) - 1
    BY <1>4, <1>6, FS_RemoveElement
  <2>. QED  BY <1>1, <1>2, <1>4, <1>5, <2>1
<1>7. CASE c \notin Matching(j)
  <2>1. Matching(j)' = Matching(j)
    BY <1>2, <1>7
  <2>2. \A d \in Matching(j) : mod'[d] = mod[d]
    BY <1>1, <1>3, <1>7
  <2>. QED  BY <1>1, <1>5, <2>1, <2>2 DEF WindowProgress
<1>. QED  BY <1>6, <1>7

LEMMA ModifyJob ==
    ASSUME TypeOK, NEW c \in CVEs, Modify(c), NEW a \in Callers, JobInv(a)
    PROVE  JobInv(a)'
<1>1. /\ clock' = clock + 1 /\ clock \in Int /\ mark' = mark /\ mark \in Int
      /\ job' = job /\ pc' = pc /\ got' = got
      /\ \A d \in CVEs : mod'[d] = IF d = c THEN clock + 1 ELSE mod[d]
  BY DEF Modify, TypeOK, rowVars
<1>2. PICK j \in Jobs : j = job[a] /\ j = job'[a]
  BY <1>1 DEF TypeOK
<1>3. j.hi \in Int /\ j.lo \in Int /\ j.now \in Int
  BY DEF Jobs
<1>4. pc[a] \in {"page", "checkpoint", "finish"} => InWindow(j) /\ InWindow(j)' /\ j.hi <= clock
  BY <1>1, <1>2, <1>3 DEF JobInv, InWindow
<1>5. pc[a] = "checkpoint" => ~j.full /\ Covered(j.lo, j.hi)'
  <2>1. pc[a] = "checkpoint" => ~j.full /\ Covered(j.lo, j.hi) /\ j.hi <= clock
    BY <1>2, <1>4 DEF JobInv
  <2>. QED  BY <1>3, <2>1, ModifyCovered
<1>6. pc[a] = "finish" => IF j.full THEN Covered(1, j.hi)' ELSE mark = j.hi
  <2>1. pc[a] = "finish" =>
            j.hi <= clock /\ IF j.full THEN Covered(1, j.hi) ELSE mark = j.hi
    BY <1>2, <1>4 DEF JobInv
  <2>. QED  BY <1>3, <2>1, ModifyCovered
<1>7. ASSUME pc[a] = "page"
      PROVE  PageInv(j)'
  <2>0. PageInv(j)
    BY <1>2, <1>7 DEF JobInv
  <2>1. CASE j.full
    <3>1. FullProgress(j) /\ j.hi <= clock
      BY <1>4, <1>7, <2>0, <2>1 DEF PageInv
    <3>2. FullProgress(j)'
      BY <1>1, <1>3, <3>1 DEF FullProgress
    <3>. QED  BY <2>0, <2>1, <3>2 DEF PageInv
  <2>2. CASE ~j.full
    <3>1. WindowProgress(j) /\ j.hi <= clock
      BY <1>4, <1>7, <2>0, <2>2 DEF PageInv
    <3>2. WindowProgress(j)'
      BY <2>2, <3>1, ModifyWindow
    <3>. QED  BY <2>0, <2>2, <3>2 DEF PageInv
  <2>. QED  BY <2>1, <2>2
<1>8. pc'[a] = pc[a] /\ job'[a] = j /\ mark' = mark
  BY <1>1, <1>2
<1>. QED  BY <1>4, <1>5, <1>6, <1>7, <1>8 DEF JobInv

-----------------------------------------------------------------------------
(* Choose: the window starts before the watermark, and nothing is read yet.   *)
LEMMA ChooseJob ==
    ASSUME TypeOK, NEW a \in Callers, Choose(a)
    PROVE  JobInv(a)'
<1>1. /\ clock \in Nat /\ mark \in Int /\ mark <= clock
      /\ UNCHANGED <<clock, mod, got, mark>>
  BY NvdAssumption DEF Choose, TypeOK, NvdAssumption, upstream, rowVars
<1>2. pc'[a] = "page"
  BY DEF Choose, TypeOK
<1>3. PICK j : j = job'[a]
  OBVIOUS
<1>4. \A c \in CVEs : c \in Nat /\ c > 0
  BY DEF CVEs
<1>5. CASE j = FullLoad
  <2>1. /\ j \in Jobs /\ j.full /\ j.hi = clock /\ j.index = 0 /\ j.total = -1
    BY <1>5, FullLoadForm
  <2>2. InWindow(j)'
    BY <1>1, <2>1 DEF InWindow
  <2>3. FullProgress(j)'
    BY <1>4, <2>1 DEF FullProgress
  <2>. QED  BY <1>2, <1>3, <2>1, <2>2, <2>3 DEF JobInv, PageInv
<1>6. CASE mark # NoMark /\ j = Incremental(MinOf(mark, clock) - Overlap)
  <2>1. /\ ~j.full /\ j.lo <= mark /\ j.now = clock /\ mark <= j.hi /\ j.hi <= clock
        /\ j.index = 0 /\ j.total = -1
    BY <1>6, IncrementalForm
  <2>2. InWindow(j)'
    BY <1>1, <2>1 DEF InWindow
  <2>3. WindowProgress(j)'
    BY <2>1 DEF WindowProgress
  <2>. QED  BY <1>2, <1>3, <2>1, <2>2, <2>3 DEF JobInv, PageInv
<1>7. \/ j = FullLoad
      \/ mark # NoMark /\ j = Incremental(MinOf(mark, clock) - Overlap)
  BY <1>3 DEF Choose, TypeOK
<1>. QED  BY <1>5, <1>6, <1>7

(* What the page's positions cover is stored after it.                        *)
LEMMA FetchStores ==
    ASSUME TypeOK, NEW a \in Callers, FetchPage(a),
           NEW c \in Matching(job[a]),
           Rank(c, Matching(job[a])) <= job[a].index + Cardinality(Page(job[a])),
           Rank(c, Matching(job[a])) <= job[a].index => got[c] = mod[c]
    PROVE  got'[c] = mod[c]
<1> DEFINE j == job[a]
<1>1. j.index \in Nat
  BY DEF TypeOK, Jobs
<1>2. Cardinality(Page(j)) \in Nat /\ Cardinality(Page(j)) <= PageSize
      /\ Matching(j) \in SUBSET CVEs
  BY <1>1, PageFits
<1>3. c \in CVEs /\ Rank(c, Matching(j)) \in Nat
  BY <1>2, RankBounds
<1>4. got' = [d \in CVEs |-> IF d \in Page(j) THEN mod[d] ELSE got[d]]
  BY Zenon DEF FetchPage
<1>5. CASE Rank(c, Matching(j)) <= j.index
  BY <1>3, <1>4, <1>5
<1>6. CASE ~(Rank(c, Matching(j)) <= j.index)
  <2>1. PageSize \in Nat
    BY NvdAssumption DEF NvdAssumption
  <2>2. Rank(c, Matching(j)) \in j.index + 1 .. j.index + PageSize
    BY <1>1, <1>2, <1>3, <1>6, <2>1
  <2>3. c \in Page(j)
    BY <2>2 DEF Page
  <2>. QED  BY <1>3, <1>4, <2>3
<1>. QED  BY <1>5, <1>6

LEMMA FetchFull ==
    ASSUME TypeOK, InOrder, NEW a \in Callers, FetchPage(a), JobInv(a), job[a].full,
           NEW c \in CVEs, mod[c] > 0, mod[c] <= job[a].hi
    PROVE  LET j     == job[a]
               total == IF j.total = -1 THEN Cardinality(Matching(j)) ELSE j.total
               next  == j.index + Cardinality(Page(j))
           IN  (c <= next => got'[c] = mod[c]) /\ c <= total
<1> DEFINE j == job[a]
<1>1. pc[a] = "page"
  BY DEF FetchPage
<1>2. FullProgress(j)
  BY <1>1 DEF JobInv, PageInv
<1>3. c \in Matching(j)
  BY DEF Matching
<1>4. Rank(c, Matching(j)) = c
  BY <1>3, RankInOrder
<1>5. c <= j.index + Cardinality(Page(j)) => got'[c] = mod[c]
  BY <1>2, <1>3, <1>4, FetchStores DEF FullProgress
<1>6. Matching(j) \in SUBSET CVEs
  BY DEF Matching
<1>7. c <= Cardinality(Matching(j))
  BY <1>4, <1>6, RankBounds
<1>. QED  BY <1>2, <1>5, <1>7 DEF FullProgress

LEMMA FetchWindow ==
    ASSUME TypeOK, NEW a \in Callers, FetchPage(a), JobInv(a), ~job[a].full
    PROVE  LET j     == job[a]
               total == IF j.total = -1 THEN Cardinality(Matching(j)) ELSE j.total
               next  == j.index + Cardinality(Page(j))
           IN  /\ Cardinality(Matching(j)) <= total
               /\ Cardinality(Matching(j)) = total =>
                     \A c \in Matching(j) : Rank(c, Matching(j)) <= next => got'[c] = mod[c]
<1> DEFINE j == job[a]
<1>1. pc[a] = "page"
  BY DEF FetchPage
<1>2. WindowProgress(j) /\ (j.total = -1 => j.index = 0)
  BY <1>1 DEF JobInv, PageInv
<1>3. Matching(j) \in SUBSET CVEs
  BY DEF Matching
<1>4. Cardinality(Matching(j)) \in Nat
  BY <1>3, RankBounds
<1>5. CASE j.total = -1
  <2>1. ASSUME NEW c \in Matching(j)
        PROVE  ~(Rank(c, Matching(j)) <= j.index)
    <3>1. Rank(c, Matching(j)) \in Nat /\ Rank(c, Matching(j)) > 0
      BY <1>3, RankBounds
    <3>. QED  BY <1>2, <1>5, <3>1
  <2>. QED  BY <1>4, <1>5, <2>1, FetchStores
<1>6. CASE j.total # -1
  BY <1>2, <1>6, FetchStores DEF WindowProgress
<1>. QED  BY <1>5, <1>6

(* A load ends only when its result was the same from the first page to the   *)
(* last, or, a full one, when it has passed all that was there at its start.  *)
LEMMA FetchJob ==
    ASSUME TypeOK, InOrder, NEW a \in Callers, FetchPage(a), JobInv(a)
    PROVE  JobInv(a)'
<1>1. PICK j \in Jobs : j = job[a]
  BY DEF TypeOK
<1>2. PICK total, next :
        /\ total = IF j.total = -1 THEN Cardinality(Matching(j)) ELSE j.total
        /\ next = j.index + Cardinality(Page(j))
  OBVIOUS
<1>3. PICK k \in Jobs :
        /\ k = job'[a] /\ total \in Nat /\ next \in Nat
        /\ k = [j EXCEPT !.index = next, !.total = total]
        /\ pc'[a] = IF next >= total THEN AfterLoad(a) ELSE "page"
        /\ total > 0 => Page(j) # {}
  BY <1>1, <1>2, FetchForm
<1>4. /\ k.full = j.full /\ k.lo = j.lo /\ k.hi = j.hi /\ k.now = j.now
      /\ k.index = next /\ k.total = total
  BY <1>3 DEF Jobs
<1>5. pc[a] = "page" /\ UNCHANGED <<clock, mod, mark>>
  BY DEF FetchPage, upstream, rowVars
<1>6. InWindow(k)'
  BY <1>1, <1>4, <1>5 DEF JobInv, InWindow
<1>7. CASE j.full
  <2>1. ASSUME NEW c \in CVEs, mod[c] > 0, mod[c] <= j.hi
        PROVE  (c <= next => got'[c] = mod[c]) /\ c <= total
    BY <1>1, <1>2, <1>7, <2>1, FetchFull
  <2>2. CASE next >= total
    <3>1. \A c \in CVEs : c \in Nat
      BY DEF CVEs
    <3>2. Covered(1, k.hi)'
      BY <1>3, <1>4, <1>5, <2>1, <2>2, <3>1 DEF Covered, TypeOK
    <3>3. pc'[a] = "finish"
      BY <1>1, <1>3, <1>7, <2>2 DEF AfterLoad
    <3>. QED  BY <1>3, <1>4, <1>6, <1>7, <3>2, <3>3 DEF JobInv
  <2>3. CASE ~(next >= total)
    <3>1. FullProgress(k)'
      BY <1>4, <1>5, <2>1 DEF FullProgress
    <3>2. pc'[a] = "page" /\ next < total /\ total # -1
      BY <1>3, <2>3
    <3>. QED  BY <1>3, <1>4, <1>6, <1>7, <3>1, <3>2 DEF JobInv, PageInv
  <2>. QED  BY <2>2, <2>3
<1>8. CASE ~j.full
  <2> DEFINE M == Matching(j)
  <2>1. /\ Cardinality(M) <= total
        /\ Cardinality(M) = total => \A c \in M : Rank(c, M) <= next => got'[c] = mod[c]
    BY <1>1, <1>2, <1>8, FetchWindow
  <2>2. M \in SUBSET CVEs
    BY DEF Matching
  <2>3. IsFiniteSet(M) /\ Cardinality(M) \in Nat
    BY <2>2, RankBounds
  <2>4. CASE next >= total
    <3>1. ASSUME NEW c \in M
          PROVE  got'[c] = mod[c]
      <4>1. Cardinality(M) # 0
        BY <2>3, <3>1, FS_EmptySet
      <4>2. total > 0
        <5> HIDE DEF M
        <5>. QED  BY <1>3, <2>1, <2>3, <4>1
      <4>3. next <= Cardinality(M)
        <5>1. j.index \in Nat /\ Page(j) # {}
          BY <1>3, <4>2 DEF Jobs
        <5>. QED  BY <1>2, <5>1, PageFits
      <4>4. Cardinality(M) = total /\ Cardinality(M) = next
        <5> HIDE DEF M
        <5>. QED  BY <1>3, <2>1, <2>3, <2>4, <4>3
      <4>5. Rank(c, M) <= next
        <5> HIDE DEF M
        <5>. QED  BY <2>2, <3>1, <4>4, RankBounds
      <4>. QED  BY <2>1, <3>1, <4>4, <4>5
    <3>2. Covered(k.lo, k.hi)'
      <4> SUFFICES ASSUME NEW c \in CVEs, mod'[c] > 0, k.lo <= mod'[c], mod'[c] <= k.hi
                   PROVE  got'[c] = mod'[c]
        BY DEF Covered
      <4>1. mod[c] \in Int /\ j.lo \in Int /\ j.hi \in Int
        BY NvdAssumption DEF TypeOK, Jobs, NvdAssumption
      <4>2. c \in M
        BY <1>4, <1>5, <1>8, <4>1 DEF Matching
      <4>. QED  BY <1>5, <3>1, <4>2
    <3>3. pc'[a] = "checkpoint"
      BY <1>1, <1>3, <1>8, <2>4 DEF AfterLoad
    <3>. QED  BY <1>3, <1>4, <1>6, <1>8, <3>2, <3>3 DEF JobInv
  <2>5. CASE ~(next >= total)
    <3>1. Matching(k)' = M
      BY <1>4, <1>5 DEF Matching
    <3>2. WindowProgress(k)'
      BY <1>4, <1>5, <2>1, <3>1 DEF WindowProgress, Rank
    <3>3. pc'[a] = "page" /\ next < total /\ total # -1
      BY <1>3, <2>5
    <3>. QED  BY <1>3, <1>4, <1>6, <1>8, <3>2, <3>3 DEF JobInv, PageInv
  <2>. QED  BY <2>4, <2>5
<1>. QED  BY <1>7, <1>8

(* The end of a window becomes the watermark, and the next one starts there.  *)
LEMMA CheckpointJob ==
    ASSUME TypeOK, NEW a \in Callers, Checkpoint(a), JobInv(a)
    PROVE  JobInv(a)'
<1>1. PICK j \in Jobs : j = job[a]
  BY DEF TypeOK
<1>2. /\ ~j.full /\ j.hi \in Nat /\ j.now \in Nat
      /\ j.lo <= mark /\ mark <= j.hi /\ j.hi <= j.now /\ j.now <= clock
      /\ mark' = j.hi /\ UNCHANGED clock
      /\ \/ pc'[a] = "finish" /\ job'[a] = j
         \/ pc'[a] = "page" /\ job'[a] = NextWindow(j)
  BY <1>1, CheckpointForm DEF Checkpoint, upstream
<1>3. clock \in Nat /\ mark \in Int /\ j.lo \in Int
  BY NvdAssumption DEF TypeOK, Jobs, NvdAssumption
<1>4. CASE pc'[a] = "finish" /\ job'[a] = j
  <2>1. InWindow(j)'
    BY <1>2, <1>3 DEF InWindow
  <2>. QED  BY <1>2, <1>4, <2>1 DEF JobInv
<1>5. CASE pc'[a] = "page" /\ job'[a] = NextWindow(j)
  <2>1. PICK k \in Jobs :
          /\ k = job'[a] /\ k.full = j.full /\ k.lo = j.hi /\ k.now = j.now
          /\ j.hi <= k.hi /\ k.hi <= j.now /\ k.index = 0 /\ k.total = -1
    BY <1>2, <1>5, NextWindowForm
  <2>2. k.hi \in Nat
    BY DEF Jobs
  <2>3. InWindow(k)'
    BY <1>2, <1>3, <2>1, <2>2 DEF InWindow
  <2>4. WindowProgress(k)'
    BY <2>1 DEF WindowProgress
  <2>. QED  BY <1>2, <1>5, <2>1, <2>3, <2>4 DEF JobInv, PageInv
<1>. QED  BY <1>2, <1>4, <1>5

(* Every step keeps the facts of every run: the other callers have none.      *)
LEMMA JobStep ==
    ASSUME TypeOK, OneRunAtATime, InOrder, \A a \in Callers : JobInv(a), [Next]_vars,
           NEW b \in Callers
    PROVE  JobInv(b)'
<1>1. ASSUME NEW a \in Callers, a # b, pc[a] # "idle", pc'[b] = pc[b]
      PROVE  JobInv(b)'
  <2>1. pc'[b] = "idle"
    BY <1>1 DEF OneRunAtATime
  <2>. QED  BY <2>1, IdleKeeps
<1>2. ASSUME NEW c \in CVEs, Modify(c)
      PROVE  JobInv(b)'
  BY <1>2, ModifyJob
<1>3. ASSUME NEW a \in Callers, NEW full \in BOOLEAN, Trigger(a, full)
      PROVE  JobInv(b)'
  <2>1. /\ \A x \in Callers : pc[x] = "idle"
        /\ pc' = [pc EXCEPT ![a] = "begin"]
    BY <1>3 DEF Trigger, OneRunAtATime
  <2>2. pc'[b] \in {"begin", "idle"}
    BY <2>1 DEF TypeOK
  <2>. QED  BY <2>2, IdleKeeps
<1>4. ASSUME NEW a \in Callers, Begin(a) \/ Finish(a)
      PROVE  JobInv(b)'
  <2>1. /\ pc[a] # "idle"
        /\ \/ pc' = [pc EXCEPT ![a] = "choose"]
           \/ pc' = [pc EXCEPT ![a] = "report"]
    BY <1>4 DEF Begin, Finish
  <2>2. CASE a = b
    BY <2>1, <2>2, IdleKeeps DEF TypeOK
  <2>3. CASE a # b
    BY <1>1, <2>1, <2>3 DEF TypeOK
  <2>. QED  BY <2>2, <2>3
<1>5. ASSUME NEW a \in Callers, Choose(a)
      PROVE  JobInv(b)'
  <2>1. CASE a = b
    BY <1>5, <2>1, ChooseJob
  <2>2. CASE a # b
    BY <1>1, <1>5, <2>2 DEF Choose, TypeOK
  <2>. QED  BY <2>1, <2>2
<1>6. ASSUME NEW a \in Callers, FetchPage(a)
      PROVE  JobInv(b)'
  <2>1. CASE a = b
    BY <1>6, <2>1, FetchJob
  <2>2. CASE a # b
    <3>1. pc'[b] = pc[b] /\ pc[a] # "idle"
      BY <1>6, <2>2, FetchForm DEF FetchPage
    <3>. QED  BY <1>1, <2>2, <3>1
  <2>. QED  BY <2>1, <2>2
<1>7. ASSUME NEW a \in Callers, Checkpoint(a)
      PROVE  JobInv(b)'
  <2>1. CASE a = b
    BY <1>7, <2>1, CheckpointJob
  <2>2. CASE a # b
    <3>1. pc'[b] = pc[b] /\ pc[a] # "idle"
      BY <1>7, <2>2, CheckpointForm DEF Checkpoint
    <3>. QED  BY <1>1, <2>2, <3>1
  <2>. QED  BY <2>1, <2>2
<1>8. ASSUME NEW a \in Callers, FetchNothing(a) \/ Report(a) \/ Fail(a)
      PROVE  JobInv(b)'
  <2>1. pc[a] # "idle" /\ Release(a)
    BY <1>8 DEF FetchNothing, Report, Fail
  <2>2. pc'[a] = "idle" /\ (a # b => pc'[b] = pc[b])
    BY <2>1, ReleaseForm
  <2>. QED  BY <1>1, <2>1, <2>2, IdleKeeps
<1>9. CASE Stop
  <2>1. pc'[b] = "idle"
    BY <1>9 DEF Stop
  <2>. QED  BY <2>1, IdleKeeps
<1>10. CASE Start \/ UNCHANGED vars
  <2>1. UNCHANGED <<clock, mod, got, mark, pc, job>>
    BY <1>10 DEF Start, vars, upstream, rowVars
  <2>. QED
    BY <2>1 DEF JobInv, InWindow, PageInv, FullProgress, WindowProgress, Covered, Matching, Rank
<1>. QED  BY <1>2, <1>3, <1>4, <1>5, <1>6, <1>7, <1>8, <1>9, <1>10 DEF Next, Run, Step

-----------------------------------------------------------------------------
(* No step of a synchronisation moves the watermark past a modification it    *)
(* has not stored.                                                            *)
LEMMA NothingSkippedStep ==
    ASSUME IInv, [Next]_vars
    PROVE  NothingSkipped'
<1>1. /\ TypeOK /\ RowKnown /\ NothingSkipped /\ \A a \in Callers : JobInv(a)
      /\ clock \in Nat /\ mark \in Int
      /\ \A c \in CVEs : mod[c] \in Nat /\ mod[c] <= clock /\ got[c] \in Nat
  BY NvdAssumption DEF IInv, TypeOK, NvdAssumption
<1>2. ASSUME NEW c \in CVEs, Modify(c)
      PROVE  NothingSkipped'
  <2>1. /\ UNCHANGED <<got, mark, complete>> /\ mark <= clock
        /\ \A d \in CVEs : mod'[d] = IF d = c THEN clock + 1 ELSE mod[d]
    BY <1>1, <1>2 DEF Modify, TypeOK, rowVars, histVars
  <2>. QED  BY <1>1, <2>1 DEF NothingSkipped
<1>3. ASSUME NEW a \in Callers, Begin(a)
      PROVE  NothingSkipped'
  <2>1. UNCHANGED <<mod, got, complete>> /\ (complete => mark' = mark)
    BY <1>1, <1>3 DEF Begin, RowKnown, upstream, histVars
  <2>. QED  BY <1>1, <2>1 DEF NothingSkipped
<1>4. ASSUME NEW a \in Callers, FetchPage(a)
      PROVE  NothingSkipped'
  <2>1. /\ got' = [c \in CVEs |-> IF c \in Page(job[a]) THEN mod[c] ELSE got[c]]
        /\ UNCHANGED <<mod, mark, complete>>
    BY <1>4 DEF FetchPage, upstream, rowVars, histVars
  <2>. QED  BY <1>1, <2>1 DEF NothingSkipped
<1>5. ASSUME NEW a \in Callers, Checkpoint(a)
      PROVE  NothingSkipped'
  <2>1. PICK lo \in Int, hi \in Nat :
          lo = job[a].lo /\ hi = job[a].hi
    BY <1>1 DEF TypeOK, Jobs
  <2>2. lo <= mark /\ mark' = hi /\ Covered(lo, hi)
    BY <1>1, <1>5, <2>1, CheckpointForm
  <2>3. UNCHANGED <<mod, got, complete>>
    BY <1>5 DEF Checkpoint, upstream, histVars
  <2>4. ASSUME complete, NEW c \in CVEs, mod[c] > 0, mod[c] <= hi
        PROVE  got[c] = mod[c]
    <3>1. CASE mod[c] <= mark
      BY <1>1, <2>4, <3>1 DEF NothingSkipped
    <3>2. CASE ~(mod[c] <= mark)
      BY <1>1, <2>2, <2>4, <3>2 DEF Covered
    <3>. QED  BY <3>1, <3>2
  <2>. QED  BY <2>2, <2>3, <2>4 DEF NothingSkipped
<1>6. ASSUME NEW a \in Callers, Finish(a)
      PROVE  NothingSkipped'
  <2>1. /\ pc[a] = "finish" /\ mark' = job[a].hi
        /\ complete' = (complete \/ job[a].full) /\ UNCHANGED <<mod, got>>
    BY <1>6 DEF Finish, upstream
  <2>2. IF job[a].full THEN Covered(1, job[a].hi) ELSE mark = job[a].hi
    BY <1>1, <2>1 DEF JobInv
  <2>3. CASE job[a].full
    <3>1. \A c \in CVEs : mod[c] > 0 /\ mod[c] <= mark' => got[c] = mod[c]
      BY <1>1, <2>1, <2>2, <2>3 DEF Covered
    <3>. QED  BY <2>1, <3>1 DEF NothingSkipped
  <2>4. CASE ~job[a].full
    BY <1>1, <2>1, <2>2, <2>4 DEF NothingSkipped
  <2>. QED  BY <2>3, <2>4
<1>7. CASE UNCHANGED <<mod, got, mark, complete>>
  BY <1>1, <1>7 DEF NothingSkipped
<1>. QED
  BY <1>2, <1>3, <1>4, <1>5, <1>6, <1>7
     DEF Next, Run, Step, Trigger, Choose, FetchNothing, Report, Fail, Stop, Start,
         vars, upstream, rowVars, histVars

(* No step of a synchronisation moves the watermark back.                     *)
LEMMA MarkStep ==
    ASSUME IInv, [Next]_vars
    PROVE  mark' >= mark
<1>1. /\ TypeOK /\ \A a \in Callers : JobInv(a)
      /\ clock \in Nat /\ mark \in Int /\ mark <= clock
  BY NvdAssumption DEF IInv, TypeOK, NvdAssumption
<1>2. ASSUME NEW a \in Callers, Begin(a)
      PROVE  mark' >= mark
  BY <1>1, <1>2 DEF Begin
<1>3. ASSUME NEW a \in Callers, Checkpoint(a) \/ Finish(a)
      PROVE  mark' >= mark
  <2>1. InWindow(job[a]) /\ mark' = job[a].hi /\ job[a].hi \in Nat
    BY <1>1, <1>3 DEF Checkpoint, Finish, JobInv, TypeOK, Jobs
  <2>. QED  BY <1>1, <2>1 DEF InWindow
<1>4. CASE UNCHANGED mark
  BY <1>1, <1>4
<1>. QED
  BY <1>2, <1>3, <1>4
     DEF Next, Run, Step, Modify, Trigger, Choose, FetchPage, FetchNothing, Report, Fail,
         Stop, Start, vars, rowVars

-----------------------------------------------------------------------------
(* The results *)

(* A new installation, and one whose full load has completed, are in order.   *)
LEMMA InitInv == Init => IInv
<1> SUFFICES ASSUME Init
             PROVE  IInv
  OBVIOUS
<1>1. TypeOK
  BY TypeInit
<1>2. OneRunAtATime
  BY DEF Init, OneRunAtATime
<1>3. InOrder
  <2>1. \A c \in CVEs : c \in Nat /\ c >= 1
    BY DEF CVEs
  <2>. QED  BY <2>1 DEF Init, InOrder
<1>4. RowKnown /\ NothingSkipped
  BY DEF Init, Fresh, AfterFullLoad, RowKnown, NothingSkipped
<1>5. \A a \in Callers : JobInv(a)
  BY DEF Init, JobInv
<1>. QED  BY <1>1, <1>2, <1>3, <1>4, <1>5 DEF IInv

(* Every step of the scheduler, of a run, of the catalogue and of the process *)
(* keeps the inductive invariant.                                             *)
LEMMA StepInv == IInv /\ [Next]_vars => IInv'
<1> SUFFICES ASSUME IInv, [Next]_vars
             PROVE  IInv'
  OBVIOUS
<1>1. /\ TypeOK /\ OneRunAtATime /\ InOrder /\ RowKnown
      /\ \A a \in Callers : JobInv(a)
  BY DEF IInv
<1>2. TypeOK' /\ OneRunAtATime'
  BY <1>1, TypeStep, OneRunStep
<1>3. InOrder' /\ RowKnown'
  BY <1>1, OrderStep
<1>4. \A b \in Callers : JobInv(b)'
  BY <1>1, JobStep
<1>5. NothingSkipped'
  BY NothingSkippedStep
<1>. QED  BY <1>2, <1>3, <1>4, <1>5 DEF IInv

(* The inductive invariant holds of every reachable state.                    *)
THEOREM Invariance == Spec => []IInv
  BY InitInv, StepInv, PTL DEF Spec

(* The row of sync_status, table nvd_cves and the locals of a run keep their  *)
(* types: in particular the watermark is never later than the present, so no  *)
(* window of runIncremental ends in the future.                               *)
THEOREM TypeCorrect == Spec => []TypeOK
<1>1. IInv => TypeOK
  BY DEF IInv
<1>. QED  BY <1>1, Invariance, PTL

(* runIfNotRunning: whatever triggers them, two runs of one source never      *)
(* overlap, and the mark is there exactly while one is in progress.           *)
THEOREM NeverTwoRuns == Spec => []OneRunAtATime
<1>1. IInv => OneRunAtATime
  BY DEF IInv
<1>. QED  BY <1>1, Invariance, PTL

(* Once a full load has completed, what was modified up to the watermark is   *)
(* stored: the windows of runIncremental, the pages of fetchAndStore and the  *)
(* checkpoints skip nothing, for any page size, overlap, range, any number of *)
(* modifications under the load, of failures and of stops.                    *)
THEOREM NothingIsSkipped == Spec => []NothingSkipped
<1>1. IInv => NothingSkipped
  BY DEF IInv
<1>. QED  BY <1>1, Invariance, PTL

(* Neither a checkpoint, nor the end of a load, nor the row RunSync inserts   *)
(* moves last_sync_at back, although every incremental window starts before.  *)
THEOREM WatermarkIsMonotone == Spec => WatermarkNeverRetreats
<1>1. IInv /\ [Next]_vars => [mark' >= mark]_vars
  BY MarkStep
<1>. QED  BY <1>1, Invariance, PTL DEF Spec, WatermarkNeverRetreats
============================================================================
