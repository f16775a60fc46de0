---------------------------- MODULE PagesProofs ----------------------------
(***************************************************************************)
(* For any number of records, projects and findings, and pages of any      *)
(* length: the shutdown drains the queue of the audit log, its readers     *)
(* miss nothing but what comes behind them, and the lists of projects and  *)
(* of findings are whole, with true counts.                                *)
(***************************************************************************)
EXTENDS AuditTrail, ProjectList, Listing, FiniteSetTheorems, TLAPS

-----------------------------------------------------------------------------
(* Orders: what a query sorts by *)

TotalOrder(S, R) ==
    /\ \A p \in S : <<p, p>> \notin R
    /\ \A p, q \in S : p = q \/ <<p, q>> \in R \/ <<q, p>> \in R
    /\ \A p, q, r \in S : <<p, q>> \in R /\ <<q, r>> \in R => <<p, r>> \in R

\* s lists S in that order.
ListedBy(s, S, R) ==
    /\ s \in [1..Cardinality(S) -> S]
    /\ \A i, j \in 1..Cardinality(S) : i < j => <<s[i], s[j]>> \in R

\* The place of p among S: one more than those before it.
Before(S, R, p) == {q \in S : <<q, p>> \in R}
PlaceIn(S, R, p) == Cardinality(Before(S, R, p)) + 1

(* Rows that sort after others have a higher place, and every place is taken: *)
(* there are as many as rows.                                                 *)
LEMMA PlacesAreTaken ==
    ASSUME NEW S, IsFiniteSet(S), NEW R, TotalOrder(S, R)
    PROVE  /\ \A p \in S : PlaceIn(S, R, p) \in 1..Cardinality(S)
           /\ \A p, q \in S : <<p, q>> \in R <=> PlaceIn(S, R, p) < PlaceIn(S, R, q)
           /\ \A i \in 1..Cardinality(S) : \E p \in S : PlaceIn(S, R, p) = i
<1>1. Cardinality(S) \in Nat
  BY FS_CardinalityType
<1>2. ASSUME NEW p \in S
      PROVE  PlaceIn(S, R, p) \in 1..Cardinality(S)
  <2>1. Before(S, R, p) \in SUBSET S /\ p \notin Before(S, R, p)
    BY DEF Before, TotalOrder
  <2>2. /\ IsFiniteSet(Before(S, R, p)) /\ Cardinality(Before(S, R, p)) <= Cardinality(S)
        /\ Cardinality(S) = Cardinality(Before(S, R, p)) => S = Before(S, R, p)
    BY <2>1, FS_Subset
  <2>3. Cardinality(Before(S, R, p)) \in Nat /\ Cardinality(S) # Cardinality(Before(S, R, p))
    BY <2>1, <2>2, FS_CardinalityType
  <2>. QED  BY <1>1, <2>2, <2>3 DEF PlaceIn
<1>3. ASSUME NEW p \in S, NEW q \in S, <<p, q>> \in R
      PROVE  PlaceIn(S, R, p) < PlaceIn(S, R, q)
  <2>1. Before(S, R, p) \in SUBSET Before(S, R, q) /\ p \in Before(S, R, q)
        /\ p \notin Before(S, R, p)
    BY <1>3 DEF Before, TotalOrder
  <2>2. IsFiniteSet(Before(S, R, q))
    BY FS_Subset DEF Before
  <2>3. /\ Cardinality(Before(S, R, p)) <= Cardinality(Before(S, R, q))
        /\ Cardinality(Before(S, R, q)) # Cardinality(Before(S, R, p))
    BY <2>1, <2>2, FS_Subset
  <2>4. Cardinality(Before(S, R, p)) \in Nat /\ Cardinality(Before(S, R, q)) \in Nat
    BY <2>1, <2>2, FS_Subset, FS_CardinalityType
  <2>. QED  BY <2>3, <2>4 DEF PlaceIn
<1>4. ASSUME NEW p \in S, NEW q \in S, PlaceIn(S, R, p) < PlaceIn(S, R, q)
      PROVE  <<p, q>> \in R
  <2>1. p # q /\ ~(PlaceIn(S, R, q) < PlaceIn(S, R, p))
    BY <1>2, <1>4
  <2>. QED  BY <1>3, <2>1 DEF TotalOrder
<1> DEFINE rank == [p \in S |-> PlaceIn(S, R, p)]
<1>5. rank \in Injection(S, 1..Cardinality(S))
  <2>1. rank \in [S -> 1..Cardinality(S)] /\ \A p \in S : rank[p] = PlaceIn(S, R, p)
    BY <1>2
  <2> HIDE DEF rank
  <2>2. ASSUME NEW p \in S, NEW q \in S, rank[p] = rank[q]
        PROVE  p = q
    <3>1. PlaceIn(S, R, p) = PlaceIn(S, R, q) /\ PlaceIn(S, R, p) \in Int
      BY <1>2, <2>1, <2>2
    <3>2. <<p, q>> \notin R /\ <<q, p>> \notin R
      BY <1>3, <3>1
    <3>. QED  BY <3>2 DEF TotalOrder
  <2>. QED  BY <2>1, <2>2 DEF Injection, IsInjective
<1>6. rank \in Surjection(S, 1..Cardinality(S))
  <2>1. IsFiniteSet(1..Cardinality(S)) /\ Cardinality(1..Cardinality(S)) = Cardinality(S)
    BY <1>1, FS_Interval
  <2> HIDE DEF rank
  <2>. QED  BY <1>5, <2>1, FS_Injection
<1>7. \A i \in 1..Cardinality(S) : \E p \in S : rank[p] = i
  <2> HIDE DEF rank
  <2>. QED  BY <1>6 DEF Surjection
<1>. QED  BY <1>2, <1>3, <1>4, <1>7

\* all is the m lines and after them the n rows.
Appended(lines, rows, m, n, all) ==
    /\ m \in Nat /\ n \in Nat /\ DOMAIN all = 1..m + n
    /\ \A k \in 1..m : all[k] = lines[k]
    /\ \A k \in m + 1..m + n : all[k] = rows[k - m] /\ k - m \in 1..n

(* A reader adds the rows of a page to the lines it has.                      *)
LEMMA LinesAppended ==
    ASSUME NEW S, NEW lines \in Seq(S), NEW rows \in Seq(S)
    PROVE  Appended(lines, rows, Len(lines), Len(rows), lines \o rows)
           /\ lines \o rows \in Seq(S) /\ Len(lines \o rows) = Len(lines) + Len(rows)
<1>1. /\ lines \o rows \in Seq(S) /\ Len(lines \o rows) = Len(lines) + Len(rows)
      /\ Len(lines) \in Nat /\ Len(rows) \in Nat
  OBVIOUS
<1>2. DOMAIN (lines \o rows) = 1..Len(lines) + Len(rows)
  BY <1>1
<1>3. \A k \in 1..Len(lines) : (lines \o rows)[k] = lines[k]
  BY <1>1
<1>4. \A k \in Len(lines) + 1..Len(lines) + Len(rows) :
        (lines \o rows)[k] = rows[k - Len(lines)] /\ k - Len(lines) \in 1..Len(rows)
  BY <1>1
<1>. QED  BY <1>1, <1>2, <1>3, <1>4 DEF Appended

(* Finitely many rows can be listed in their order.                           *)
LEMMA OrderLists ==
    ASSUME NEW S, IsFiniteSet(S), NEW R, TotalOrder(S, R)
    PROVE  \E s : ListedBy(s, S, R)
<1> DEFINE s == [i \in 1..Cardinality(S) |-> CHOOSE p \in S : PlaceIn(S, R, p) = i]
<1>1. \A i \in 1..Cardinality(S) : s[i] \in S /\ PlaceIn(S, R, s[i]) = i
  BY PlacesAreTaken
<1>2. s \in [1..Cardinality(S) -> S]
  BY <1>1
<1> HIDE DEF s
<1>3. \A i, j \in 1..Cardinality(S) : i < j => <<s[i], s[j]>> \in R
  BY <1>1, PlacesAreTaken
<1>. QED  BY <1>2, <1>3 DEF ListedBy

(* A list in order is of all rows, if it is as long as they are many.         *)
LEMMA OrderListsAll ==
    ASSUME NEW S, IsFiniteSet(S), NEW R, TotalOrder(S, R),
           NEW s, ListedBy(s, S, R)
    PROVE  /\ s \in Seq(S) /\ Len(s) = Cardinality(S)
           /\ \A p \in S : \E i \in 1..Len(s) : s[i] = p
<1>1. Cardinality(S) \in Nat
  BY FS_CardinalityType
<1>2. s \in Seq(S) /\ Len(s) = Cardinality(S)
  BY <1>1 DEF ListedBy
<1>3. \A i, j \in 1..Cardinality(S) : s[i] = s[j] => i = j
  <2> SUFFICES ASSUME NEW i \in 1..Cardinality(S), NEW j \in 1..Cardinality(S), i # j
               PROVE  s[i] # s[j]
    OBVIOUS
  <2>1. i < j \/ j < i
    BY <1>1
  <2>2. s[i] \in S /\ s[j] \in S /\ (<<s[i], s[j]>> \in R \/ <<s[j], s[i]>> \in R)
    BY <2>1 DEF ListedBy
  <2>. QED  BY <2>2 DEF TotalOrder
<1>4. s \in Injection(1..Cardinality(S), S)
  BY <1>3 DEF Injection, IsInjective, ListedBy
<1>5. s \in Surjection(1..Cardinality(S), S)
  BY <1>1, <1>4, FS_Interval, FS_Injection
<1>. QED  BY <1>2, <1>5 DEF Surjection

-----------------------------------------------------------------------------
(* Pages: the operators of ORDER BY and LIMIT                              *)

Increasing(s) == \A i, j \in DOMAIN s : i < j => s[i] < s[j]
Decreasing(s) == \A i, j \in DOMAIN s : i < j => s[i] > s[j]

(* The sets of records that a query selects from are finite.                  *)
LEMMA RecordsFinite ==
    ASSUME NEW S \in SUBSET Records
    PROVE  IsFiniteSet(S) /\ Cardinality(S) \in Nat
<1>1. IsFiniteSet(Records)
  BY AuditAssumption, FS_Interval DEF Records
<1>2. IsFiniteSet(S)
  BY <1>1, FS_Subset
<1>. QED  BY <1>2, FS_CardinalityType

(* A set of records can be listed from its first.                             *)
LEMMA AscendingExists ==
    ASSUME NEW S \in SUBSET Records
    PROVE  \E s \in [1..Cardinality(S) -> S] : Increasing(s)
<1> DEFINE R == {e \in S \X S : e[1] < e[2]}
<1>1. \A n \in S : n \in Int
  BY AuditAssumption DEF Records
<1>2. \A m, n \in S : <<m, n>> \in R <=> m < n
  OBVIOUS
<1> HIDE DEF R
<1>3. TotalOrder(S, R)
  BY <1>1, <1>2 DEF TotalOrder
<1>4. PICK s : ListedBy(s, S, R)
  BY <1>3, RecordsFinite, OrderLists
<1>. QED  BY <1>2, <1>4 DEF ListedBy, Increasing

(* Of some records of the log one has the fewest after it: a set of naturals  *)
(* has a least element.                                                       *)
LEMMA LeastDepth ==
    ASSUME NEW T \in SUBSET Nat, T # {}
    PROVE  \E m \in T : \A k \in T : m <= k
<1> DEFINE R == {p \in Nat \X Nat : p[1] < p[2]}
<1>1. OpToRel(<, Nat) = R
  BY Zenon DEF OpToRel
<1>2. IsWellFoundedOn(R, Nat)
  BY <1>1, NatLessThanWellFounded, Zenon
<1>3. ASSUME NEW k \in Nat, NEW m \in Nat, k < m
      PROVE  <<k, m>> \in R
  <2>1. <<k, m>> \in Nat \X Nat /\ <<k, m>>[1] < <<k, m>>[2]
    BY <1>3
  <2>. QED  BY <2>1
<1> HIDE DEF R
<1>4. PICK m \in T : \A k \in T : ~ (<<k, m>> \in R)
  BY <1>2, WFMin
<1>5. ASSUME NEW k \in T
      PROVE  m <= k
  <2>1. k \in Nat /\ m \in Nat /\ ~(k < m)
    BY <1>3, <1>4
  <2>. QED  BY <2>1
<1>. QED  BY <1>5

(* A set of records is listed by a function that puts each where its order    *)
(* says; it takes each value, there being as many places as values.           *)
LEMMA ListsAll ==
    ASSUME NEW S \in SUBSET Records, NEW s \in [1..Cardinality(S) -> S],
           Increasing(s) \/ Decreasing(s)
    PROVE  s \in Seq(S) /\ Len(s) = Cardinality(S) /\ Range(s) = S
<1>1. IsFiniteSet(S) /\ Cardinality(S) \in Nat
  BY RecordsFinite
<1>2. s \in Seq(S) /\ Len(s) = Cardinality(S)
  BY <1>1
<1>3. \A n \in S : n \in Int
  BY AuditAssumption DEF Records
<1>4. \A i, j \in 1..Cardinality(S) : s[i] = s[j] => i = j
  <2> SUFFICES ASSUME NEW i \in 1..Cardinality(S), NEW j \in 1..Cardinality(S), i # j
               PROVE  s[i] # s[j]
    OBVIOUS
  <2>1. i < j \/ j < i
    BY <1>1
  <2>2. s[i] < s[j] \/ s[i] > s[j] \/ s[j] < s[i] \/ s[j] > s[i]
    BY <2>1 DEF Increasing, Decreasing
  <2>. QED  BY <1>3, <2>2
<1>5. s \in Injection(1..Cardinality(S), S)
  BY <1>4 DEF Injection, IsInjective
<1>6. Cardinality(1..Cardinality(S)) = Cardinality(S)
  BY <1>1, FS_Interval
<1>7. s \in Surjection(1..Cardinality(S), S)
  BY <1>1, <1>5, <1>6, FS_Injection
<1>8. Range(s) = S
  BY <1>7 DEF Surjection, Range
<1>. QED  BY <1>2, <1>8

(* ORDER BY created_at gives every record of a set, in its order.             *)
LEMMA AscendingLists ==
    ASSUME NEW S \in SUBSET Records
    PROVE  /\ Ascending(S) \in Seq(S) /\ Len(Ascending(S)) = Cardinality(S)
           /\ Increasing(Ascending(S)) /\ Range(Ascending(S)) = S
<1>1. PICK s \in [1..Cardinality(S) -> S] : Increasing(s)
  BY AscendingExists
<1>2. Ascending(S) \in [1..Cardinality(S) -> S] /\ Increasing(Ascending(S))
  BY <1>1, Zenon DEF Ascending, Increasing
<1>. QED  BY <1>2, ListsAll

(* ORDER BY created_at DESC gives every record of a set, the last one first.  *)
LEMMA DescendingLists ==
    ASSUME NEW S \in SUBSET Records
    PROVE  /\ Descending(S) \in Seq(S) /\ Len(Descending(S)) = Cardinality(S)
           /\ Decreasing(Descending(S)) /\ Range(Descending(S)) = S
<1>1. PICK s \in [1..Cardinality(S) -> S] : Increasing(s)
  BY AscendingExists
<1> DEFINE N == Cardinality(S)
           back == [i \in 1..N |-> s[N + 1 - i]]
<1>2. N \in Nat /\ \A n \in S : n \in Int
  BY RecordsFinite, AuditAssumption DEF Records
<1>3. \A i \in 1..N : N + 1 - i \in 1..N
  BY <1>2
<1>4. back \in [1..N -> S]
  BY <1>3
<1>5. Decreasing(back)
  <2>1. ASSUME NEW i \in 1..N, NEW j \in 1..N, i < j
        PROVE  back[i] > back[j]
    <3>1. N + 1 - j \in 1..N /\ N + 1 - i \in 1..N /\ N + 1 - j < N + 1 - i
      BY <1>2, <1>3, <2>1
    <3>2. s[N + 1 - j] < s[N + 1 - i] /\ s[N + 1 - j] \in S /\ s[N + 1 - i] \in S
      BY <1>1, <3>1 DEF Increasing
    <3>. QED  BY <1>2, <3>2
  <2>. QED  BY <2>1 DEF Decreasing
<1> HIDE DEF back, N
<1>6. Descending(S) \in [1..Cardinality(S) -> S] /\ Decreasing(Descending(S))
  BY <1>4, <1>5, Zenon DEF Descending, Decreasing, N
<1>. QED  BY <1>6, ListsAll

(* ListAfter leaves out no record before the last one it gives: LIMIT cuts at *)
(* the end of the order.                                                      *)
LEMMA LowestPage ==
    ASSUME NEW S \in SUBSET Records, NEW limit \in Nat
    PROVE  /\ Lowest(S, limit) \in Seq(S) /\ Increasing(Lowest(S, limit))
           /\ \A n \in S, i \in 1..Len(Lowest(S, limit)) :
                n <= Lowest(S, limit)[i] => n \in Range(Lowest(S, limit))
<1> DEFINE Below(n) == {m \in S : m < n}
           T == {n \in S : Cardinality(Below(n)) < limit}
<1>1. T \in SUBSET Records /\ T \in SUBSET S /\ Lowest(S, limit) = Ascending(T)
  BY DEF Lowest
<1>2. \A n \in S : n \in Int
  BY AuditAssumption DEF Records
<1>3. ASSUME NEW n \in S, NEW t \in T, n <= t
      PROVE  n \in T
  <2>1. Below(t) \in SUBSET Records /\ Below(n) \in SUBSET Below(t) /\ Below(n) \in SUBSET Records
    BY <1>2, <1>3
  <2>2. IsFiniteSet(Below(t)) /\ Cardinality(Below(t)) \in Nat /\ Cardinality(Below(n)) \in Nat
    BY <2>1, RecordsFinite
  <2>3. Cardinality(Below(n)) <= Cardinality(Below(t))
    BY <2>1, <2>2, FS_Subset
  <2>4. Cardinality(Below(t)) < limit
    OBVIOUS
  <2>5. Cardinality(Below(n)) < limit
    <3> HIDE DEF Below, T
    <3>. QED  BY <2>2, <2>3, <2>4
  <2>. QED  BY <2>5
<1> HIDE DEF T
<1>4. /\ Ascending(T) \in Seq(T) /\ Increasing(Ascending(T)) /\ Range(Ascending(T)) = T
  BY <1>1, AscendingLists
<1>5. \A i \in 1..Len(Ascending(T)) : Ascending(T)[i] \in T
  BY <1>4
<1>6. Ascending(T) \in Seq(S)
  BY <1>1, <1>4
<1>. QED  BY <1>1, <1>3, <1>4, <1>5, <1>6

(* AuditLogRepo.List leaves out no record after the last one it gives, and    *)
(* gives all of them when it gives fewer than it may.                         *)
LEMMA HighestPage ==
    ASSUME NEW S \in SUBSET Records, NEW limit \in Nat
    PROVE  /\ Highest(S, limit) \in Seq(S) /\ Decreasing(Highest(S, limit))
           /\ \A n \in S, i \in 1..Len(Highest(S, limit)) :
                n >= Highest(S, limit)[i] => n \in Range(Highest(S, limit))
           /\ Len(Highest(S, limit)) < limit => Range(Highest(S, limit)) = S
<1> DEFINE Above(n) == {m \in S : m > n}
           T == {n \in S : Cardinality(Above(n)) < limit}
<1>1. T \in SUBSET Records /\ T \in SUBSET S /\ Highest(S, limit) = Descending(T)
  BY DEF Highest
<1>2. \A n \in S : n \in 1..MaxRecords /\ n \in Int
  BY AuditAssumption DEF Records
<1>3. \A n \in S : Above(n) \in SUBSET Records /\ IsFiniteSet(Above(n)) /\ Cardinality(Above(n)) \in Nat
  BY RecordsFinite
<1>4. ASSUME NEW n \in S, NEW t \in T, n >= t
      PROVE  n \in T
  <2>1. Above(n) \in SUBSET Above(t)
    BY <1>2, <1>4
  <2>2. Cardinality(Above(n)) <= Cardinality(Above(t))
    BY <1>3, <2>1, FS_Subset
  <2>3. Cardinality(Above(t)) < limit /\ Cardinality(Above(t)) \in Nat /\ Cardinality(Above(n)) \in Nat
    BY <1>3
  <2>4. Cardinality(Above(n)) < limit
    <3> HIDE DEF Above, T
    <3>. QED  BY <2>2, <2>3
  <2>. QED  BY <2>4
<1>5. /\ Descending(T) \in Seq(T) /\ Len(Descending(T)) = Cardinality(T)
      /\ Decreasing(Descending(T)) /\ Range(Descending(T)) = T
  BY <1>1, DescendingLists
<1>6. T # S => Cardinality(T) >= limit
  <2> SUFFICES ASSUME T # S PROVE Cardinality(T) >= limit
    OBVIOUS
  <2> DEFINE Depths == {Cardinality(Above(n)) : n \in S \ T}
  <2>1. Depths \in SUBSET Nat /\ Depths # {}
    BY <1>1, <1>3
  <2>2. PICK d \in Depths : \A k \in Depths : d <= k
    <3> HIDE DEF Depths
    <3>. QED  BY <2>1, LeastDepth
  <2>3. PICK n \in S \ T : Cardinality(Above(n)) = d
    OBVIOUS
  <2>4. \A m \in S \ T : d <= Cardinality(Above(m))
    BY <2>2
  <2>5. ASSUME NEW m \in Above(n) PROVE m \in T
    <3>1. m \in S /\ m > n
      OBVIOUS
    <3>2. Above(m) \in SUBSET Above(n) /\ m \in Above(n) /\ m \notin Above(m)
      BY <1>2, <3>1
    <3>3. /\ Cardinality(Above(m)) <= Cardinality(Above(n))
          /\ Cardinality(Above(n)) = Cardinality(Above(m)) => Above(n) = Above(m)
      BY <1>3, <3>2, FS_Subset
    <3>4. Cardinality(Above(m)) \in Nat /\ Cardinality(Above(n)) \in Nat
      BY <1>3, <3>1
    <3>5. Cardinality(Above(n)) # Cardinality(Above(m))
      BY <3>2, <3>3
    <3> HIDE DEF Above, T
    <3>6. ~(d <= Cardinality(Above(m)))
      BY <2>3, <3>3, <3>4, <3>5
    <3>. QED  BY <2>4, <3>1, <3>6
  <2>6. Above(n) \in SUBSET T /\ IsFiniteSet(T) /\ Cardinality(T) \in Nat
    BY <1>1, <2>5, RecordsFinite
  <2>7. Cardinality(Above(n)) <= Cardinality(T)
    BY <2>6, FS_Subset
  <2>8. Cardinality(Above(n)) >= limit /\ Cardinality(Above(n)) \in Nat
    <3>1. n \in S /\ ~(Cardinality(Above(n)) < limit)
      OBVIOUS
    <3>2. Cardinality(Above(n)) \in Nat
      BY <1>3, <3>1
    <3> HIDE DEF Above, T
    <3>. QED  BY <3>1, <3>2
  <2> HIDE DEF Above, T
  <2>. QED  BY <2>6, <2>7, <2>8
<1> HIDE DEF T
<1>7. \A i \in 1..Len(Descending(T)) : Descending(T)[i] \in T
  BY <1>5
<1>8. Descending(T) \in Seq(S)
  BY <1>1, <1>5
<1>9. Cardinality(T) \in Nat
  BY <1>1, RecordsFinite
<1>10. Len(Descending(T)) < limit => T = S
  BY <1>5, <1>6, <1>9
<1>. QED  BY <1>1, <1>4, <1>5, <1>7, <1>8, <1>10

-----------------------------------------------------------------------------
(* The queue at the shutdown *)

WriterTypeOK ==
    /\ record \in [Records -> Places]
    /\ queue \in Seq(Records)
    /\ server \in Phases
    /\ rushed \in BOOLEAN

\* A queued record is in the channel.
QueuedIsInQueue ==
    \A n \in Records : record[n] = "queued" => \E i \in 1..Len(queue) : queue[i] = n

\* What is in the channel is queued, and in it once.
QueueIsQueued ==
    /\ \A i \in 1..Len(queue) : record[queue[i]] = "queued"
    /\ \A i, j \in 1..Len(queue) : queue[i] = queue[j] => i = j

\* Where a record may be in a phase of a shutdown that no deadline cuts short.
PlacesIn(phase) ==
    CASE phase = "closing" -> Places \ {"built", "admitted", "refused", "panicked", "lost"}
      [] phase \in {"exiting", "exited"} -> {"none", "stored", "failed", "handed", "dropped"}
      [] OTHER -> Places \ {"refused", "panicked", "lost"}

ShutdownInOrder ==
    ~rushed =>
        /\ \A n \in Records : record[n] \in PlacesIn(server)
        /\ server \in {"exiting", "exited"} => queue = <<>>

QueueInv == WriterTypeOK /\ QueuedIsInQueue /\ QueueIsQueued /\ ShutdownInOrder

(* Nothing is in the channel when the server starts.                          *)
LEMMA QueueInit == AuditInit => QueueInv
  <1> SUFFICES ASSUME AuditInit PROVE QueueInv
    OBVIOUS
  <1>1. /\ record = [n \in Records |-> "none"]
        /\ queue = <<>> /\ server = "serving" /\ rushed = FALSE
    BY Zenon DEF AuditInit
  <1>2. WriterTypeOK
    <2>1. record \in [Records -> Places]
      BY <1>1 DEF Places
    <2>2. <<>> \in Seq(Records)
      OBVIOUS
    <2>. QED  BY <1>1, <2>1, <2>2, Zenon DEF WriterTypeOK, Phases
  <1>3. QueuedIsInQueue /\ QueueIsQueued
    <2>1. Len(queue) = 0
      BY <1>1
    <2>. QED  BY <1>1, <2>1 DEF QueuedIsInQueue, QueueIsQueued
  <1>4. ShutdownInOrder
    BY <1>1 DEF ShutdownInOrder, PlacesIn, Places
  <1>. QED  BY <1>2, <1>3, <1>4 DEF QueueInv

(* A step of a record that leaves the channel alone keeps what is queued in   *)
(* it, since Send alone makes a record queued.                                *)
LEMMA OthersStayQueued ==
    ASSUME QueueInv, NEW n \in Records, NEW place \in Places, place # "queued",
           record[n] # "queued", Put(n, place), UNCHANGED <<queue, server, rushed>>,
           ~rushed => place \in PlacesIn(server)
    PROVE  QueueInv'
  <1> USE DEF QueueInv
<1>1. WriterTypeOK' /\ ShutdownInOrder'
  BY DEF WriterTypeOK, ShutdownInOrder, Put, PlacesIn
<1>2. QueuedIsInQueue'
  BY DEF WriterTypeOK, QueuedIsInQueue, Put
<1>3. QueueIsQueued'
  <2>1. \A i \in 1..Len(queue) : queue[i] \in Records /\ queue[i] # n
    BY DEF WriterTypeOK, QueueIsQueued
  <2>2. \A m \in Records : m # n => record'[m] = record[m]
    BY DEF WriterTypeOK, Put
  <2>. QED  BY <2>1, <2>2 DEF QueueIsQueued
<1>. QED  BY <1>1, <1>2, <1>3

(* Submit, the goroutine of the writer and Close, one after the other: every  *)
(* step keeps the queue in order, because Close looks at requests and queue   *)
(* when it goes on before its deadline.                                       *)
LEMMA QueueStep == QueueInv /\ [AuditNext]_auditVars => QueueInv'
  <1> SUFFICES ASSUME QueueInv, [AuditNext]_auditVars PROVE QueueInv'
    OBVIOUS
  <1> USE DEF QueueInv
  <1>1. ASSUME NEW n \in Records, Build(n) PROVE QueueInv'
    <2>1. ~rushed => "built" \in PlacesIn(server)
      BY <1>1 DEF Build, PlacesIn, Places
    <2>2. record[n] # "queued"
      <3>1. ~(n < n)
        BY AuditAssumption DEF Records
      <3>. QED  BY <1>1, <3>1 DEF Build
    <2>. QED  BY <1>1, <2>1, <2>2, OthersStayQueued DEF Build, Places
  <1>2. ASSUME NEW n \in Records, Admit(n) PROVE QueueInv'
    <2>1. ~rushed => ~Closed
      BY <1>2 DEF Admit, Closed, ShutdownInOrder, PlacesIn, Places
    <2>2. CASE Closed
      BY <1>2, <2>1, <2>2, OthersStayQueued DEF Admit, Places
    <2>3. CASE ~Closed
      <3>1. "admitted" \in PlacesIn(server)
        BY <2>3 DEF Closed, PlacesIn, Places
      <3>. QED  BY <1>2, <2>3, <3>1, OthersStayQueued DEF Admit, Places
    <2>. QED  BY <2>2, <2>3
  <1>3. ASSUME NEW n \in Records, Send(n) PROVE QueueInv'
    <2>1. ~rushed => ~Closed
      BY <1>3 DEF Send, Closed, ShutdownInOrder, PlacesIn, Places
    <2>2. CASE Closed
      BY <1>3, <2>1, <2>2, OthersStayQueued DEF Send, Places
    <2>3. CASE ~Closed /\ Put(n, "handed") /\ UNCHANGED queue
      <3>1. "handed" \in PlacesIn(server)
        BY <2>3 DEF Closed, PlacesIn, Places
      <3>. QED  BY <1>3, <2>3, <3>1, OthersStayQueued DEF Send, Places
    <2>4. CASE ~Closed /\ Put(n, "queued") /\ queue' = Append(queue, n)
      <3>1. WriterTypeOK'
        BY <1>3, <2>4 DEF Send, Put, WriterTypeOK, Places
      <3>2. QueuedIsInQueue'
        <4> SUFFICES ASSUME NEW m \in Records, record'[m] = "queued"
                     PROVE  \E i \in 1..Len(queue') : queue'[i] = m
          BY DEF QueuedIsInQueue
        <4>1. /\ Len(queue') = Len(queue) + 1
              /\ queue'[Len(queue) + 1] = n
              /\ \A i \in 1..Len(queue) : queue'[i] = queue[i]
              /\ Len(queue) \in Nat
          BY <2>4 DEF WriterTypeOK
        <4>2. CASE m = n
          <5>1. Len(queue) + 1 \in 1..Len(queue')
            BY <4>1
          <5>. QED  BY <4>1, <4>2, <5>1
        <4>3. CASE m # n
          <5>1. record[m] = "queued"
            BY <2>4, <4>3 DEF Put, WriterTypeOK
          <5>2. PICK i \in 1..Len(queue) : queue[i] = m
            BY <5>1 DEF QueuedIsInQueue
          <5>3. i \in 1..Len(queue')
            BY <4>1
          <5>. QED  BY <4>1, <5>2, <5>3
        <4>. QED  BY <4>2, <4>3
      <3>3. ShutdownInOrder'
        BY <1>3, <2>4 DEF Send, Put, Closed, WriterTypeOK, ShutdownInOrder, PlacesIn, Places
      <3>4. QueueIsQueued'
        <4>1. /\ Len(queue') = Len(queue) + 1
              /\ queue'[Len(queue) + 1] = n
              /\ \A i \in 1..Len(queue) : queue'[i] = queue[i] /\ queue[i] \in Records
              /\ Len(queue) \in Nat
          BY <2>4 DEF WriterTypeOK
        <4>2. \A i \in 1..Len(queue) : queue[i] # n
          BY <1>3 DEF Send, QueueIsQueued
        <4>3. record'[n] = "queued" /\ \A m \in Records : m # n => record'[m] = record[m]
          BY <2>4 DEF WriterTypeOK, Put
        <4>4. \A i \in 1..Len(queue') : i # Len(queue) + 1 => i \in 1..Len(queue)
          BY <4>1
        <4>5. \A i \in 1..Len(queue') : record'[queue'[i]] = "queued"
          BY <4>1, <4>2, <4>3, <4>4 DEF QueueIsQueued
        <4>6. \A i, j \in 1..Len(queue') : queue'[i] = queue'[j] => i = j
          BY <4>1, <4>2, <4>4 DEF QueueIsQueued
        <4>. QED  BY <4>5, <4>6 DEF QueueIsQueued
      <3>. QED  BY <3>1, <3>2, <3>3, <3>4
    <2>. QED  BY <1>3, <2>2, <2>3, <2>4 DEF Send
  <1>4. CASE Take
    <2>1. /\ Head(queue) \in Records /\ Head(queue) = queue[1]
          /\ Tail(queue) \in Seq(Records) /\ Len(Tail(queue)) = Len(queue) - 1
          /\ \A i \in 1..Len(Tail(queue)) : Tail(queue)[i] = queue[i + 1]
          /\ Len(queue) \in Nat
      BY <1>4 DEF Take, WriterTypeOK
    <2>2. WriterTypeOK'
      BY <1>4, <2>1 DEF Take, Put, WriterTypeOK, Places
    <2>3. QueuedIsInQueue'
      <3> SUFFICES ASSUME NEW m \in Records, record'[m] = "queued"
                   PROVE  \E i \in 1..Len(queue') : queue'[i] = m
        BY DEF QueuedIsInQueue
      <3>1. record[m] = "queued" /\ m # queue[1]
        BY <1>4, <2>1 DEF Take, Put, WriterTypeOK
      <3>2. PICK i \in 1..Len(queue) : queue[i] = m
        BY <3>1 DEF QueuedIsInQueue
      <3>3. i - 1 \in 1..Len(Tail(queue)) /\ (i - 1) + 1 = i
        BY <2>1, <3>1, <3>2
      <3>. QED  BY <1>4, <2>1, <3>2, <3>3 DEF Take
    <2>4. ShutdownInOrder'
      BY <1>4, <2>1 DEF Take, Put, WriterTypeOK, ShutdownInOrder, PlacesIn, Places, Phases
    <2>5. QueueIsQueued'
      <3>1. \A i \in 1..Len(queue') : i + 1 \in 1..Len(queue) /\ queue'[i] = queue[i + 1]
        BY <1>4, <2>1 DEF Take
      <3>2. 1 \in 1..Len(queue)
        BY <1>4, <2>1 DEF Take, WriterTypeOK
      <3>3. \A i \in 1..Len(queue') : queue[i + 1] \in Records /\ queue[i + 1] # queue[1]
        <4>1. \A i \in 1..Len(queue') : i + 1 # 1
          OBVIOUS
        <4>. QED  BY <3>1, <3>2, <4>1 DEF WriterTypeOK, QueueIsQueued
      <3>4. \A m \in Records : m # queue[1] => record'[m] = record[m]
        BY <1>4, <2>1 DEF Take, Put, WriterTypeOK
      <3>5. \A i \in 1..Len(queue') : record'[queue'[i]] = "queued"
        BY <3>1, <3>3, <3>4 DEF QueueIsQueued
      <3>6. \A i, j \in 1..Len(queue') : queue'[i] = queue'[j] => i = j
        <4> SUFFICES ASSUME NEW i \in 1..Len(queue'), NEW j \in 1..Len(queue'), queue'[i] = queue'[j]
                     PROVE  i = j
          OBVIOUS
        <4>1. i + 1 = j + 1
          BY <3>1 DEF QueueIsQueued
        <4>. QED  BY <4>1
      <3>. QED  BY <3>5, <3>6 DEF QueueIsQueued
    <2>. QED  BY <2>2, <2>3, <2>4, <2>5
  <1>5. ASSUME NEW n \in Records, Insert(n) PROVE QueueInv'
    <2>1. \/ Put(n, "stored") \/ Put(n, "failed")
          \/ server = "exiting" /\ Put(n, IF record[n] = "handed" THEN "dropped" ELSE "lost")
      BY <1>5 DEF Insert
    <2>2. "stored" \in PlacesIn(server) /\ "failed" \in PlacesIn(server)
      BY DEF PlacesIn, Places
    <2>3. ~rushed /\ server = "exiting" => record[n] = "handed" /\ "dropped" \in PlacesIn(server)
      BY <1>5 DEF Insert, ShutdownInOrder, PlacesIn
    <2>4. UNCHANGED <<queue, server, rushed>> /\ record[n] # "queued"
      BY <1>5 DEF Insert
    <2>5. CASE Put(n, "stored") \/ Put(n, "failed")
      BY <2>2, <2>4, <2>5, OthersStayQueued DEF Places
    <2>6. CASE server = "exiting" /\ Put(n, "dropped") /\ record[n] = "handed"
      BY <2>4, <2>6, OthersStayQueued DEF Places, PlacesIn
    <2>7. CASE server = "exiting" /\ Put(n, "lost") /\ record[n] # "handed"
      BY <2>3, <2>4, <2>7, OthersStayQueued DEF Places
    <2>. QED  BY <2>1, <2>5, <2>6, <2>7
  <1>6. CASE Signal
    BY <1>6 DEF Signal, Enter, WriterTypeOK, QueuedIsInQueue, QueueIsQueued, ShutdownInOrder, PlacesIn, Phases
  <1>7. CASE CloseWriter
    <2>1. UNCHANGED <<record, queue>> /\ server' = "closing" /\ rushed' \in BOOLEAN
      BY <1>7 DEF CloseWriter, Enter
    <2>2. ~rushed' => ~rushed /\ server = "shutdown" /\ \A n \in Records : record[n] \notin {"built", "admitted"}
      BY <1>7 DEF CloseWriter, Handling
    <2>3. WriterTypeOK' /\ QueuedIsInQueue' /\ QueueIsQueued'
      BY <2>1 DEF WriterTypeOK, QueuedIsInQueue, QueueIsQueued, Phases
    <2>4. ShutdownInOrder'
      BY <2>1, <2>2 DEF ShutdownInOrder, PlacesIn, Places
    <2>. QED  BY <2>3, <2>4
  <1>8. CASE WriterClosed
    <2>1. WriterTypeOK' /\ QueuedIsInQueue' /\ QueueIsQueued'
      BY <1>8 DEF WriterClosed, Enter, WriterTypeOK, QueuedIsInQueue, QueueIsQueued, Phases
    <2>2. ShutdownInOrder'
      <3> SUFFICES ASSUME ~rushed' PROVE ShutdownInOrder'
        BY DEF ShutdownInOrder
      <3>1. ~rushed /\ queue = <<>> /\ \A n \in Records : record[n] # "taken"
        BY <1>8 DEF WriterClosed
      <3>2. \A n \in Records : record[n] # "queued"
        BY <3>1 DEF QueuedIsInQueue
      <3>3. \A n \in Records : record[n] \in PlacesIn("closing")
        BY <1>8, <3>1 DEF WriterClosed, ShutdownInOrder
      <3>. QED
        BY <1>8, <3>1, <3>2, <3>3 DEF WriterClosed, Enter, ShutdownInOrder, PlacesIn, Places
    <2>. QED  BY <2>1, <2>2
  <1>9. CASE Exit
    BY <1>9 DEF Exit, Enter, WriterTypeOK, QueuedIsInQueue, QueueIsQueued, ShutdownInOrder, PlacesIn, Phases
  <1>10. CASE UNCHANGED <<record, queue, server, rushed>>
    BY <1>10 DEF WriterTypeOK, QueuedIsInQueue, QueueIsQueued, ShutdownInOrder
  <1>11. CASE Connect \/ Poll \/ Disconnect \/ StartExport \/ ExportPage \/ ExportBreaks
    <2>1. UNCHANGED <<record, queue, server, rushed>>
      BY <1>11, Zenon DEF Connect, Poll, Disconnect, StartExport, ExportPage, ExportBreaks
    <2>. QED  BY <1>10, <2>1
  <1>12. CASE UNCHANGED auditVars
    BY <1>10, <1>12, Zenon DEF auditVars
  <1>. QED
    BY <1>1, <1>2, <1>3, <1>4, <1>5, <1>6, <1>7, <1>8, <1>9, <1>11, <1>12 DEF AuditNext

-----------------------------------------------------------------------------
(* The readers                                                             *)

(* The events of a later poll continue those sent before.                     *)
LEMMA Continues ==
    ASSUME NEW s \in Seq(Records), NEW t \in Seq(Records)
    PROVE  /\ s \o t \in Seq(Records) /\ Range(s \o t) = Range(s) \union Range(t)
           /\ \A i \in DOMAIN (s \o t) :
                \/ i \in DOMAIN s /\ (s \o t)[i] = s[i]
                \/ i - Len(s) \in DOMAIN t /\ (s \o t)[i] = t[i - Len(s)] /\ i > Len(s)
<1>1. Len(s) \in Nat /\ Len(t) \in Nat /\ DOMAIN s = 1..Len(s) /\ DOMAIN t = 1..Len(t)
  OBVIOUS
<1>2. /\ s \o t \in Seq(Records) /\ Len(s \o t) = Len(s) + Len(t)
      /\ DOMAIN (s \o t) = 1..(Len(s) + Len(t))
  OBVIOUS
<1>3. \A i \in 1..(Len(s) + Len(t)) :
        (s \o t)[i] = IF i <= Len(s) THEN s[i] ELSE t[i - Len(s)]
  OBVIOUS
<1>4. ASSUME NEW i \in DOMAIN (s \o t)
      PROVE  \/ i \in DOMAIN s /\ (s \o t)[i] = s[i]
             \/ i - Len(s) \in DOMAIN t /\ (s \o t)[i] = t[i - Len(s)] /\ i > Len(s)
  BY <1>1, <1>2, <1>3
<1>5. ASSUME NEW i \in DOMAIN s PROVE i \in DOMAIN (s \o t) /\ (s \o t)[i] = s[i]
  BY <1>1, <1>2, <1>3
<1>6. ASSUME NEW i \in DOMAIN t
      PROVE  Len(s) + i \in DOMAIN (s \o t) /\ (s \o t)[Len(s) + i] = t[i]
  <2>1. Len(s) + i \in 1..(Len(s) + Len(t)) /\ ~(Len(s) + i <= Len(s)) /\ (Len(s) + i) - Len(s) = i
    BY <1>1
  <2>. QED  BY <1>2, <1>3, <2>1
<1>7. Range(s \o t) = Range(s) \union Range(t)
  <2>1. Range(s \o t) \subseteq Range(s) \union Range(t)
    BY <1>4, Zenon DEF Range
  <2>2. Range(s) \subseteq Range(s \o t)
    BY <1>5, Zenon DEF Range
  <2>3. Range(t) \subseteq Range(s \o t)
    BY <1>6, Zenon DEF Range
  <2>. QED  BY <2>1, <2>2, <2>3
<1>. QED  BY <1>2, <1>4, <1>7

(* Pages in order, each after the one before, are in order together.          *)
LEMMA ContinuesUp ==
    ASSUME NEW s \in Seq(Records), NEW t \in Seq(Records), Increasing(s), Increasing(t),
           \A i \in DOMAIN s, j \in DOMAIN t : s[i] < t[j]
    PROVE  Increasing(s \o t)
<1> SUFFICES ASSUME NEW i \in DOMAIN (s \o t), NEW j \in DOMAIN (s \o t), i < j
             PROVE  (s \o t)[i] < (s \o t)[j]
  BY DEF Increasing
<1>1. /\ \/ i \in DOMAIN s /\ (s \o t)[i] = s[i]
         \/ i - Len(s) \in DOMAIN t /\ (s \o t)[i] = t[i - Len(s)] /\ i > Len(s)
      /\ \/ j \in DOMAIN s /\ (s \o t)[j] = s[j]
         \/ j - Len(s) \in DOMAIN t /\ (s \o t)[j] = t[j - Len(s)] /\ j > Len(s)
  BY Continues
<1>2. i \in Int /\ j \in Int /\ Len(s) \in Nat /\ DOMAIN s = 1..Len(s)
  BY Continues
<1>3. i - Len(s) < j - Len(s)
  BY <1>2
<1>4. j \in DOMAIN s => ~(i > Len(s))
  BY <1>2
<1>. QED  BY <1>1, <1>3, <1>4 DEF Increasing

(* The same downwards.                                                        *)
LEMMA ContinuesDown ==
    ASSUME NEW s \in Seq(Records), NEW t \in Seq(Records), Decreasing(s), Decreasing(t),
           \A i \in DOMAIN s, j \in DOMAIN t : s[i] > t[j]
    PROVE  Decreasing(s \o t)
<1> SUFFICES ASSUME NEW i \in DOMAIN (s \o t), NEW j \in DOMAIN (s \o t), i < j
             PROVE  (s \o t)[i] > (s \o t)[j]
  BY DEF Decreasing
<1>1. /\ \/ i \in DOMAIN s /\ (s \o t)[i] = s[i]
         \/ i - Len(s) \in DOMAIN t /\ (s \o t)[i] = t[i - Len(s)] /\ i > Len(s)
      /\ \/ j \in DOMAIN s /\ (s \o t)[j] = s[j]
         \/ j - Len(s) \in DOMAIN t /\ (s \o t)[j] = t[j - Len(s)] /\ j > Len(s)
  BY Continues
<1>2. i \in Int /\ j \in Int /\ Len(s) \in Nat /\ DOMAIN s = 1..Len(s)
  BY Continues
<1>3. i - Len(s) < j - Len(s)
  BY <1>2
<1>4. j \in DOMAIN s => ~(i > Len(s))
  BY <1>2
<1>. QED  BY <1>1, <1>3, <1>4 DEF Decreasing

\* An event stream has sent, up to its cursor, all that did not come late.
StreamInv ==
    /\ stream \in [open : BOOLEAN, from : Nat, cursor : Nat, sent : Seq(Records)]
    /\ Increasing(stream.sent)
    /\ stream.sent # <<>> => stream.cursor = Last(stream.sent)
    /\ \A n \in Chosen :
         stream.from < n /\ n <= stream.cursor => n \in Range(stream.sent) \union late

\* An export has written, down to its cursor, all that was there when it began.
ExportInv ==
    /\ export \in [at : {"idle", "paging", "done", "broken"}, cursor : Nat,
                   lines : Seq(Records), before : SUBSET Records]
    /\ export.at = "paging" =>
         /\ export.before \subseteq Chosen
         /\ \A i \in DOMAIN export.lines : export.lines[i] >= export.cursor
         /\ \A n \in export.before : n >= export.cursor => n \in Range(export.lines)
    /\ export.at \in {"paging", "done"} => Decreasing(export.lines)
    /\ export.at = "done" => export.before \subseteq Range(export.lines)

ReaderInv == StreamInv /\ ExportInv

(* What a reader selects does not change by a record that is not written.     *)
LEMMA NothingStored ==
    ASSUME QueueInv, NEW n \in Records, NEW place \in Places, Put(n, place),
           record[n] # "stored", place # "stored"
    PROVE  Chosen' = Chosen
  BY DEF QueueInv, WriterTypeOK, Put, Chosen, Stored

(* Inserting a record changes nothing else that a reader selects.             *)
LEMMA OneStored ==
    ASSUME QueueInv, NEW n \in Records, Put(n, "stored")
    PROVE  Chosen \subseteq Chosen' /\ Chosen' \subseteq Chosen \union {n}
  BY DEF QueueInv, WriterTypeOK, Put, Chosen, Stored

(* Neither reader moves while the log stays as it is.                         *)
LEMMA ReadersRest ==
    ASSUME ReaderInv, Chosen' = Chosen, UNCHANGED <<stream, export, late>>
    PROVE  ReaderInv'
  BY Zenon DEF ReaderInv, StreamInv, ExportInv

(* A poll sends all that follows the cursor up to its last event, in order.   *)
LEMMA PollStep == ReaderInv /\ Poll => ReaderInv'
  <1> SUFFICES ASSUME ReaderInv, Poll PROVE ReaderInv'
    OBVIOUS
  <1> USE DEF ReaderInv
  <1> DEFINE X == {n \in Chosen : n > stream.cursor}
             items == Lowest(X, StreamLimit)
  <1>1. /\ items # <<>> /\ UNCHANGED <<record, export, late>>
        /\ stream' = [stream EXCEPT !.sent = @ \o items, !.cursor = Last(items)]
    BY DEF Poll
  <1>2. X \in SUBSET Records /\ StreamLimit \in Nat /\ \A n \in Records : n \in Nat
    BY AuditAssumption DEF Chosen, Stored, Records
  <1> HIDE DEF items
  <1>3. /\ items \in Seq(X) /\ Increasing(items)
        /\ \A n \in X, i \in 1..Len(items) : n <= items[i] => n \in Range(items)
    BY <1>2, LowestPage DEF items
  <1>4. /\ stream.sent \in Seq(Records) /\ stream.cursor \in Nat /\ stream.from \in Nat
        /\ stream.open \in BOOLEAN
    BY DEF StreamInv
  <1>5. /\ items \in Seq(Records) /\ Len(items) \in 1..Len(items) /\ DOMAIN items = 1..Len(items)
        /\ \A i \in 1..Len(items) : items[i] \in X
    <2>1. items \in Seq(Records) /\ \A i \in 1..Len(items) : items[i] \in X
      BY <1>2, <1>3
    <2> HIDE DEF X
    <2>. QED  BY <1>1, <2>1
  <1>6. Last(items) = items[Len(items)] /\ Last(items) \in X /\ Last(items) \in Nat
    BY <1>2, <1>5 DEF Last
  <1>7. /\ stream'.sent = stream.sent \o items /\ stream'.cursor = Last(items)
        /\ stream'.from = stream.from /\ stream'.open = stream.open
        /\ stream' \in [open : BOOLEAN, from : Nat, cursor : Nat, sent : Seq(Records)]
    <2>1. stream.sent \o items \in Seq(Records)
      BY <1>4, <1>5
    <2>. QED  BY <1>1, <1>6, <2>1 DEF StreamInv
  <1>8. \A i \in DOMAIN stream.sent : stream.sent[i] <= stream.cursor /\ stream.sent[i] \in Nat
    <2> SUFFICES ASSUME NEW i \in DOMAIN stream.sent
                 PROVE  stream.sent[i] <= stream.cursor /\ stream.sent[i] \in Nat
      OBVIOUS
    <2>1. /\ DOMAIN stream.sent = 1..Len(stream.sent) /\ Len(stream.sent) \in Nat
          /\ stream.sent # <<>> /\ Len(stream.sent) \in 1..Len(stream.sent)
      BY <1>4
    <2>2. stream.cursor = stream.sent[Len(stream.sent)]
      BY <2>1 DEF StreamInv, Last
    <2>3. stream.sent[i] \in Nat
      BY <1>2, <1>4, <2>1
    <2>4. i < Len(stream.sent) \/ i = Len(stream.sent)
      BY <2>1
    <2>5. i < Len(stream.sent) => stream.sent[i] < stream.cursor
      BY <2>1, <2>2 DEF StreamInv, Increasing
    <2>. QED  BY <1>4, <2>2, <2>3, <2>4, <2>5
  <1>9. Increasing(stream.sent \o items)
    <2>1. \A i \in DOMAIN stream.sent, j \in DOMAIN items : stream.sent[i] < items[j]
      <3> SUFFICES ASSUME NEW i \in DOMAIN stream.sent, NEW j \in DOMAIN items
                   PROVE  stream.sent[i] < items[j]
        OBVIOUS
      <3>1. items[j] \in X
        BY <1>5
      <3>2. items[j] > stream.cursor /\ items[j] \in Nat
        BY <1>2, <3>1
      <3>. QED  BY <1>4, <1>8, <3>2
    <2>2. Increasing(stream.sent)
      BY DEF StreamInv
    <2>. QED  BY <1>3, <1>4, <1>5, <2>1, <2>2, ContinuesUp
  <1>10. Last(stream'.sent) = Last(items)
    <2>1. Len(stream.sent \o items) = Len(stream.sent) + Len(items)
      BY <1>4, <1>5
    <2>2. (stream.sent \o items)[Len(stream.sent) + Len(items)] = items[Len(items)]
      BY <1>4, <1>5
    <2>. QED  BY <1>7, <2>1, <2>2 DEF Last
  <1>11. Chosen' = Chosen
    BY <1>1 DEF Chosen, Stored
  <1>12. ASSUME NEW n \in Chosen, stream.from < n, n <= Last(items)
         PROVE  n \in Range(stream.sent \o items) \union late
    <2>1. Range(stream.sent \o items) = Range(stream.sent) \union Range(items)
      BY <1>4, <1>5, Continues
    <2>2. CASE n <= stream.cursor
      BY <1>12, <2>1, <2>2 DEF StreamInv
    <2>3. CASE n > stream.cursor
      <3>1. n \in Range(items)
        BY <1>3, <1>5, <1>6, <1>12, <2>3
      <3>. QED  BY <2>1, <3>1
    <2>4. n \in Nat
      BY <1>2 DEF Chosen, Stored
    <2>. QED  BY <1>4, <2>2, <2>3, <2>4
  <1>13. StreamInv'
    <2>1. \A n \in Chosen' : stream'.from < n /\ n <= stream'.cursor
              => n \in Range(stream'.sent) \union late'
      BY <1>1, <1>7, <1>11, <1>12
    <2>. QED  BY <1>7, <1>9, <1>10, <2>1 DEF StreamInv
  <1>14. ExportInv'
    BY <1>1, <1>11, Zenon DEF ExportInv
  <1>. QED  BY <1>13, <1>14

(* A page of the export continues downwards: its cursor is the last row       *)
(* written, and the row read beyond it is read again, not skipped.            *)
LEMMA ExportStep == ReaderInv /\ ExportPage => ReaderInv'
  <1> SUFFICES ASSUME ReaderInv, ExportPage PROVE ReaderInv'
    OBVIOUS
  <1> USE DEF ReaderInv
  <1> DEFINE X == {n \in Chosen : n < export.cursor}
             rows == Highest(X, PageLimit + 1)
             more == Len(rows) > PageLimit
             length == IF more THEN PageLimit ELSE Len(rows)
             batch == SubSeq(rows, 1, length)
  <1>1. /\ export.at = "paging" /\ UNCHANGED <<record, stream, late>>
        /\ export' = [export EXCEPT !.lines = @ \o batch,
                                    !.cursor = IF more THEN Last(batch) ELSE @,
                                    !.at = IF more THEN "paging" ELSE "done"]
    BY DEF ExportPage
  <1>2. /\ X \in SUBSET Records /\ X \in SUBSET Chosen /\ \A n \in Records : n \in Nat
        /\ PageLimit \in Nat /\ PageLimit >= 1 /\ PageLimit + 1 \in Nat
    BY AuditAssumption DEF Chosen, Stored, Records
  <1> HIDE DEF rows
  <1>3. /\ rows \in Seq(X) /\ Decreasing(rows)
        /\ \A n \in X, i \in 1..Len(rows) : n >= rows[i] => n \in Range(rows)
        /\ Len(rows) < PageLimit + 1 => Range(rows) = X
    BY <1>2, HighestPage DEF rows
  <1>4. /\ export.lines \in Seq(Records) /\ export.cursor \in Nat
        /\ export.before \in SUBSET Records /\ export.before \subseteq Chosen
        /\ Decreasing(export.lines)
        /\ \A i \in DOMAIN export.lines : export.lines[i] >= export.cursor
        /\ \A n \in export.before : n >= export.cursor => n \in Range(export.lines)
    BY <1>1 DEF ExportInv
  <1>5. /\ rows \in Seq(Records) /\ Len(rows) \in Nat /\ DOMAIN rows = 1..Len(rows)
        /\ \A i \in 1..Len(rows) : rows[i] \in X /\ rows[i] \in Nat
    <2>1. rows \in Seq(Records) /\ \A i \in 1..Len(rows) : rows[i] \in X
      BY <1>2, <1>3
    <2> HIDE DEF X
    <2>. QED  BY <1>2, <2>1
  <1>6. length \in Nat /\ length <= Len(rows)
    BY <1>2, <1>5
  <1>7. /\ batch \in Seq(Records) /\ Len(batch) = length /\ DOMAIN batch = 1..length
        /\ \A i \in 1..length : i \in 1..Len(rows) /\ batch[i] = rows[i]
    <2> HIDE DEF length
    <2>1. /\ batch \in Seq(Records) /\ Len(batch) = length
          /\ \A i \in 1..length : i \in 1..Len(rows) /\ batch[i] = rows[i]
      BY <1>5, <1>6
    <2> HIDE DEF batch
    <2>. QED  BY <2>1
  <1> HIDE DEF batch
  <1>8. Decreasing(batch)
    BY <1>3, <1>5, <1>7 DEF Decreasing
  <1>9. Decreasing(export.lines \o batch)
    <2>1. \A i \in DOMAIN export.lines, j \in DOMAIN batch : export.lines[i] > batch[j]
      <3> SUFFICES ASSUME NEW i \in DOMAIN export.lines, NEW j \in DOMAIN batch
                   PROVE  export.lines[i] > batch[j]
        OBVIOUS
      <3>1. batch[j] \in X /\ batch[j] \in Nat
        BY <1>5, <1>7
      <3>2. export.lines[i] \in Nat /\ export.lines[i] >= export.cursor
        BY <1>2, <1>4
      <3>. QED  BY <1>4, <3>1, <3>2
    <2>. QED  BY <1>4, <1>7, <1>8, <2>1, ContinuesDown
  <1>10. /\ export.lines \o batch \in Seq(Records)
         /\ Range(export.lines \o batch) = Range(export.lines) \union Range(batch)
    BY <1>4, <1>7, Continues
  <1>11. /\ export'.lines = export.lines \o batch /\ export'.before = export.before
         /\ export'.cursor = IF more THEN Last(batch) ELSE export.cursor
         /\ export'.at = IF more THEN "paging" ELSE "done"
    BY <1>1 DEF ExportInv
  <1>12. Chosen' = Chosen
    BY <1>1 DEF Chosen, Stored
  <1>13. CASE more
    <2>1. length = PageLimit /\ PageLimit \in 1..length /\ PageLimit \in 1..Len(rows)
      BY <1>2, <1>5, <1>6, <1>13
    <2> HIDE DEF length, more
    <2>2. Last(batch) = rows[PageLimit] /\ Last(batch) \in X /\ Last(batch) \in Nat
      BY <1>5, <1>7, <2>1 DEF Last
    <2>3. \A i \in DOMAIN (export.lines \o batch) : (export.lines \o batch)[i] >= Last(batch)
      <3> SUFFICES ASSUME NEW i \in DOMAIN (export.lines \o batch)
                   PROVE  (export.lines \o batch)[i] >= Last(batch)
        OBVIOUS
      <3>1. CASE i \in DOMAIN export.lines /\ (export.lines \o batch)[i] = export.lines[i]
        <4>1. export.lines[i] \in Nat /\ export.lines[i] >= export.cursor
          BY <1>2, <1>4, <3>1
        <4>. QED  BY <1>4, <2>2, <3>1, <4>1
      <3>2. ASSUME NEW k \in DOMAIN batch, (export.lines \o batch)[i] = batch[k]
            PROVE  (export.lines \o batch)[i] >= Last(batch)
        <4>1. batch[k] = rows[k] /\ rows[k] \in Nat /\ k \in 1..PageLimit
          BY <1>5, <1>7, <2>1
        <4>2. k < PageLimit \/ k = PageLimit
          BY <1>2, <4>1
        <4>3. k < PageLimit => rows[k] > rows[PageLimit]
          BY <1>3, <1>5, <1>7, <2>1, <4>1 DEF Decreasing
        <4>. QED  BY <2>2, <3>2, <4>1, <4>2, <4>3
      <3>. QED  BY <1>4, <1>7, <3>1, <3>2, Continues
    <2>4. ASSUME NEW n \in export.before, n >= Last(batch)
          PROVE  n \in Range(export.lines \o batch)
      <3>1. CASE n >= export.cursor
        BY <1>4, <1>10, <3>1
      <3>2. CASE n < export.cursor
        <4>1. n \in X
          BY <1>4, <3>2
        <4>2. n \in Range(rows)
          BY <1>3, <2>1, <2>2, <2>4, <4>1
        <4>3. PICK i \in 1..Len(rows) : rows[i] = n
          BY <1>5, <4>2 DEF Range
        <4>4. ~(i > PageLimit)
          <5>1. PageLimit < i => rows[PageLimit] > rows[i]
            BY <1>3, <1>5, <2>1 DEF Decreasing
          <5>. QED  BY <1>2, <1>5, <2>1, <2>2, <2>4, <4>3, <5>1
        <4>5. i \in 1..length
          BY <1>2, <1>5, <2>1, <4>4
        <4>6. n \in Range(batch)
          BY <1>7, <4>3, <4>5 DEF Range
        <4>. QED  BY <1>10, <4>6
      <3>3. n \in Nat
        BY <1>2, <1>4
      <3>. QED  BY <1>4, <3>1, <3>2, <3>3
    <2>5. export'.at = "paging" /\ export'.cursor = Last(batch)
      BY <1>11, <1>13 DEF more
    <2>6. export' \in [at : {"idle", "paging", "done", "broken"}, cursor : Nat,
                       lines : Seq(Records), before : SUBSET Records]
      BY <1>1, <1>10, <1>13, <2>2 DEF ExportInv
    <2>. QED
      <3>1. ExportInv'
        BY <1>4, <1>9, <1>11, <1>12, <2>3, <2>4, <2>5, <2>6 DEF ExportInv
      <3>2. StreamInv'
        BY <1>1, <1>12, Zenon DEF StreamInv
      <3>. QED  BY <3>1, <3>2
  <1>14. CASE ~more
    <2>1. Range(rows) = X
      BY <1>2, <1>3, <1>5, <1>14
    <2>2. length = Len(rows)
      BY <1>14
    <2> HIDE DEF length
    <2>3. X \subseteq Range(batch)
      <3> SUFFICES ASSUME NEW n \in X PROVE n \in Range(batch)
        OBVIOUS
      <3>1. n \in Range(rows)
        BY <2>1
      <3>2. PICK i \in 1..Len(rows) : rows[i] = n
        BY <1>5, <3>1 DEF Range
      <3>. QED  BY <1>7, <2>2, <3>2 DEF Range
    <2>4. ASSUME NEW n \in export.before PROVE n \in Range(export.lines \o batch)
      <3>1. n \in Nat /\ n \in Chosen
        BY <1>2, <1>4
      <3>2. CASE n >= export.cursor
        BY <1>4, <1>10, <3>2
      <3>3. CASE n < export.cursor
        BY <1>10, <2>3, <3>1, <3>3
      <3>. QED  BY <1>4, <3>1, <3>2, <3>3
    <2>5. export' \in [at : {"idle", "paging", "done", "broken"}, cursor : Nat,
                       lines : Seq(Records), before : SUBSET Records]
      BY <1>1, <1>4, <1>10, <1>14 DEF ExportInv
    <2>6. export'.at = "done"
      BY <1>11, <1>14
    <2>. QED
      <3>1. ExportInv'
        BY <1>9, <1>11, <2>4, <2>5, <2>6 DEF ExportInv
      <3>2. StreamInv'
        BY <1>1, <1>12, Zenon DEF StreamInv
      <3>. QED  BY <3>1, <3>2
  <1>. QED  BY <1>13, <1>14

(* Connections come and go, exports begin and break, and records are built,   *)
(* submitted and inserted in any order: no reader misses by it what it has    *)
(* to give.                                                                   *)
LEMMA ReadersStep == QueueInv /\ ReaderInv /\ [AuditNext]_auditVars => ReaderInv'
  <1> SUFFICES ASSUME QueueInv, ReaderInv, [AuditNext]_auditVars PROVE ReaderInv'
    OBVIOUS
  <1>1. ASSUME NEW n \in Records, Build(n) PROVE ReaderInv'
    <2>1. record[n] # "stored"
      <3>1. ~(n < n)
        BY AuditAssumption DEF Records
      <3>. QED  BY <1>1, <3>1 DEF Build
    <2>2. Chosen' = Chosen
      BY <1>1, <2>1, NothingStored DEF Build, Places
    <2>3. UNCHANGED <<stream, export, late>>
      BY <1>1 DEF Build
    <2>. QED  BY <2>2, <2>3, ReadersRest
  <1>2. ASSUME NEW n \in Records, Admit(n) PROVE ReaderInv'
    <2>1. Put(n, "refused") \/ Put(n, "admitted")
      BY <1>2 DEF Admit
    <2>2. record[n] # "stored" /\ UNCHANGED <<stream, export, late>>
      BY <1>2 DEF Admit
    <2>3. Chosen' = Chosen
      BY <2>1, <2>2, NothingStored DEF Places
    <2>. QED  BY <2>2, <2>3, ReadersRest
  <1>3. ASSUME NEW n \in Records, Send(n) PROVE ReaderInv'
    <2>1. Put(n, "panicked") \/ Put(n, "queued") \/ Put(n, "handed")
      BY <1>3 DEF Send
    <2>2. record[n] # "stored" /\ UNCHANGED <<stream, export, late>>
      BY <1>3 DEF Send
    <2>3. Chosen' = Chosen
      BY <2>1, <2>2, NothingStored DEF Places
    <2>. QED  BY <2>2, <2>3, ReadersRest
  <1>4. CASE Take
    <2>1. 1 \in 1..Len(queue) /\ Head(queue) = queue[1] /\ Head(queue) \in Records
      BY <1>4 DEF Take, QueueInv, WriterTypeOK
    <2>2. record[Head(queue)] # "stored"
      BY <2>1 DEF QueueInv, QueueIsQueued
    <2>3. Put(Head(queue), "taken") /\ UNCHANGED <<stream, export, late>>
      BY <1>4 DEF Take
    <2>4. Chosen' = Chosen
      BY <2>1, <2>2, <2>3, NothingStored DEF Places
    <2>. QED  BY <2>3, <2>4, ReadersRest
  <1>5. ASSUME NEW n \in Records, Insert(n) PROVE ReaderInv'
    <2>1. UNCHANGED <<stream, export>> /\ record[n] # "stored"
      BY <1>5 DEF Insert
    <2>2. CASE /\ Put(n, "stored")
               /\ late' = IF n \in Selected /\ n <= stream.cursor THEN late \union {n} ELSE late
      <3>1. Chosen \subseteq Chosen' /\ Chosen' \subseteq Chosen \union {n}
        BY <2>2, OneStored
      <3>2. ASSUME NEW m \in Chosen', stream.from < m, m <= stream.cursor
            PROVE  m \in Range(stream.sent) \union late'
        <4>1. CASE m \in Chosen
          <5>1. m \in Range(stream.sent) \union late
            BY <3>2, <4>1 DEF ReaderInv, StreamInv
          <5>2. late \subseteq late'
            BY <2>2
          <5>. QED  BY <5>1, <5>2
        <4>2. CASE m = n
          <5>1. n \in Selected
            BY <4>2 DEF Chosen
          <5>. QED  BY <2>2, <3>2, <4>2, <5>1
        <4>. QED  BY <3>1, <4>1, <4>2
      <3>3. StreamInv'
        BY <2>1, <3>2 DEF ReaderInv, StreamInv
      <3>4. ExportInv'
        BY <2>1, <3>1 DEF ReaderInv, ExportInv
      <3>. QED  BY <3>3, <3>4 DEF ReaderInv
    <2>3. CASE (Put(n, "failed") \/ Put(n, "dropped") \/ Put(n, "lost")) /\ UNCHANGED late
      <3>1. Chosen' = Chosen
        BY <2>1, <2>3, NothingStored DEF Places
      <3>. QED  BY <2>1, <2>3, <3>1, ReadersRest
    <2>. QED  BY <1>5, <2>2, <2>3 DEF Insert
  <1>6. CASE UNCHANGED <<record, stream, export, late>>
    <2>1. Chosen' = Chosen
      BY <1>6 DEF Chosen, Stored
    <2>. QED  BY <1>6, <2>1, ReadersRest
  <1>7. CASE Signal \/ CloseWriter \/ WriterClosed \/ Exit
    <2>1. UNCHANGED <<record, stream, export, late>>
      BY <1>7, Zenon DEF Signal, CloseWriter, WriterClosed, Exit, Enter
    <2>. QED  BY <1>6, <2>1
  <1>8. CASE Connect
    <2>1. UNCHANGED <<record, export>>
      BY <1>8 DEF Connect
    <2>2. Chosen' = Chosen
      BY <2>1 DEF Chosen, Stored
    <2>3. CASE /\ stream.sent # <<>> /\ UNCHANGED late
               /\ stream' = [stream EXCEPT !.open = TRUE, !.cursor = Last(stream.sent)]
      <3>1. stream' = [stream EXCEPT !.open = TRUE, !.cursor = stream.cursor]
        BY <2>3 DEF ReaderInv, StreamInv
      <3>2. stream' \in [open : BOOLEAN, from : Nat, cursor : Nat, sent : Seq(Records)]
            /\ stream'.sent = stream.sent /\ stream'.cursor = stream.cursor
            /\ stream'.from = stream.from
        BY <3>1 DEF ReaderInv, StreamInv
      <3>3. StreamInv'
        BY <2>2, <2>3, <3>2 DEF ReaderInv, StreamInv
      <3>4. ExportInv'
        BY <2>1, <2>2, Zenon DEF ReaderInv, ExportInv
      <3>. QED  BY <3>3, <3>4 DEF ReaderInv
    <2>4. ASSUME stream.sent = <<>>, NEW k \in 0..MaxRecords,
                 stream' = [stream EXCEPT !.open = TRUE, !.from = k, !.cursor = k]
          PROVE  ReaderInv'
      <3>1. k \in Nat
        OBVIOUS
      <3>2. stream' \in [open : BOOLEAN, from : Nat, cursor : Nat, sent : Seq(Records)]
            /\ stream'.sent = stream.sent /\ stream'.cursor = k /\ stream'.from = k
        BY <2>4, <3>1 DEF ReaderInv, StreamInv
      <3>3. \A n \in Records : ~(k < n /\ n <= k)
        BY <3>1, AuditAssumption DEF Records
      <3>4. \A n \in Chosen' : ~(stream'.from < n /\ n <= stream'.cursor)
        BY <2>2, <3>2, <3>3 DEF Chosen, Stored
      <3>5. Increasing(stream'.sent) /\ stream'.sent = <<>>
        BY <2>4, <3>2 DEF ReaderInv, StreamInv
      <3>6. StreamInv'
        BY <3>2, <3>4, <3>5, Zenon DEF StreamInv
      <3>7. ExportInv'
        BY <2>1, <2>2, Zenon DEF ReaderInv, ExportInv
      <3>. QED  BY <3>6, <3>7 DEF ReaderInv
    <2>. QED  BY <1>8, <2>3, <2>4 DEF Connect
  <1>9. CASE Poll
    BY <1>9, PollStep
  <1>10. CASE Disconnect
    <2>1. UNCHANGED <<record, export, late>> /\ stream' = [stream EXCEPT !.open = FALSE]
      BY <1>10 DEF Disconnect
    <2>2. Chosen' = Chosen
      BY <2>1 DEF Chosen, Stored
    <2>3. stream' \in [open : BOOLEAN, from : Nat, cursor : Nat, sent : Seq(Records)]
          /\ stream'.sent = stream.sent /\ stream'.cursor = stream.cursor
          /\ stream'.from = stream.from
      BY <2>1 DEF ReaderInv, StreamInv
    <2>4. StreamInv'
      BY <2>1, <2>2, <2>3 DEF ReaderInv, StreamInv
    <2>5. ExportInv'
      BY <2>1, <2>2, Zenon DEF ReaderInv, ExportInv
    <2>. QED  BY <2>4, <2>5 DEF ReaderInv
  <1>11. CASE StartExport
    <2>1. UNCHANGED <<record, stream, late>>
          /\ export' = [at |-> "paging", cursor |-> MaxRecords + 1, lines |-> <<>>, before |-> Chosen]
      BY <1>11 DEF StartExport
    <2>2. Chosen' = Chosen /\ Chosen \in SUBSET Records
      BY <2>1 DEF Chosen, Stored
    <2>3. /\ export'.lines = <<>> /\ export'.cursor = MaxRecords + 1 /\ export'.before = Chosen
          /\ export'.at = "paging"
      BY <2>1
    <2>4. <<>> \in Seq(Records) /\ DOMAIN <<>> = {} /\ MaxRecords + 1 \in Nat
      BY AuditAssumption
    <2>5. export' \in [at : {"idle", "paging", "done", "broken"}, cursor : Nat,
                       lines : Seq(Records), before : SUBSET Records]
      BY <2>1, <2>2, <2>4
    <2>6. \A n \in Records : ~(n >= MaxRecords + 1)
      BY AuditAssumption DEF Records
    <2>7. \A n \in export'.before : ~(n >= export'.cursor)
      BY <2>2, <2>3, <2>6
    <2>8. DOMAIN export'.lines = {} /\ Decreasing(export'.lines)
      BY <2>3, <2>4 DEF Decreasing
    <2>9. ExportInv'
      BY <2>2, <2>3, <2>5, <2>7, <2>8 DEF ExportInv
    <2>10. StreamInv'
      BY <2>1, <2>2, Zenon DEF ReaderInv, StreamInv
    <2>. QED  BY <2>9, <2>10 DEF ReaderInv
  <1>12. CASE ExportPage
    BY <1>12, ExportStep
  <1>13. CASE ExportBreaks
    <2>1. UNCHANGED <<record, stream, late>> /\ export' = [export EXCEPT !.at = "broken"]
      BY <1>13 DEF ExportBreaks
    <2>2. Chosen' = Chosen
      BY <2>1 DEF Chosen, Stored
    <2>3. export' \in [at : {"idle", "paging", "done", "broken"}, cursor : Nat,
                       lines : Seq(Records), before : SUBSET Records]
          /\ export'.at = "broken"
      BY <2>1 DEF ReaderInv, ExportInv
    <2>4. ExportInv'
      BY <2>3 DEF ExportInv
    <2>5. StreamInv'
      BY <2>1, <2>2, Zenon DEF ReaderInv, StreamInv
    <2>. QED  BY <2>4, <2>5 DEF ReaderInv
  <1>14. CASE UNCHANGED auditVars
    BY <1>6, <1>14, Zenon DEF auditVars
  <1>. QED
    BY <1>1, <1>2, <1>3, <1>4, <1>5, <1>7, <1>8, <1>9, <1>10, <1>11, <1>12, <1>13, <1>14
       DEF AuditNext

(* No reader has begun when the server starts.                                *)
LEMMA ReadersInit == AuditInit => ReaderInv
  <1> SUFFICES ASSUME AuditInit PROVE ReaderInv
    OBVIOUS
  <1>1. /\ stream = [open |-> FALSE, from |-> 0, cursor |-> 0, sent |-> <<>>]
        /\ export = [at |-> "idle", cursor |-> 0, lines |-> <<>>, before |-> {}]
        /\ \A n \in Records : record[n] # "stored"
    BY DEF AuditInit
  <1>2. <<>> \in Seq(Records) /\ DOMAIN <<>> = {}
    OBVIOUS
  <1>3. Chosen = {}
    BY <1>1 DEF Chosen, Stored
  <1>4. stream.sent = <<>> /\ export.at = "idle"
    BY <1>1
  <1>5. stream \in [open : BOOLEAN, from : Nat, cursor : Nat, sent : Seq(Records)]
    BY <1>1, <1>2
  <1>6. export \in [at : {"idle", "paging", "done", "broken"}, cursor : Nat,
                    lines : Seq(Records), before : SUBSET Records]
    BY <1>1, <1>2
  <1>7. Increasing(stream.sent)
    BY <1>2, <1>4 DEF Increasing
  <1>8. StreamInv
    BY <1>3, <1>4, <1>5, <1>7 DEF StreamInv
  <1>9. ExportInv
    BY <1>4, <1>6 DEF ExportInv
  <1>. QED  BY <1>8, <1>9 DEF ReaderInv

(* The event stream and the export of the audit log, which grows while they   *)
(* read and out of order, leave nothing out but events behind the stream.     *)
THEOREM ReadersSeeAll == AuditSpec => []ReadersMissNothing
  <1>1. QueueInv /\ ReaderInv /\ [AuditNext]_auditVars => (QueueInv /\ ReaderInv)'
    BY QueueStep, ReadersStep
  <1>2. ReaderInv => ReadersMissNothing
    BY DEF ReaderInv, StreamInv, ExportInv, Increasing, Decreasing,
           ReadersMissNothing, StreamSkipsOnlyLate, ExportIsComplete
  <1>. QED
    BY <1>1, <1>2, QueueInit, ReadersInit, PTL DEF AuditSpec

(* Writer.Close loses no record of the queue and no Submit panics, whatever   *)
(* the requests, the writer and the readers do meanwhile, unless a deadline   *)
(* of the shutdown passed.                                                    *)
THEOREM TheQueueIsDrained == AuditSpec => []QueueIsDrained
  <1>1. QueueInv => QueueIsDrained
    BY DEF QueueInv, ShutdownInOrder, PlacesIn, QueueIsDrained
  <1>. QED
    BY <1>1, QueueInit, QueueStep, PTL DEF AuditSpec

-----------------------------------------------------------------------------
(* The list of projects *)

OnBoard == DOMAIN column
InBoardOrder(s) == \A i, j \in DOMAIN s : i < j => BoardPrecedes(s[i], s[j])
ShownProjects == {board.lines[k] : k \in DOMAIN board.lines}

(* While nobody pins and pages are read in the order of the cursor, the lines *)
(* that a reader has are those up to its cursor, each once, whatever the      *)
(* length of the pages.                                                       *)
BoardInv ==
    /\ column \in Boards
    /\ pinned \in SUBSET OnBoard
    /\ board \in [at : {"idle", "paging", "done"}, cursor : {<<>>} \union ({0, 1} \X OnBoard),
                  lines : Seq(OnBoard), moved : BOOLEAN, apart : BOOLEAN]
    /\ board.at = "idle" => board.cursor = <<>> /\ board.lines = <<>>
    /\ ~board.apart /\ ~board.moved =>
        /\ \A i, j \in DOMAIN board.lines : board.lines[i] = board.lines[j] => i = j
        /\ board.at # "done" => \A p \in OnBoard : AfterBoardCursor(p) <=> p \notin ShownProjects
        /\ board.at = "done" => ShownProjects = OnBoard

(* Ids and values are ordered, and the projects are finitely many.            *)
LEMMA BoardTypes ==
    ASSUME column \in Boards
    PROVE  /\ OnBoard \subseteq Int /\ IsFiniteSet(OnBoard)
           /\ \A p \in OnBoard : column[p] \in Int
           /\ \A p : BoardKey(p)[1] \in {0, 1}
<1>1. OnBoard \subseteq Int /\ IsFiniteSet(OnBoard) /\ column \in [DOMAIN column -> Int]
  BY ProjectListAssumption DEF ProjectListAssumption, OnBoard
<1>2. \A p \in DOMAIN column : column[p] \in Int
  BY <1>1
<1>. QED  BY <1>1, <1>2 DEF OnBoard, BoardKey

(* ORDER BY is a strict total order of the projects: their ids differ.        *)
LEMMA PrecedesIsOrder ==
    ASSUME column \in Boards, NEW p \in OnBoard, NEW q \in OnBoard
    PROVE  /\ ~BoardPrecedes(p, p)
           /\ p = q \/ BoardPrecedes(p, q) \/ BoardPrecedes(q, p)
           /\ \A r \in OnBoard : BoardPrecedes(p, q) /\ BoardPrecedes(q, r) => BoardPrecedes(p, r)
<1>1. \A r \in OnBoard : r \in Int /\ column[r] \in Int /\ BoardKey(r)[1] \in Int
                         /\ BoardKey(r)[2] = column[r]
  BY BoardTypes DEF BoardKey
<1> HIDE DEF OnBoard
<1>2. p \in Int /\ q \in Int /\ column[p] \in Int /\ column[q] \in Int
      /\ BoardKey(p)[1] \in Int /\ BoardKey(q)[1] \in Int
      /\ BoardKey(p)[2] = column[p] /\ BoardKey(q)[2] = column[q]
  BY <1>1
<1>3. ASSUME NEW r \in OnBoard, BoardPrecedes(p, q), BoardPrecedes(q, r)
      PROVE  BoardPrecedes(p, r)
  BY <1>1, <1>2, <1>3 DEF BoardPrecedes
<1>. QED  BY <1>2, <1>3 DEF BoardPrecedes

(* ORDER BY gives every project of a set, each once, in the order asked for.  *)
LEMMA BoardOrderLists ==
    ASSUME column \in Boards, NEW S \in SUBSET OnBoard
    PROVE  /\ BoardOrder(S) \in Seq(S) /\ InBoardOrder(BoardOrder(S))
           /\ \A p \in S : \E k \in 1..Len(BoardOrder(S)) : BoardOrder(S)[k] = p
<1> DEFINE R == {e \in S \X S : BoardPrecedes(e[1], e[2])}
           s == BoardOrder(S)
<1>1. \A p, q \in S : <<p, q>> \in R <=> BoardPrecedes(p, q)
  OBVIOUS
<1> HIDE DEF R
<1>2. IsFiniteSet(S)
  BY BoardTypes, FS_Subset
<1>3. TotalOrder(S, R)
  <2>1. \A p, q \in S : /\ ~BoardPrecedes(p, p)
                        /\ p = q \/ BoardPrecedes(p, q) \/ BoardPrecedes(q, p)
    BY PrecedesIsOrder
  <2>2. \A p, q, r \in S : BoardPrecedes(p, q) /\ BoardPrecedes(q, r) => BoardPrecedes(p, r)
    BY PrecedesIsOrder
  <2>. QED  BY <1>1, <2>1, <2>2 DEF TotalOrder
<1>4. \E t \in [1..Cardinality(S) -> S] : \A i, j \in DOMAIN t : i < j => BoardPrecedes(t[i], t[j])
  <2>1. PICK t : ListedBy(t, S, R)
    BY <1>2, <1>3, OrderLists
  <2>. QED  BY <1>1, <2>1 DEF ListedBy
<1>5. s \in [1..Cardinality(S) -> S] /\ InBoardOrder(s)
  BY <1>4, Zenon DEF BoardOrder, InBoardOrder
<1> HIDE DEF s
<1>6. ListedBy(s, S, R)
  BY <1>1, <1>5 DEF InBoardOrder, ListedBy
<1>7. s \in Seq(S) /\ \A p \in S : \E k \in 1..Len(s) : s[k] = p
  BY <1>2, <1>3, <1>6, OrderListsAll
<1>. QED  BY <1>5, <1>7 DEF s

(* Where the two orders agree, to come later in the list is to be below the   *)
(* cursor.                                                                    *)
LEMMA CursorIsPlace ==
    ASSUME column \in Boards, CursorOrders(OnBoard), NEW p \in OnBoard, NEW q \in OnBoard
    PROVE  BoardPrecedes(p, q) <=>
             BoardKey(p)[1] > BoardKey(q)[1] \/ (BoardKey(p)[1] = BoardKey(q)[1] /\ p > q)
<1>1. /\ p \in Int /\ q \in Int /\ column[p] \in Int /\ column[q] \in Int
      /\ BoardKey(p)[1] \in Int /\ BoardKey(q)[1] \in Int
      /\ BoardKey(p)[2] = column[p] /\ BoardKey(q)[2] = column[q]
  BY BoardTypes DEF BoardKey
<1>2. /\ BoardKey(p)[1] = BoardKey(q)[1] /\ p > q => column[p] >= column[q]
      /\ BoardKey(q)[1] = BoardKey(p)[1] /\ q > p => column[q] >= column[p]
  BY DEF CursorOrders
<1> HIDE DEF OnBoard
<1>. QED  BY <1>1, <1>2 DEF BoardPrecedes

(* A page is the first projects below the cursor, and moves it to its last    *)
(* one if there are more.                                                     *)
LEMMA PageOf ==
    ASSUME BoardInv, BoardPage
    PROVE  \E s \in Seq({p \in OnBoard : AfterBoardCursor(p)}), n \in Nat :
             /\ InBoardOrder(s) /\ n <= Len(s)
             /\ \A p \in OnBoard : AfterBoardCursor(p) => \E k \in 1..Len(s) : s[k] = p
             /\ board'.lines = board.lines \o SubSeq(s, 1, n) /\ board'.moved = board.moved
             /\ board'.apart <=> board.apart \/ ~CursorOrders(OnBoard)
             /\ board' \in [at : {"paging", "done"}, cursor : {<<>>} \union ({0, 1} \X OnBoard),
                            lines : Seq(OnBoard), moved : BOOLEAN, apart : BOOLEAN]
             /\ \/ board'.at = "done" /\ n = Len(s)
                \/ board'.at = "paging" /\ n > 0 /\ board'.cursor = <<BoardKey(s[n])[1], s[n]>>
<1> DEFINE S == {p \in OnBoard : AfterBoardCursor(p)}
           s == BoardOrder(S)
           more == Len(s) > BoardLimit
           n == IF more THEN BoardLimit ELSE Len(s)
           rows == SubSeq(s, 1, n)
           cursor == IF more THEN <<BoardKey(Last(rows))[1], Last(rows)>> ELSE board.cursor
           at == IF more THEN "paging" ELSE "done"
           apart == board.apart \/ ~CursorOrders(OnBoard)
<1>1. board' = [board EXCEPT !.at = at, !.lines = @ \o rows, !.cursor = cursor, !.apart = apart]
  BY DEF BoardPage, OnBoard
<1>0. apart \in BOOLEAN
  OBVIOUS
<1> HIDE DEF apart
<1>2. S \in SUBSET OnBoard /\ column \in Boards
  BY DEF BoardInv
<1>3. /\ s \in Seq(S) /\ InBoardOrder(s)
      /\ \A p \in S : \E k \in 1..Len(s) : s[k] = p
  BY <1>2, BoardOrderLists
<1> HIDE DEF S, s
<1>4. n \in Nat /\ n <= Len(s) /\ (more => n > 0) /\ (~more => n = Len(s)) /\ Len(s) \in Nat
  BY <1>3, ProjectListAssumption DEF ProjectListAssumption
<1> HIDE DEF n
<1>5. rows \in Seq(S) /\ Len(rows) = n /\ \A k \in 1..n : rows[k] = s[k] /\ s[k] \in S
  BY <1>3, <1>4
<1>6. rows \in Seq(OnBoard)
  BY <1>2, <1>5
<1> HIDE DEF rows
<1>7. ASSUME more
      PROVE  cursor = <<BoardKey(s[n])[1], s[n]>> /\ cursor \in {0, 1} \X OnBoard /\ at = "paging"
  <2>1. Last(rows) = s[n] /\ s[n] \in OnBoard
    BY <1>2, <1>4, <1>5, <1>7 DEF Last
  <2>2. BoardKey(s[n])[1] \in {0, 1}
    BY <1>2, BoardTypes
  <2>. QED  BY <1>7, <2>1, <2>2
<1>8. ~more => cursor = board.cursor /\ at = "done"
  OBVIOUS
<1> HIDE DEF more, cursor, at
<1>9. /\ board \in [at : {"idle", "paging", "done"}, cursor : {<<>>} \union ({0, 1} \X OnBoard),
                    lines : Seq(OnBoard), moved : BOOLEAN, apart : BOOLEAN]
      /\ board.lines \in Seq(OnBoard) /\ board.cursor \in {<<>>} \union ({0, 1} \X OnBoard)
  BY DEF BoardInv
<1>10. board.lines \o rows \in Seq(OnBoard)
  BY <1>6, <1>9
<1>11. at \in {"paging", "done"} /\ cursor \in {<<>>} \union ({0, 1} \X OnBoard)
  BY <1>7, <1>8, <1>9
<1>12. /\ board'.lines = board.lines \o rows /\ board'.moved = board.moved
       /\ board'.at = at /\ board'.cursor = cursor /\ board'.apart = apart
       /\ board' \in [at : {"paging", "done"}, cursor : {<<>>} \union ({0, 1} \X OnBoard),
                      lines : Seq(OnBoard), moved : BOOLEAN, apart : BOOLEAN]
  BY <1>0, <1>1, <1>9, <1>10, <1>11
<1>13. \A p \in OnBoard : AfterBoardCursor(p) => \E k \in 1..Len(s) : s[k] = p
  BY <1>3 DEF S
<1>. QED  BY <1>3, <1>4, <1>7, <1>8, <1>12, <1>13 DEF rows, S, apart

(* A page adds the lines that were missing up to the new cursor.              *)
LEMMA BoardPageStep == BoardInv /\ BoardPage => BoardInv'
<1> SUFFICES ASSUME BoardInv, BoardPage PROVE BoardInv'
  OBVIOUS
<1>1. PICK s \in Seq({p \in OnBoard : AfterBoardCursor(p)}), n \in Nat :
             /\ InBoardOrder(s) /\ n <= Len(s)
             /\ \A p \in OnBoard : AfterBoardCursor(p) => \E k \in 1..Len(s) : s[k] = p
             /\ board'.lines = board.lines \o SubSeq(s, 1, n) /\ board'.moved = board.moved
             /\ board'.apart <=> board.apart \/ ~CursorOrders(OnBoard)
             /\ board' \in [at : {"paging", "done"}, cursor : {<<>>} \union ({0, 1} \X OnBoard),
                            lines : Seq(OnBoard), moved : BOOLEAN, apart : BOOLEAN]
             /\ \/ board'.at = "done" /\ n = Len(s)
                \/ board'.at = "paging" /\ n > 0 /\ board'.cursor = <<BoardKey(s[n])[1], s[n]>>
  BY PageOf, Zenon
<1>2. UNCHANGED <<column, pinned>> /\ OnBoard' = OnBoard /\ board.at # "done"
  BY DEF BoardPage, OnBoard
<1>3. column \in Boards /\ board.lines \in Seq(OnBoard)
  BY DEF BoardInv
<1>4. /\ Len(s) \in Nat /\ n <= Len(s) /\ \A k \in 1..n : k \in 1..Len(s)
      /\ \A k \in 1..Len(s) : s[k] \in OnBoard /\ AfterBoardCursor(s[k])
      /\ \A i, j \in 1..Len(s) : i < j => BoardPrecedes(s[i], s[j])
  <2>1. n <= Len(s) /\ InBoardOrder(s)
    BY <1>1
  <2>. QED  BY <2>1 DEF InBoardOrder
<1>5. ~board'.apart => CursorOrders(OnBoard) /\ ~board.apart
  BY <1>1
<1>6. ASSUME CursorOrders(OnBoard), ~board.apart, ~board.moved
      PROVE  /\ \A i, j \in DOMAIN board'.lines : board'.lines[i] = board'.lines[j] => i = j
             /\ board'.at # "done" => \A p \in OnBoard : AfterBoardCursor(p)' <=> p \notin ShownProjects'
             /\ board'.at = "done" => ShownProjects' = OnBoard
  <2> DEFINE rows == SubSeq(s, 1, n)
             m == Len(board.lines)
             lines == board'.lines
  <2>1. /\ \A i, j \in 1..m : board.lines[i] = board.lines[j] => i = j
        /\ \A p \in OnBoard : AfterBoardCursor(p) <=> p \notin ShownProjects
        /\ ShownProjects = {board.lines[k] : k \in 1..m} /\ m \in Nat
    BY <1>2, <1>3, <1>6 DEF BoardInv, ShownProjects
  <2>2. rows \in Seq(OnBoard) /\ Len(rows) = n /\ \A k \in 1..n : rows[k] = s[k]
    BY <1>1
  <2>3. /\ lines = board.lines \o rows
        /\ DOMAIN lines = 1..m + n
        /\ \A k \in 1..m : lines[k] = board.lines[k]
        /\ \A k \in m + 1..m + n : lines[k] = s[k - m] /\ k - m \in 1..n
    <3>1. lines = board.lines \o rows
      BY <1>1
    <3> HIDE DEF rows, lines
    <3>2. board.lines \in Seq(OnBoard) /\ rows \in Seq(OnBoard) /\ Len(rows) = n
      BY <1>3, <2>2
    <3>3. Appended(board.lines, rows, m, n, lines)
      BY <3>1, <3>2, LinesAppended
    <3> HIDE DEF m
    <3>4. \A k \in m + 1..m + n : lines[k] = s[k - m] /\ k - m \in 1..n
      BY <2>2, <3>3 DEF Appended
    <3>. QED  BY <3>1, <3>3, <3>4 DEF Appended
  <2> HIDE DEF rows, lines, m
  <2>4. \A i, j \in 1..n : i < j => BoardPrecedes(s[i], s[j])
    BY <1>4
  <2>5. \A i, j \in 1..n : s[i] = s[j] => i = j
    <3> SUFFICES ASSUME NEW i \in 1..n, NEW j \in 1..n, i < j PROVE s[i] # s[j]
      OBVIOUS
    <3>1. s[i] \in OnBoard /\ s[j] \in OnBoard /\ BoardPrecedes(s[i], s[j])
      BY <1>4, <2>4
    <3>. QED  BY <1>3, <3>1, PrecedesIsOrder
  <2>6. \A i \in 1..m, j \in 1..n : board.lines[i] # s[j]
    <3>1. \A i \in 1..m : board.lines[i] \in ShownProjects
      BY <2>1
    <3>2. \A j \in 1..n : s[j] \notin ShownProjects
      BY <1>4, <2>1
    <3>. QED  BY <3>1, <3>2
  <2>7. \A i, j \in 1..m + n : lines[i] = lines[j] => i = j
    <3> SUFFICES ASSUME NEW i \in 1..m + n, NEW j \in 1..m + n, lines[i] = lines[j], i <= j
                 PROVE  i = j
      BY <2>1
    <3>0. m \in Nat /\ i \in Int /\ j \in Int
      BY <2>1
    <3>1. CASE j <= m
      <4>1. i \in 1..m /\ j \in 1..m
        BY <3>0, <3>1
      <4>. QED  BY <2>1, <2>3, <4>1
    <3>2. CASE i <= m /\ j > m
      <4>1. i \in 1..m /\ j \in m + 1..m + n
        BY <3>0, <3>2
      <4>. QED  BY <2>3, <2>6, <4>1
    <3>3. CASE i > m
      <4>1. i \in m + 1..m + n /\ j \in m + 1..m + n
        BY <3>0, <3>3
      <4>2. s[i - m] = s[j - m] /\ i - m \in 1..n /\ j - m \in 1..n
        BY <2>3, <4>1
      <4>3. i - m = j - m
        BY <2>5, <4>2
      <4>. QED  BY <3>0, <4>3
    <3>. QED  BY <3>0, <3>1, <3>2, <3>3
  <2>8. \A p : p \in ShownProjects' <=> p \in ShownProjects \/ \E k \in 1..n : s[k] = p
    <3>1. ShownProjects' = {lines[k] : k \in 1..m + n}
      BY <2>3 DEF ShownProjects, lines
    <3>2. \A k \in 1..m : k \in 1..m + n
      BY <1>1, <2>1
    <3>3. \A k \in 1..n : k + m \in m + 1..m + n /\ (k + m) - m = k
      BY <1>1, <2>1
    <3>4. \A k \in m + 1..m + n : k \in 1..m + n
      BY <1>1, <2>1
    <3>5. \A k \in 1..m + n : k \in 1..m \/ k \in m + 1..m + n
      BY <1>1, <2>1
    <3>6. \A k \in 1..n : lines[k + m] = s[k] /\ k + m \in 1..m + n
      BY <2>3, <3>3, <3>4
    <3>7. ASSUME NEW p \in ShownProjects'
          PROVE  p \in ShownProjects \/ \E k \in 1..n : s[k] = p
      <4>1. PICK k \in 1..m + n : p = lines[k]
        BY <3>1, <3>7
      <4>2. k \in 1..m => lines[k] \in ShownProjects
        BY <2>1, <2>3
      <4>3. k \in m + 1..m + n => lines[k] = s[k - m] /\ k - m \in 1..n
        BY <2>3
      <4>. QED  BY <3>5, <4>1, <4>2, <4>3
    <3>8. ASSUME NEW p, p \in ShownProjects \/ \E k \in 1..n : s[k] = p
          PROVE  p \in ShownProjects'
      <4>1. CASE p \in ShownProjects
        <5>1. PICK k \in 1..m : p = board.lines[k]
          BY <2>1, <4>1
        <5>2. p = lines[k] /\ k \in 1..m + n
          BY <2>3, <3>2, <5>1
        <5>. QED  BY <3>1, <5>2
      <4>2. CASE \E k \in 1..n : s[k] = p
        BY <3>1, <3>6, <4>2
      <4>. QED  BY <3>8, <4>1, <4>2
    <3>. QED  BY <3>7, <3>8
  <2>9. ASSUME board'.at = "done"
        PROVE  ShownProjects' = OnBoard
    <3>1. n = Len(s)
      BY <1>1, <2>9
    <3>2. \A p \in OnBoard : p \in ShownProjects'
      BY <1>1, <2>1, <2>8, <3>1
    <3>3. \A p \in ShownProjects : p \in OnBoard
      BY <1>3, <2>1 DEF m
    <3>4. \A p \in ShownProjects' : p \in OnBoard
      <4>1. \A k \in 1..n : s[k] \in OnBoard
        BY <1>4
      <4>. QED  BY <2>8, <3>3, <4>1
    <3>. QED  BY <3>2, <3>4
  <2>10. ASSUME board'.at # "done", NEW p \in OnBoard
         PROVE  AfterBoardCursor(p)' <=> p \notin ShownProjects'
    <3> DEFINE last == s[n]
    <3>1. n \in 1..Len(s) /\ board'.cursor = <<BoardKey(last)[1], last>>
      BY <1>1, <2>10
    <3>2. last \in OnBoard /\ AfterBoardCursor(last)
      BY <1>4, <3>1
    <3>3. \A q : BoardKey(q)' = BoardKey(q)
      BY <1>2 DEF BoardKey
    <3>4. AfterBoardCursor(p)' <=> BoardPrecedes(last, p)
      <4>1. board'.cursor # <<>> /\ board'.cursor[1] = BoardKey(last)[1] /\ board'.cursor[2] = last
        BY <3>1
      <4>2. AfterBoardCursor(p)' <=> BoardKey(last)[1] > BoardKey(p)[1]
                                     \/ (BoardKey(last)[1] = BoardKey(p)[1] /\ last > p)
        BY <3>3, <4>1 DEF AfterBoardCursor
      <4>. QED  BY <1>3, <1>6, <3>2, <4>2, CursorIsPlace
    <3>5. CASE ~AfterBoardCursor(p)
      <4>1. p \in ShownProjects'
        BY <2>1, <2>8, <3>5
      <4>2. ~BoardPrecedes(last, p)
        <5>1. /\ p \in Int /\ last \in Int /\ BoardKey(p)[1] \in Int /\ BoardKey(last)[1] \in Int
          BY <1>3, <3>2, BoardTypes
        <5>2. board.cursor # <<>> /\ board.cursor \in {<<>>} \union ({0, 1} \X OnBoard)
          BY <3>5 DEF BoardInv, AfterBoardCursor
        <5>3. board.cursor[1] \in Int /\ board.cursor[2] \in Int
          <6>1. \A q \in OnBoard : q \in Int
            BY <1>3, BoardTypes
          <6>. QED  BY <5>2, <6>1
        <5>4. /\ board.cursor[1] > BoardKey(last)[1]
                 \/ (board.cursor[1] = BoardKey(last)[1] /\ board.cursor[2] > last)
              /\ ~(\/ board.cursor[1] > BoardKey(p)[1]
                   \/ (board.cursor[1] = BoardKey(p)[1] /\ board.cursor[2] > p))
          <6> HIDE DEF last
          <6>1. AfterBoardCursor(last) /\ ~AfterBoardCursor(p) /\ board.cursor # <<>>
            BY <3>2, <3>5, <5>2
          <6>. QED  BY <6>1, Zenon DEF AfterBoardCursor
        <5>5. BoardPrecedes(last, p) => BoardKey(last)[1] > BoardKey(p)[1]
                                     \/ (BoardKey(last)[1] = BoardKey(p)[1] /\ last > p)
          BY <1>3, <1>6, <3>2, CursorIsPlace
        <5> HIDE DEF last
        <5>. QED  BY <5>1, <5>3, <5>4, <5>5
      <4>. QED  BY <3>4, <4>1, <4>2
    <3>6. CASE AfterBoardCursor(p)
      <4>1. PICK k \in 1..Len(s) : s[k] = p
        BY <1>1, <3>6
      <4>2. p \in ShownProjects' <=> \E i \in 1..n : s[i] = p
        <5>1. \A q \in OnBoard : AfterBoardCursor(q) <=> q \notin ShownProjects
          BY <2>1, Zenon
        <5>2. p \notin ShownProjects
          BY <3>6, <5>1
        <5>. QED  BY <2>8, <5>2, Zenon
      <4>3. \A i, j \in 1..Len(s) : i < j => BoardPrecedes(s[i], s[j])
        <5>1. DOMAIN s = 1..Len(s) /\ InBoardOrder(s)
          BY <1>1
        <5>. QED  BY <5>1 DEF InBoardOrder
      <4>4. CASE k <= n
        <5>1. k \in 1..n /\ p \in ShownProjects'
          BY <1>1, <4>1, <4>2, <4>4
        <5>2. p = last \/ BoardPrecedes(p, last)
          BY <3>1, <4>1, <4>3, <5>1
        <5>3. ~BoardPrecedes(last, p)
          BY <1>3, <3>2, <5>2, PrecedesIsOrder
        <5>. QED  BY <3>4, <5>1, <5>3
      <4>5. CASE k > n
        <5>1. BoardPrecedes(last, p)
          BY <3>1, <4>1, <4>3, <4>5
        <5>2. ASSUME NEW i \in 1..n, s[i] = p
              PROVE  FALSE
          <6>1. BoardPrecedes(s[i], s[k])
            <7>1. i \in 1..Len(s) /\ i < k
              BY <1>4, <4>1, <4>5
            <7>. QED  BY <4>1, <4>3, <7>1
          <6>. QED  BY <1>3, <4>1, <5>2, <6>1, PrecedesIsOrder
        <5>. QED  BY <3>4, <4>2, <5>1, <5>2
      <4>. QED  BY <1>1, <1>4, <4>1, <4>4, <4>5
    <3>. QED  BY <3>5, <3>6
  <2>. QED  BY <2>3, <2>7, <2>9, <2>10 DEF lines
<1>7. /\ board' \in [at : {"idle", "paging", "done"}, cursor : {<<>>} \union ({0, 1} \X OnBoard),
                     lines : Seq(OnBoard), moved : BOOLEAN, apart : BOOLEAN]
      /\ board'.at # "idle"
  BY <1>1
<1>8. column' \in Boards /\ pinned' \in SUBSET OnBoard
  BY <1>2 DEF BoardInv
<1>. QED  BY <1>1, <1>2, <1>6, <1>5, <1>7, <1>8 DEF BoardInv

(* A pin ends what is known of the lines read; before the first page there    *)
(* are none.                                                                  *)
LEMMA PinStep ==
    ASSUME BoardInv, NEW p \in DOMAIN column, Pin(p)
    PROVE  BoardInv'
<1>1. column' = column /\ OnBoard' = OnBoard /\ pinned' \in SUBSET OnBoard
  BY DEF Pin, OnBoard, BoardInv
<1> DEFINE reading == board.at # "idle"
<1>2. reading \in BOOLEAN /\ (reading => board.at # "idle") /\ (~reading => board.at = "idle")
  OBVIOUS
<1>3. board' = [board EXCEPT !.moved = reading]
  BY DEF Pin
<1> HIDE DEF reading
<1>4. board \in [at : {"idle", "paging", "done"}, cursor : {<<>>} \union ({0, 1} \X OnBoard),
                 lines : Seq(OnBoard), moved : BOOLEAN, apart : BOOLEAN]
  BY DEF BoardInv
<1>5. /\ board' \in [at : {"idle", "paging", "done"}, cursor : {<<>>} \union ({0, 1} \X OnBoard),
                     lines : Seq(OnBoard), moved : BOOLEAN, apart : BOOLEAN]
      /\ board'.at = board.at /\ board'.cursor = board.cursor /\ board'.lines = board.lines
      /\ board'.moved = reading /\ board'.apart = board.apart
  BY <1>2, <1>3, <1>4
<1>6. CASE reading
  BY <1>1, <1>2, <1>5, <1>6 DEF BoardInv
<1>7. CASE ~reading
  <2>1. board'.at = "idle" /\ board'.cursor = <<>> /\ board'.lines = <<>>
    BY <1>2, <1>5, <1>7 DEF BoardInv
  <2>2. ShownProjects' = {} /\ DOMAIN board'.lines = {} /\ \A q : AfterBoardCursor(q)'
    BY <2>1 DEF ShownProjects, AfterBoardCursor
  <2>. QED  BY <1>1, <1>5, <2>1, <2>2 DEF BoardInv
<1>. QED  BY <1>6, <1>7

(* What the list is ordered by is not in the cursor.                          *)
LEMMA ReorderStep ==
    ASSUME BoardInv, NEW p \in DOMAIN column, Reorder(p)
    PROVE  BoardInv'
<1>1. column' \in Boards /\ DOMAIN column' = DOMAIN column /\ UNCHANGED <<pinned, board>>
  BY DEF Reorder
<1>2. OnBoard' = OnBoard /\ ShownProjects' = ShownProjects
  BY <1>1 DEF OnBoard, ShownProjects
<1>3. \A q : BoardKey(q)'[1] = BoardKey(q)[1]
  BY <1>1 DEF BoardKey
<1>4. \A q : AfterBoardCursor(q)' <=> AfterBoardCursor(q)
  BY <1>1, <1>3 DEF AfterBoardCursor
<1>. QED  BY <1>1, <1>2, <1>4 DEF BoardInv

(* The reader starts with no line and no cursor.                              *)
LEMMA BoardStart == BoardInit => BoardInv
<1> SUFFICES ASSUME BoardInit PROVE BoardInv
  OBVIOUS
<1>1. board.at = "idle" /\ board.cursor = <<>> /\ board.lines = <<>> /\ board.moved = FALSE
  BY DEF BoardInit
<1>2. board \in [at : {"idle", "paging", "done"}, cursor : {<<>>} \union ({0, 1} \X OnBoard),
                 lines : Seq(OnBoard), moved : BOOLEAN, apart : BOOLEAN]
  BY DEF BoardInit
<1>3. ShownProjects = {} /\ DOMAIN board.lines = {} /\ \A q : AfterBoardCursor(q)
  BY <1>1 DEF ShownProjects, AfterBoardCursor
<1>. QED  BY <1>1, <1>2, <1>3 DEF BoardInit, BoardInv, OnBoard

(* For any number of projects, any page length and any values of the column,  *)
(* changing between the pages or not, the pages of the list of projects show  *)
(* every project once, unless one is pinned or unpinned meanwhile or the      *)
(* order asked for disagrees, when a page is read, with that of (pinned, id), *)
(* which is all the cursor knows (List of projects_repo.go).                  *)
THEOREM EveryProjectIsListed == BoardSpec => []BoardIsComplete
<1>1. BoardInv /\ [BoardNext]_boardVars => BoardInv'
  <2> SUFFICES ASSUME BoardInv, [BoardNext]_boardVars PROVE BoardInv'
    OBVIOUS
  <2>1. CASE UNCHANGED boardVars
    BY <2>1 DEF boardVars, BoardInv, OnBoard, ShownProjects, CursorOrders, BoardKey, AfterBoardCursor
  <2>. QED  BY <2>1, BoardPageStep, PinStep, ReorderStep DEF BoardNext
<1>2. BoardInv => BoardIsComplete
  <2> SUFFICES ASSUME BoardInv, board.at = "done", ~board.apart, ~board.moved,
                      NEW p \in OnBoard
               PROVE  Cardinality({k \in DOMAIN board.lines : board.lines[k] = p}) = 1
    BY DEF BoardIsComplete, OnBoard
  <2>1. PICK k \in DOMAIN board.lines : board.lines[k] = p
    BY DEF BoardInv, ShownProjects
  <2>2. {i \in DOMAIN board.lines : board.lines[i] = p} = {k}
    BY <2>1 DEF BoardInv
  <2>. QED  BY <2>2, FS_Singleton
<1>. QED  BY <1>1, <1>2, BoardStart, PTL DEF BoardSpec

-----------------------------------------------------------------------------
(* The lists of findings *)

SortsBefore(q, f, g) == Precedes(Column(q.sort, f), f, Column(q.sort, g), g, q.dir)
\* What is left to give to the reader q.
ToCome(q) == {f \in Matching(q.filter) : AfterCursor(q, f)}
ShownFindings == {page.lines[k] : k \in DOMAIN page.lines}
Summed(component, lines) ==
    [severity |-> Counts(Severity, lines), cve |-> Counts(CvesOf, lines),
     component |-> Counts(component, lines)]

LinesOK ==
    /\ \A i, j \in DOMAIN page.lines : i < j => SortsBefore(page, page.lines[i], page.lines[j])
    /\ \A f \in page.first \ page.moved :
          f \in ShownFindings \/ (page.at = "paging" /\ AfterCursor(page, f))

SumsOK ==
    /\ page.total \in {0, Cardinality(page.first)}
    /\ page.format = "xlsx" => page.sums = Summed(Component, page.lines)
    /\ page.format = "html" /\ page.at = "done" => page.sums = Summed(NamedComponent, page.lines)

\* A page that is not the last is full, and the cursor is its last finding.
CursorOK ==
    \/ page.lines = <<>> /\ page.cursor = 0
    \/ Len(page.lines) >= BatchLimit /\ page.cursor = Last(page.lines)

(* A reader has, in the order asked for, all that matched from the start and  *)
(* is not below its cursor, and keeps the counts of its lines; for another    *)
(* sort than first_seen only as long as it has one page.                      *)
PageOK ==
    /\ page.lines \in Seq(Findings) /\ page.first \in SUBSET Findings
    /\ page.at = "paging" =>
         /\ \A f \in page.first \ page.moved : f \in Matching(page.filter)
         /\ page.moved = {} => Matching(page.filter) = page.first
         /\ CursorOK
    /\ page.sort = "first_seen" \/ OnePage(page) => LinesOK
    /\ page.moved = {} => ShownFindings \subseteq page.first
    /\ SumsOK

ListingInv ==
    /\ present \in SUBSET Findings
    /\ DOMAIN status = Findings
    /\ DOMAIN page = DOMAIN NoPage
    /\ page.at \in {"idle", "paging", "done"}
    /\ page.at # "idle" => PageOK

(* ORDER BY is a strict total order of the findings: their ids differ.        *)
LEMMA SortIsOrder ==
    ASSUME NEW q, NEW f \in Findings, NEW g \in Findings, NEW h \in Findings
    PROVE  /\ ~SortsBefore(q, f, f)
           /\ f = g \/ SortsBefore(q, f, g) \/ SortsBefore(q, g, f)
           /\ SortsBefore(q, f, g) /\ SortsBefore(q, g, h) => SortsBefore(q, f, h)
<1>1. \A e \in Findings : e \in Int /\ Column(q.sort, e) \in Int
  <2>1. \A e \in Findings : e \in Int /\ Data[e].severity \in Int /\ Data[e].seen \in Int
    BY ListingAssumption DEF ListingAssumption
  <2>2. \A e : Column(q.sort, e) \in {Data[e].severity, Data[e].seen}
    BY DEF Column
  <2>. QED  BY <2>1, <2>2
<1>2. f \in Int /\ g \in Int /\ h \in Int
      /\ Column(q.sort, f) \in Int /\ Column(q.sort, g) \in Int /\ Column(q.sort, h) \in Int
  BY <1>1
<1>. QED  BY <1>2 DEF SortsBefore, Precedes

(* A page of List gives the first findings below the cursor, in the order     *)
(* asked for: all of them, or as many as the limit allows.                    *)
LEMMA RowsInOrder ==
    ASSUME present \in SUBSET Findings, NEW q
    PROVE  /\ Rows(q) \in Seq(ToCome(q)) /\ Len(Rows(q)) <= BatchLimit
           /\ \A i, j \in 1..Len(Rows(q)) : i < j => SortsBefore(q, Rows(q)[i], Rows(q)[j])
           /\ \A f \in ToCome(q) :
                \/ \E k \in 1..Len(Rows(q)) : Rows(q)[k] = f
                \/ Len(Rows(q)) = BatchLimit /\ \A k \in 1..Len(Rows(q)) : SortsBefore(q, Rows(q)[k], f)
<1> DEFINE S == ToCome(q)
           R == {e \in S \X S : SortsBefore(q, e[1], e[2])}
           N == IF Cardinality(S) < BatchLimit THEN Cardinality(S) ELSE BatchLimit
           rows == Rows(q)
<1>1. S \in SUBSET Findings /\ IsFiniteSet(S) /\ Cardinality(S) \in Nat
  <2>1. S \in SUBSET Findings
    BY DEF ToCome, Matching
  <2>. QED  BY <2>1, ListingAssumption, FS_Subset, FS_CardinalityType DEF ListingAssumption
<1>2. \A f, g \in S : <<f, g>> \in R <=> SortsBefore(q, f, g)
  OBVIOUS
<1>3. TotalOrder(S, R)
  <2> HIDE DEF R, S
  <2>1. \A f, g \in S : ~SortsBefore(q, f, f) /\ (f = g \/ SortsBefore(q, f, g) \/ SortsBefore(q, g, f))
    BY <1>1, SortIsOrder
  <2>2. \A f, g, h \in S : SortsBefore(q, f, g) /\ SortsBefore(q, g, h) => SortsBefore(q, f, h)
    BY <1>1, SortIsOrder
  <2>. QED  BY <1>2, <2>1, <2>2 DEF TotalOrder
<1>4. /\ \A f \in S : PlaceIn(S, R, f) \in 1..Cardinality(S)
      /\ \A f, g \in S : <<f, g>> \in R <=> PlaceIn(S, R, f) < PlaceIn(S, R, g)
      /\ \A i \in 1..Cardinality(S) : \E f \in S : PlaceIn(S, R, f) = i
  BY <1>1, <1>3, PlacesAreTaken
<1>5. N \in Nat /\ N <= BatchLimit /\ {n \in 1..BatchLimit : n <= Cardinality(S)} = 1..N
  BY <1>1, ListingAssumption DEF ListingAssumption
<1>6. rows = [k \in 1..N |-> CHOOSE f \in S : PlaceIn(S, R, f) = k]
  <2>1. \A f \in S : Cardinality({g \in S : Precedes(Column(q.sort, g), g, Column(q.sort, f), f, q.dir)}) + 1
                       = PlaceIn(S, R, f)
    BY DEF PlaceIn, Before, SortsBefore
  <2>2. rows = [k \in {n \in 1..BatchLimit : n <= Cardinality(S)} |->
                  CHOOSE f \in S : Cardinality({g \in S :
                    Precedes(Column(q.sort, g), g, Column(q.sort, f), f, q.dir)}) + 1 = k]
    BY Zenon DEF Rows, ToCome
  <2> HIDE DEF S, R, N
  <2>3. \A k : (CHOOSE f \in S : Cardinality({g \in S :
                  Precedes(Column(q.sort, g), g, Column(q.sort, f), f, q.dir)}) + 1 = k)
             = (CHOOSE f \in S : PlaceIn(S, R, f) = k)
    BY <2>1, Zenon
  <2>. QED  BY <1>5, <2>2, <2>3, Zenon
<1> HIDE DEF S, R, rows
<1>7. \A k \in 1..N : rows[k] \in S /\ PlaceIn(S, R, rows[k]) = k
  <2>1. \A k \in 1..N : k \in 1..Cardinality(S)
    BY <1>1, <1>5
  <2> HIDE DEF N
  <2>. QED  BY <1>4, <1>6, <2>1
<1>8. N <= Cardinality(S) /\ (N < Cardinality(S) => N = BatchLimit)
  BY <1>1, ListingAssumption DEF ListingAssumption
<1> HIDE DEF N
<1>9. rows \in Seq(S) /\ Len(rows) = N
  BY <1>5, <1>6, <1>7
<1>10. ASSUME NEW i \in 1..N, NEW j \in 1..N, i < j
       PROVE  SortsBefore(q, rows[i], rows[j])
  BY <1>2, <1>4, <1>7, <1>10
<1>11. ASSUME NEW f \in S
       PROVE  \/ \E k \in 1..N : rows[k] = f
              \/ N = BatchLimit /\ \A k \in 1..N : SortsBefore(q, rows[k], f)
  <2> DEFINE p == PlaceIn(S, R, f)
  <2>1. p \in 1..Cardinality(S)
    BY <1>4
  <2>2. CASE p <= N
    <3>1. p \in 1..N
      BY <2>1, <2>2
    <3>2. rows[p] \in S /\ PlaceIn(S, R, rows[p]) = PlaceIn(S, R, f)
      BY <1>7, <3>1
    <3>3. <<rows[p], f>> \notin R /\ <<f, rows[p]>> \notin R
      <4>1. PlaceIn(S, R, f) \in Int
        BY <1>4
      <4>. QED  BY <1>4, <3>2, <4>1
    <3>4. rows[p] = f
      BY <1>3, <3>2, <3>3 DEF TotalOrder
    <3>. QED  BY <3>1, <3>4
  <2>3. CASE p > N
    <3>1. N = BatchLimit
      BY <1>1, <1>5, <1>8, <2>1, <2>3
    <3>2. \A k \in 1..N : SortsBefore(q, rows[k], f)
      <4>1. \A k \in 1..N : PlaceIn(S, R, rows[k]) < PlaceIn(S, R, f) /\ rows[k] \in S
        BY <1>5, <1>7, <2>1, <2>3
      <4>. QED  BY <1>2, <1>4, <4>1
    <3>. QED  BY <3>1, <3>2
  <2>. QED  BY <1>5, <2>1, <2>2, <2>3
<1>12. Len(rows) <= BatchLimit
  BY <1>5, <1>9
<1>. QED  BY <1>9, <1>10, <1>11, <1>12 DEF S, rows

(* The counts of two lists of rows add up to those of one after the other.    *)
LEMMA CountsAdd ==
    ASSUME NEW keys, NEW lines \in Seq(Findings), NEW rows \in Seq(Findings)
    PROVE  Plus(Counts(keys, lines), Counts(keys, rows)) = Counts(keys, lines \o rows)
<1> DEFINE all == lines \o rows
           K == UNION {keys[f] : f \in Findings}
           m == Len(lines)
           n == Len(rows)
<1>1. Appended(lines, rows, m, n, all) /\ DOMAIN lines = 1..m /\ DOMAIN rows = 1..n
  BY LinesAppended
<1> HIDE DEF all, m, n
<1>2. ASSUME NEW k \in K
      PROVE  Cardinality({i \in DOMAIN lines : k \in keys[lines[i]]})
               + Cardinality({i \in DOMAIN rows : k \in keys[rows[i]]})
             = Cardinality({i \in DOMAIN all : k \in keys[all[i]]})
  <2> DEFINE A == {i \in 1..m : k \in keys[lines[i]]}
             B == {i \in 1..n : k \in keys[rows[i]]}
             C == {i \in m + 1..m + n : k \in keys[rows[i - m]]}
             shift == [i \in B |-> i + m]
  <2>1. m \in Nat /\ n \in Nat
    BY <1>1 DEF Appended
  <2>2. {i \in DOMAIN all : k \in keys[all[i]]} = A \union C
    <3>1. DOMAIN all = (1..m) \union (m + 1..m + n)
      BY <1>1, <2>1 DEF Appended
    <3>. QED  BY <1>1, <3>1 DEF Appended
  <2>3. A \intersect C = {}
    BY <2>1
  <2>4. IsFiniteSet(A) /\ IsFiniteSet(B)
    <3>1. IsFiniteSet(1..m) /\ IsFiniteSet(1..n)
      BY <2>1, FS_Interval
    <3>. QED  BY <3>1, FS_Subset
  <2>5. shift \in Bijection(B, C)
    <3>1. \A i \in B : i + m \in C
      BY <2>1
    <3>2. \A j \in C : j - m \in B /\ (j - m) + m = j
      BY <2>1
    <3>3. \A i, j \in B : i + m = j + m => i = j
      BY <2>1
    <3> HIDE DEF B, C
    <3>. QED  BY <3>1, <3>2, <3>3 DEF Bijection, Injection, Surjection, IsInjective
  <2> HIDE DEF A, B, C, shift
  <2>6. IsFiniteSet(C) /\ Cardinality(C) = Cardinality(B)
    <3>1. ExistsBijection(B, C)
      BY <2>5, Zenon DEF ExistsBijection
    <3>. QED  BY <2>4, <3>1, FS_Bijection
  <2>7. Cardinality(A \union C) = Cardinality(A) + Cardinality(C)
    <3>1. Cardinality(A \union C) = Cardinality(A) + Cardinality(C) - Cardinality(A \intersect C)
      BY <2>4, <2>6, FS_Union
    <3>2. Cardinality(A) \in Nat /\ Cardinality(C) \in Nat /\ Cardinality(A \intersect C) = 0
      BY <2>3, <2>4, <2>6, FS_CardinalityType, FS_EmptySet
    <3>. QED  BY <3>1, <3>2
  <2>. QED  BY <1>1, <2>2, <2>6, <2>7 DEF A, B
<1> HIDE DEF K
<1>. QED  BY <1>2 DEF Plus, Counts, K, all

(* What the loops add to a reader keeps its promise.                          *)
LEMMA PageAdds ==
    ASSUME ListingInv, page.at = "paging", NEW sums, Shown(Rows(page), sums),
           UNCHANGED <<present, status>>,
           page.format = "xlsx" => sums = Summed(Component, page.lines \o Rows(page)),
           page.format = "html" => sums = Summed(NamedComponent, page.lines \o Rows(page))
    PROVE  ListingInv'
<1> DEFINE rows == Rows(page)
           all == page.lines \o rows
           cursor == CursorOf(rows, page.cursor)
           at == IF Len(rows) = BatchLimit THEN "paging" ELSE "done"
           m == Len(page.lines)
           n == Len(rows)
<1>1. PageOK /\ page.lines \in Seq(Findings) /\ CursorOK
  BY DEF ListingInv, PageOK
<1>2. /\ rows \in Seq(ToCome(page)) /\ n <= BatchLimit
      /\ \A i, j \in 1..n : i < j => SortsBefore(page, rows[i], rows[j])
      /\ \A f \in ToCome(page) :
           (\E k \in 1..n : rows[k] = f) \/ (n = BatchLimit /\ \A k \in 1..n : SortsBefore(page, rows[k], f))
  BY RowsInOrder DEF ListingInv
<1>3. \A f \in ToCome(page) : f \in Findings /\ f \in Matching(page.filter) /\ AfterCursor(page, f)
  BY DEF ToCome, Matching, ListingInv
<1>4. page' = [page EXCEPT !.lines = all, !.sums = sums, !.cursor = cursor, !.at = at]
  BY DEF Shown
<1> HIDE DEF rows
<1>5. rows \in Seq(Findings) /\ \A k \in 1..n : rows[k] \in ToCome(page)
  BY <1>2, <1>3
<1>6. Appended(page.lines, rows, m, n, all) /\ all \in Seq(Findings) /\ Len(all) = m + n
  BY <1>1, <1>5, LinesAppended
<1>7. DOMAIN page = {"at", "format", "sort", "dir", "filter", "cursor", "lines", "total", "sums",
                     "first", "moved"}
  BY DEF ListingInv, NoPage
<1> HIDE DEF all, cursor, at
<1>8. /\ page'.lines = all /\ page'.sums = sums /\ page'.cursor = cursor /\ page'.at = at
      /\ UNCHANGED <<page.format, page.sort, page.dir, page.filter, page.total, page.first, page.moved>>
      /\ DOMAIN page' = DOMAIN page
  BY <1>4, <1>7
<1>9. /\ at \in {"paging", "done"} /\ (at = "paging" <=> n = BatchLimit)
      /\ m \in Nat /\ n \in Nat /\ BatchLimit \in Nat \ {0}
  BY <1>6, ListingAssumption DEF at, Appended, ListingAssumption
<1>10. /\ DOMAIN all = 1..m + n /\ DOMAIN page.lines = 1..m
       /\ \A k \in 1..m : all[k] = page.lines[k] /\ page.lines[k] \in Findings
       /\ \A k \in m + 1..m + n : all[k] = rows[k - m] /\ k - m \in 1..n
  BY <1>1, <1>6 DEF Appended
<1>11. ASSUME n = BatchLimit
       PROVE  /\ cursor = rows[n] /\ cursor = Last(all) /\ cursor \in Findings /\ n \in 1..n
              /\ Len(all) >= BatchLimit
  <2>1. rows # <<>> /\ n \in 1..n
    BY <1>5, <1>9, <1>11
  <2>2. cursor = rows[n]
    BY <2>1 DEF cursor, CursorOf, Last
  <2>3. m + n \in m + 1..m + n /\ (m + n) - m = n
    BY <1>9, <2>1
  <2>4. Last(all) = rows[n]
    BY <1>6, <1>10, <2>3 DEF Last
  <2>. QED  BY <1>3, <1>5, <1>6, <1>9, <1>11, <2>1, <2>2, <2>4
<1>12. \A f : f \in ShownFindings' <=> f \in ShownFindings \/ \E k \in 1..n : rows[k] = f
  <2>1. ShownFindings' = {all[k] : k \in 1..m + n} /\ ShownFindings = {page.lines[k] : k \in 1..m}
    BY <1>8, <1>10 DEF ShownFindings
  <2>2. \A k \in 1..n : k + m \in m + 1..m + n /\ k + m \in 1..m + n /\ (k + m) - m = k
    BY <1>9
  <2>3. \A k \in 1..m : k \in 1..m + n
    BY <1>9
  <2>4. \A k \in 1..m + n : k \in 1..m \/ k \in m + 1..m + n
    BY <1>9
  <2>5. \A k \in 1..n : all[k + m] = rows[k] /\ k + m \in 1..m + n
    BY <1>10, <2>2
  <2> HIDE DEF m, n
  <2>. QED  BY <1>10, <2>1, <2>3, <2>4, <2>5
<1>13. (Matching(page.filter))' = Matching(page.filter)
  BY <1>8 DEF Matching, BaseWhere, Allows
<1>14. \A f, g : /\ SortsBefore(page, f, g)' <=> SortsBefore(page, f, g)
                 /\ page.sort = "first_seen" =>
                      (SortsBefore(page, f, g) <=> Precedes(Data[f].seen, f, Data[g].seen, g, page.dir))
  BY <1>8 DEF SortsBefore, Column
<1>15. ASSUME page.sort = "first_seen" \/ OnePage(page)'
       PROVE  LinesOK'
  <2>1. page.sort = "first_seen" \/ m + n < BatchLimit
    BY <1>6, <1>8, <1>15 DEF OnePage
  <2>2. page.sort = "first_seen" \/ (page.lines = <<>> /\ page.cursor = 0)
    <3>1. m >= BatchLimit => ~(m + n < BatchLimit)
      BY <1>9
    <3>. QED  BY <1>1, <2>1, <3>1 DEF CursorOK
  <2>3. LinesOK
    <3>1. m + n < BatchLimit => m < BatchLimit
      BY <1>9
    <3>. QED  BY <1>1, <2>1, <3>1 DEF PageOK, OnePage
  <2>4. ASSUME NEW i \in 1..m, NEW k \in 1..n
        PROVE  SortsBefore(page, page.lines[i], rows[k])
    <3>1. page.sort = "first_seen" /\ page.cursor = page.lines[m] /\ m \in 1..m
      BY <1>1, <1>9, <2>2 DEF CursorOK, Last
    <3>2. page.cursor \in Findings /\ page.cursor # 0
      BY <1>10, <3>1, ListingAssumption DEF ListingAssumption
    <3>3. rows[k] \in Findings /\ AfterCursor(page, rows[k])
      BY <1>3, <1>5
    <3>4. SortsBefore(page, page.lines[m], rows[k])
      BY <1>14, <3>1, <3>2, <3>3 DEF AfterCursor
    <3>5. i = m \/ SortsBefore(page, page.lines[i], page.lines[m])
      <4>1. i = m \/ i < m
        BY <1>9
      <4>. QED  BY <1>10, <2>3, <3>1, <4>1 DEF LinesOK
    <3>6. page.lines[i] \in Findings /\ page.lines[m] \in Findings
      BY <1>10, <3>1
    <3>7. PICK f \in Findings, g \in Findings, h \in Findings :
                 f = page.lines[i] /\ g = page.lines[m] /\ h = rows[k]
      BY <3>3, <3>6
    <3>8. SortsBefore(page, f, g) /\ SortsBefore(page, g, h) => SortsBefore(page, f, h)
      BY SortIsOrder
    <3>9. i = m => f = g
      BY <3>7
    <3>. QED  BY <3>4, <3>5, <3>7, <3>8, <3>9, Zenon
  <2>5. ASSUME NEW i \in 1..m + n, NEW j \in 1..m + n, i < j
        PROVE  SortsBefore(page, all[i], all[j])
    <3>0. m \in Nat /\ i \in Int /\ j \in Int
      BY <1>9
    <3>1. CASE j <= m
      <4>1. i \in 1..m /\ j \in 1..m
        BY <2>5, <3>0, <3>1
      <4>. QED  BY <1>10, <2>3, <2>5, <4>1 DEF LinesOK
    <3>2. CASE i <= m /\ j > m
      <4>1. i \in 1..m /\ j \in m + 1..m + n
        BY <3>0, <3>2
      <4>. QED  BY <1>10, <2>4, <4>1
    <3>3. CASE i > m
      <4>1. i \in m + 1..m + n /\ j \in m + 1..m + n /\ i - m < j - m
        BY <2>5, <3>0, <3>3
      <4>. QED  BY <1>2, <1>10, <4>1
    <3>. QED  BY <3>0, <3>1, <3>2, <3>3
  <2>6. ASSUME NEW f \in page.first \ page.moved
        PROVE  f \in ShownFindings' \/ (page'.at = "paging" /\ AfterCursor(page, f)')
    <3>1. CASE f \in ShownFindings
      BY <1>12, <3>1
    <3>2. CASE AfterCursor(page, f)
      <4>1. f \in ToCome(page)
        BY <1>1, <3>2 DEF PageOK, ToCome
      <4>2. CASE \E k \in 1..n : rows[k] = f
        BY <1>12, <4>2
      <4>3. CASE n = BatchLimit /\ \A k \in 1..n : SortsBefore(page, rows[k], f)
        <5>1. page.sort = "first_seen"
          BY <1>9, <2>1, <4>3
        <5>2. page'.cursor = rows[n] /\ SortsBefore(page, rows[n], f) /\ page'.at = "paging"
          BY <1>8, <1>9, <1>11, <4>3
        <5>3. Precedes(Data[page'.cursor].seen, page'.cursor, Data[f].seen, f, page'.dir)
          BY <1>8, <1>14, <5>1, <5>2
        <5>4. AfterCursor(page, f)'
          BY <5>3 DEF AfterCursor
        <5>. QED  BY <5>2, <5>4
      <4>. QED  BY <1>2, <4>1, <4>2, <4>3
    <3>. QED  BY <2>3, <3>1, <3>2 DEF LinesOK
  <2>7. \A i, j \in DOMAIN page'.lines : i < j => SortsBefore(page, page.lines[i], page.lines[j])'
    BY <1>8, <1>10, <1>14, <2>5
  <2>8. (page.first \ page.moved)' = page.first \ page.moved
    BY <1>8
  <2>. QED  BY <2>6, <2>7, <2>8 DEF LinesOK
<1>16. page.moved = {} => ShownFindings' \subseteq page.first
  <2> SUFFICES ASSUME page.moved = {}, NEW f \in ShownFindings' PROVE f \in page.first
    OBVIOUS
  <2>1. ShownFindings \subseteq page.first /\ Matching(page.filter) = page.first
    BY <1>1 DEF PageOK
  <2>2. \A k \in 1..n : rows[k] \in Matching(page.filter)
    BY <1>3, <1>5
  <2>. QED  BY <1>12, <2>1, <2>2
<1>17. SumsOK'
  <2>1. SumsOK
    BY <1>1 DEF PageOK
  <2>2. \A c : Summed(c, page.lines)' = Summed(c, all)
    BY <1>8 DEF Summed
  <2>3. page.total' \in {0, Cardinality(page'.first)}
    BY <1>8, <2>1 DEF SumsOK
  <2>4. page'.format = "xlsx" => page'.sums = Summed(Component, all)
    BY <1>8 DEF all, rows
  <2>5. page'.format = "html" => page'.sums = Summed(NamedComponent, all)
    BY <1>8 DEF all, rows
  <2>6. page'.lines = all
    BY <1>8
  <2>. QED  BY <2>3, <2>4, <2>5, <2>6 DEF SumsOK
<1>18. page'.at = "paging" => CursorOK'
  BY <1>8, <1>9, <1>11 DEF CursorOK
<1>19. PageOK'
  <2>1. page'.lines \in Seq(Findings) /\ page'.first \in SUBSET Findings
    BY <1>1, <1>6, <1>8 DEF PageOK
  <2>2. /\ \A f \in page'.first \ page'.moved : f \in (Matching(page.filter))'
        /\ page'.moved = {} => (Matching(page.filter))' = page'.first
    BY <1>1, <1>8, <1>13 DEF PageOK
  <2>3. page'.sort = "first_seen" \/ OnePage(page)' => LinesOK'
    BY <1>8, <1>15
  <2>4. page'.moved = {} => ShownFindings' \subseteq page'.first
    BY <1>8, <1>16
  <2>. QED  BY <1>17, <1>18, <2>1, <2>2, <2>3, <2>4 DEF PageOK
<1>20. DOMAIN page' = DOMAIN NoPage /\ page'.at \in {"idle", "paging", "done"}
  BY <1>8, <1>9 DEF ListingInv
<1>. QED  BY <1>19, <1>20 DEF ListingInv

(* A reader starts with no line, no cursor and what matches now.              *)
LEMMA StartsWhole ==
    ASSUME ListingInv, page.at = "idle", UNCHANGED <<present, status>>,
           NEW filter, page'.filter = filter, page'.first = Matching(filter),
           page'.total \in {0, Cardinality(Matching(filter))},
           page'.at = "paging", page'.cursor = 0, page'.lines = <<>>, page'.moved = {},
           page'.sums = NoSums, DOMAIN page' = DOMAIN NoPage
    PROVE  ListingInv'
<1>1. /\ page'.at = "paging" /\ page'.filter = filter /\ page'.cursor = 0
      /\ page'.lines = <<>> /\ page'.first = Matching(filter) /\ page'.moved = {}
      /\ page'.total \in {0, Cardinality(Matching(filter))}
      /\ page'.sums = NoSums /\ DOMAIN page' = DOMAIN NoPage
  OBVIOUS
<1>2. (Matching(page.filter))' = Matching(filter)
  BY <1>1 DEF Matching, BaseWhere, Allows
<1>3. \A f : AfterCursor(page, f)'
  BY <1>1 DEF AfterCursor
<1>4. LinesOK'
  BY <1>1, <1>3 DEF LinesOK
<1>5. SumsOK'
  <2>1. NoSums = Summed(Component, <<>>)
    BY DEF NoSums, Summed
  <2>. QED  BY <1>1, <2>1 DEF SumsOK, Summed
<1>6. PageOK'
  <2>1. page'.lines \in Seq(Findings) /\ page'.first \in SUBSET Findings /\ ShownFindings' = {}
    <3>1. Matching(filter) \in SUBSET Findings
      BY DEF Matching, ListingInv
    <3>. QED  BY <1>1, <3>1 DEF ShownFindings
  <2>. QED  BY <1>1, <1>2, <1>4, <1>5, <2>1 DEF PageOK, CursorOK
<1>. QED  BY <1>1, <1>6 DEF ListingInv

(* A finding that comes, goes or changes is one that the reader is not        *)
(* promised; the others match as before.                                      *)
LEMMA MovedKeeps ==
    ASSUME ListingInv, NEW f \in Findings, Moved(f), present' \in SUBSET Findings,
           DOMAIN status' = Findings,
           \A g \in Findings \ {f} : (g \in present' <=> g \in present) /\ status'[g] = status[g]
    PROVE  ListingInv'
<1>1. CASE page.at = "paging"
  <2>1. page' = [page EXCEPT !.moved = @ \union {f}]
    BY <1>1 DEF Moved
  <2>2. DOMAIN page = {"at", "format", "sort", "dir", "filter", "cursor", "lines", "total", "sums",
                       "first", "moved"}
    BY DEF ListingInv, NoPage
  <2>3. /\ UNCHANGED <<page.at, page.format, page.sort, page.dir, page.filter, page.cursor, page.lines,
                       page.total, page.sums, page.first>>
        /\ page'.moved = page.moved \union {f} /\ DOMAIN page' = DOMAIN page
    BY <2>1, <2>2
  <2>4. PageOK
    BY <1>1 DEF ListingInv
  <2>5. \A g \in page.first \ page'.moved : g \in (Matching(page.filter))'
    <3> SUFFICES ASSUME NEW g \in page.first \ page'.moved PROVE g \in (Matching(page.filter))'
      OBVIOUS
    <3>1. g \in Findings \ {f} /\ g \in Matching(page.filter)
      BY <1>1, <2>3, <2>4 DEF PageOK
    <3>2. status'[g] = status[g] /\ g \in present' /\ BaseWhere(page.filter, "", g)
      BY <3>1 DEF Matching
    <3>3. BaseWhere(page.filter, "", g)'
      BY <2>3, <3>2 DEF BaseWhere, Allows
    <3>. QED  BY <3>2, <3>3 DEF Matching
  <2>6. page'.moved # {}
    BY <2>3
  <2>7. \A g : AfterCursor(page, g)' <=> AfterCursor(page, g)
    BY <2>3 DEF AfterCursor
  <2>8. \A g, h : SortsBefore(page, g, h)' <=> SortsBefore(page, g, h)
    BY <2>3 DEF SortsBefore, Column
  <2>9. ShownFindings' = ShownFindings
    BY <2>3 DEF ShownFindings
  <2>10. LinesOK => LinesOK'
    BY <2>3, <2>7, <2>8, <2>9 DEF LinesOK
  <2>11. SumsOK'
    BY <2>3, <2>4 DEF PageOK, SumsOK, Summed
  <2>12. CursorOK' /\ (OnePage(page)' <=> OnePage(page))
    BY <1>1, <2>3, <2>4 DEF PageOK, CursorOK, OnePage
  <2>13. PageOK'
    BY <1>1, <2>3, <2>4, <2>5, <2>6, <2>10, <2>11, <2>12 DEF PageOK
  <2>. QED  BY <1>1, <2>3, <2>13 DEF ListingInv
<1>2. CASE page.at # "paging"
  <2>1. page' = page
    BY <1>2 DEF Moved
  <2>2. PageOK => PageOK'
    BY <1>2, <2>1
    DEF PageOK, LinesOK, SumsOK, Summed, ShownFindings, OnePage, SortsBefore, Column, AfterCursor
  <2>. QED  BY <1>2, <2>1, <2>2 DEF ListingInv
<1>. QED  BY <1>1, <1>2

(* The workbook counts as it goes, the report at the end: both count all of   *)
(* their lines.                                                               *)
LEMMA BatchKeeps ==
    ASSUME ListingInv, ListPage \/ CsvBatch \/ XlsxBatch \/ HtmlBatch
    PROVE  ListingInv'
<1> DEFINE rows == Rows(page)
           all == page.lines \o rows
<1>1. page.at = "paging" /\ UNCHANGED <<present, status>>
  BY DEF ListPage, CsvBatch, XlsxBatch, HtmlBatch, Reads
<1>2. page.lines \in Seq(Findings) /\ SumsOK
  BY <1>1 DEF ListingInv, PageOK
<1>3. rows \in Seq(Findings)
  <2>1. rows \in Seq(ToCome(page))
    BY RowsInOrder DEF ListingInv
  <2>2. ToCome(page) \subseteq Findings
    BY DEF ToCome, Matching, ListingInv
  <2> HIDE DEF rows
  <2>. QED  BY <2>1, <2>2
<1>4. CASE ListPage \/ CsvBatch
  <2>1. page.format \in {"list", "csv"} /\ Shown(rows, page.sums)
    BY <1>4 DEF ListPage, CsvBatch, Reads
  <2>. QED  BY <1>1, <2>1, PageAdds
<1>5. CASE XlsxBatch
  <2>1. page.format = "xlsx" /\ Shown(rows, Tallied(page.sums, rows))
    BY <1>5 DEF XlsxBatch, Reads
  <2>2. page.sums = Summed(Component, page.lines)
    BY <1>2, <2>1 DEF SumsOK
  <2>3. Tallied(page.sums, rows) = Summed(Component, all)
    <3>1. /\ page.sums.severity = Counts(Severity, page.lines)
          /\ page.sums.cve = Counts(CvesOf, page.lines)
          /\ page.sums.component = Counts(Component, page.lines)
      BY <2>2 DEF Summed
    <3> HIDE DEF rows, all
    <3>2. \A keys : Plus(Counts(keys, page.lines), Counts(keys, rows)) = Counts(keys, all)
      BY <1>2, <1>3, CountsAdd DEF all
    <3>. QED  BY <3>1, <3>2 DEF Tallied, Summed
  <2>. QED  BY <1>1, <2>1, <2>3, PageAdds
<1>6. CASE HtmlBatch
  <2>1. page.format = "html" /\ Shown(rows, Summed(NamedComponent, all))
    BY <1>6 DEF HtmlBatch, Reads, Summed, BuildSummary, BuildTopCVEs, BuildComponents
  <2>. QED  BY <1>1, <2>1, PageAdds
<1>. QED  BY <1>4, <1>5, <1>6

(* Before the first request there is no reader.                               *)
LEMMA ListingStart == ListingInit => ListingInv
<1> SUFFICES ASSUME ListingInit PROVE ListingInv
  OBVIOUS
<1>1. page = NoPage /\ page.at = "idle"
  BY DEF ListingInit, NoPage
<1>. QED  BY <1>1 DEF ListingInit, ListingInv

(* Requests, batches and changes of findings keep what readers are promised.  *)
LEMMA ListingStep == ListingInv /\ [ListingNext]_listingVars => ListingInv'
<1> SUFFICES ASSUME ListingInv, [ListingNext]_listingVars PROVE ListingInv'
  OBVIOUS
<1>1. ASSUME NEW f \in Findings, NewFinding(f) \/ ChangeStatus(f) \/ DeleteFinding(f)
      PROVE  ListingInv'
  <2>1. Moved(f) /\ present' \in SUBSET Findings
    BY <1>1 DEF NewFinding, ChangeStatus, DeleteFinding, ListingInv
  <2>2. DOMAIN status' = Findings /\ \A g \in Findings \ {f} : status'[g] = status[g]
    BY <1>1 DEF NewFinding, ChangeStatus, DeleteFinding, ListingInv
  <2>3. \A g \in Findings \ {f} : g \in present' <=> g \in present
    BY <1>1 DEF NewFinding, ChangeStatus, DeleteFinding
  <2>. QED  BY <2>1, <2>2, <2>3, MovedKeeps
<1>2. ASSUME NEW filter \in Filters, NEW sort, NEW dir, StartList(filter, sort, dir)
      PROVE  ListingInv'
  <2>1. /\ page'.filter = filter /\ page'.first = Matching(filter)
        /\ page'.total \in {0, Cardinality(Matching(filter))}
        /\ page'.at = "paging" /\ page'.cursor = 0 /\ page'.lines = <<>> /\ page'.moved = {}
        /\ page'.sums = NoSums /\ DOMAIN page' = DOMAIN NoPage
    BY <1>2 DEF StartList, NoPage
  <2>2. page.at = "idle" /\ UNCHANGED <<present, status>>
    BY <1>2 DEF StartList
  <2>. QED  BY <2>1, <2>2, StartsWhole
<1>3. ASSUME NEW filter \in Filters, NEW sort, NEW dir, NEW format, NEW total,
             total \in {0, Cardinality(Matching(Parsed(filter)))},
             Prepare(format, filter, sort, dir, total)
      PROVE  ListingInv'
  <2> DEFINE asked == Parsed(filter)
  <2>1. /\ page'.filter = asked /\ page'.first = Matching(asked)
        /\ page'.total \in {0, Cardinality(Matching(asked))}
        /\ page'.at = "paging" /\ page'.cursor = 0 /\ page'.lines = <<>> /\ page'.moved = {}
        /\ page'.sums = NoSums /\ DOMAIN page' = DOMAIN NoPage
    BY <1>3 DEF Prepare, NoPage
  <2>2. page.at = "idle" /\ UNCHANGED <<present, status>>
    BY <1>3 DEF Prepare
  <2> HIDE DEF asked
  <2>. QED  BY <2>1, <2>2, StartsWhole
<1>4. ASSUME NEW filter \in Filters, NEW sort, NEW dir, NEW format,
             PrepareExport(format, filter, sort, dir)
      PROVE  ListingInv'
  <2>1. CASE filter.empty
    BY <1>3, <1>4, <2>1 DEF PrepareExport
  <2>2. CASE ~filter.empty
    <3>1. Parsed(filter) = filter
      BY <2>2 DEF Parsed
    <3>. QED  BY <1>3, <1>4, <2>2, <3>1 DEF PrepareExport
  <2>. QED  BY <2>1, <2>2
<1>5. ASSUME NEW filter \in Filters, NEW sort, NEW dir, PrepareHtml(filter, sort, dir)
      PROVE  ListingInv'
  BY <1>3, <1>5 DEF PrepareHtml
<1>6. CASE ListPage \/ CsvBatch \/ XlsxBatch \/ HtmlBatch
  BY <1>6, BatchKeeps
<1>7. CASE UNCHANGED listingVars
  BY <1>7
  DEF listingVars, ListingInv, PageOK, LinesOK, SumsOK, CursorOK, Summed, ShownFindings, OnePage,
      SortsBefore, Column, AfterCursor, Matching, BaseWhere, Allows
<1>. QED  BY <1>1, <1>2, <1>4, <1>5, <1>6, <1>7 DEF ListingNext

(* For any findings, filters, length of pages and changes under the reader,   *)
(* all pages of a list or an export in the order of first_seen, or a single   *)
(* page in any order, give once each finding that matched at first and has    *)
(* not been changed since (List of findings_repo.go, export.go).              *)
THEOREM PagesAreWhole == ListingSpec => []PagesAreComplete
<1>1. ListingInv => PagesAreComplete
  <2> SUFFICES ASSUME ListingInv, page.at = "done", page.sort = "first_seen" \/ OnePage(page)
               PROVE  /\ \A f \in page.first \ page.moved : Times(f, page.lines) = 1
                      /\ \A f \in Findings : Times(f, page.lines) <= 1
    BY DEF PagesAreComplete
  <2>1. LinesOK /\ page.lines \in Seq(Findings)
    BY DEF ListingInv, PageOK
  <2>2. DOMAIN page.lines \subseteq Int /\ \A k \in DOMAIN page.lines : page.lines[k] \in Findings
    BY <2>1
  <2>3. ASSUME NEW i \in DOMAIN page.lines, NEW j \in DOMAIN page.lines, page.lines[i] = page.lines[j]
        PROVE  i = j
    <3>1. ~(i < j) /\ ~(j < i)
      <4>1. ~SortsBefore(page, page.lines[i], page.lines[i])
        BY <2>2, SortIsOrder
      <4>. QED  BY <2>1, <2>3, <4>1 DEF LinesOK
    <3>. QED  BY <2>2, <3>1
  <2>4. ASSUME NEW f, f \in ShownFindings
        PROVE  Times(f, page.lines) = 1
    <3>1. PICK k \in DOMAIN page.lines : page.lines[k] = f
      BY <2>4 DEF ShownFindings
    <3>2. {i \in DOMAIN page.lines : page.lines[i] = f} = {k}
      BY <2>3, <3>1
    <3>. QED  BY <3>2, FS_Singleton DEF Times
  <2>5. ASSUME NEW f, f \notin ShownFindings
        PROVE  Times(f, page.lines) = 0
    <3>1. {i \in DOMAIN page.lines : page.lines[i] = f} = {}
      BY <2>5 DEF ShownFindings
    <3>. QED  BY <3>1, FS_EmptySet DEF Times
  <2>6. \A f \in page.first \ page.moved : f \in ShownFindings
    BY <2>1 DEF LinesOK
  <2>7. \A f : Times(f, page.lines) \in {0, 1}
    BY <2>4, <2>5
  <2>. QED  BY <2>4, <2>6, <2>7
<1>. QED  BY <1>1, ListingStart, ListingStep, PTL DEF ListingSpec

(* The rows of an export in the order of first_seen, under which nothing has  *)
(* changed, are what matched at first, each once.                             *)
LEMMA AsManyAsMatched ==
    ASSUME ListingInv, page.at = "done", page.sort = "first_seen", page.moved = {}
    PROVE  Len(page.lines) = Cardinality(page.first)
<1> DEFINE n == Len(page.lines)
<1>1. LinesOK /\ page.lines \in Seq(Findings) /\ page.first \in SUBSET Findings
      /\ ShownFindings \subseteq page.first /\ page.first \subseteq ShownFindings
  BY DEF ListingInv, PageOK, LinesOK
<1>2. n \in Nat /\ DOMAIN page.lines = 1..n /\ \A k \in 1..n : page.lines[k] \in page.first
  BY <1>1 DEF ShownFindings
<1>3. ASSUME NEW i \in 1..n, NEW j \in 1..n, page.lines[i] = page.lines[j]
      PROVE  i = j
  <2>1. ~SortsBefore(page, page.lines[i], page.lines[i])
    BY <1>1, <1>2, SortIsOrder
  <2>2. ~(i < j) /\ ~(j < i)
    BY <1>1, <1>2, <1>3, <2>1 DEF LinesOK
  <2>. QED  BY <2>2
<1>4. page.lines \in [1..n -> page.first]
  <2>1. page.lines = [k \in 1..n |-> page.lines[k]]
    BY <1>1
  <2> HIDE DEF n
  <2>. QED  BY <1>2, <2>1
<1>5. \A f \in page.first : \E k \in 1..n : page.lines[k] = f
  BY <1>1, <1>2 DEF ShownFindings
<1> HIDE DEF n
<1>6. ExistsBijection(1..n, page.first)
  <2>1. page.lines \in Bijection(1..n, page.first)
    BY <1>3, <1>4, <1>5 DEF Bijection, Injection, Surjection, IsInjective
  <2>. QED  BY <2>1, Zenon DEF ExistsBijection
<1>7. IsFiniteSet(1..n) /\ Cardinality(1..n) = n
  BY <1>2, FS_Interval
<1>. QED  BY <1>6, <1>7, FS_Bijection DEF n

(* For any findings and filters, what an export counts is what its rows say,  *)
(* its total is their number unless something changed or the user has no      *)
(* project, and the number on a chip is the total of the list that choosing   *)
(* the chip gives (export.go, export_html.go, Facets of findings_repo.go).    *)
THEOREM NumbersAreTrue == ListingSpec => []CountsAreTrue
<1>1. ListingInv => ExportAddsUp
  <2> SUFFICES ASSUME ListingInv, page.at = "done", page.format \in {"xlsx", "html"}
               PROVE  /\ page.sums.severity = Counts(Severity, page.lines)
                      /\ page.sums.cve = Counts(CvesOf, page.lines)
                      /\ page.sums.component = Counts(IF page.format = "html" THEN NamedComponent
                                                       ELSE Component, page.lines)
                      /\ page.moved = {} /\ page.sort = "first_seen" /\ page.total > 0 =>
                           page.total = Len(page.lines)
    BY DEF ExportAddsUp
  <2>1. SumsOK
    BY DEF ListingInv, PageOK
  <2>2. page.sums = Summed(IF page.format = "html" THEN NamedComponent ELSE Component, page.lines)
    BY <2>1 DEF SumsOK
  <2>3. page.moved = {} /\ page.sort = "first_seen" /\ page.total > 0 => page.total = Len(page.lines)
    BY <2>1, AsManyAsMatched DEF SumsOK
  <2>. QED  BY <2>2, <2>3 DEF Summed
<1>2. ChipTellsTotal
  <2> SUFFICES ASSUME NEW filter \in Filters, NEW g \in Findings
               PROVE  /\ Facet(filter, "severity", Data[g].severity)
                           = Cardinality(Matching([filter EXCEPT !.severities = {Data[g].severity}]))
                      /\ Facet(filter, "status", status[g])
                           = Cardinality(Matching([filter EXCEPT !.statuses = {status[g]}]))
                      /\ Facet(filter, "project", Data[g].project)
                           = Cardinality(Matching([filter EXCEPT !.projects = {Data[g].project}]))
                      /\ EnrichmentFacet(filter) = Cardinality(Matching([filter EXCEPT !.hasCve = TRUE]))
    BY DEF ChipTellsTotal
  <2>1. filter \in [projects : SUBSET STRING, severities : SUBSET Int, statuses : SUBSET Int,
                    hasCve : BOOLEAN, empty : BOOLEAN]
    BY FiltersAssumption DEF FiltersAssumption
  <2>2. {f \in present : BaseWhere(filter, "severity", f) /\ Value("severity", f) = Data[g].severity}
          = Matching([filter EXCEPT !.severities = {Data[g].severity}])
    <3> DEFINE only == [filter EXCEPT !.severities = {Data[g].severity}]
    <3>1. /\ only.severities = {Data[g].severity} /\ only.projects = filter.projects
          /\ only.statuses = filter.statuses /\ (only.hasCve <=> filter.hasCve)
      BY <2>1
    <3> HIDE DEF only
    <3>2. ASSUME NEW f \in present
          PROVE  BaseWhere(filter, "severity", f) /\ Value("severity", f) = Data[g].severity
                     <=> BaseWhere(only, "", f)
      <4>1. Value("severity", f) = Data[f].severity
        BY DEF Value
      <4>2. Allows(only.severities, Data[f].severity) <=> Data[f].severity = Data[g].severity
        BY <3>1 DEF Allows
      <4>. QED  BY <3>1, <4>1, <4>2 DEF BaseWhere
    <3>. QED  BY <3>2, Zenon DEF Matching, only
  <2>3. {f \in present : BaseWhere(filter, "status", f) /\ Value("status", f) = status[g]}
          = Matching([filter EXCEPT !.statuses = {status[g]}])
    <3> DEFINE only == [filter EXCEPT !.statuses = {status[g]}]
    <3>1. /\ only.statuses = {status[g]} /\ only.projects = filter.projects
          /\ only.severities = filter.severities /\ (only.hasCve <=> filter.hasCve)
      BY <2>1
    <3> HIDE DEF only
    <3>2. ASSUME NEW f \in present
          PROVE  BaseWhere(filter, "status", f) /\ Value("status", f) = status[g]
                     <=> BaseWhere(only, "", f)
      <4>1. Value("status", f) = status[f]
        BY DEF Value
      <4>2. Allows(only.statuses, status[f]) <=> status[f] = status[g]
        BY <3>1 DEF Allows
      <4>. QED  BY <3>1, <4>1, <4>2 DEF BaseWhere
    <3>. QED  BY <3>2, Zenon DEF Matching, only
  <2>4. {f \in present : BaseWhere(filter, "project", f) /\ Value("project", f) = Data[g].project}
          = Matching([filter EXCEPT !.projects = {Data[g].project}])
    <3> DEFINE only == [filter EXCEPT !.projects = {Data[g].project}]
    <3>1. /\ only.projects = {Data[g].project} /\ only.severities = filter.severities
          /\ only.statuses = filter.statuses /\ (only.hasCve <=> filter.hasCve)
      BY <2>1
    <3> HIDE DEF only
    <3>2. ASSUME NEW f \in present
          PROVE  BaseWhere(filter, "project", f) /\ Value("project", f) = Data[g].project
                     <=> BaseWhere(only, "", f)
      <4>1. Value("project", f) = Data[f].project
        BY DEF Value
      <4>2. Allows(only.projects, Data[f].project) <=> Data[f].project = Data[g].project
        BY <3>1 DEF Allows
      <4>. QED  BY <3>1, <4>1, <4>2 DEF BaseWhere
    <3>. QED  BY <3>2, Zenon DEF Matching, only
  <2>5. {f \in present : BaseWhere(filter, "has_cve", f) /\ Data[f].cves # {}}
          = Matching([filter EXCEPT !.hasCve = TRUE])
    BY <2>1 DEF Matching, BaseWhere
  <2>. QED  BY <2>2, <2>3, <2>4, <2>5 DEF Facet, EnrichmentFacet
<1>3. ListingInv => CountsAreTrue
  BY <1>1, <1>2 DEF CountsAreTrue
<1>. QED  BY <1>3, ListingStart, ListingStep, PTL DEF ListingSpec

\* strings.LastIndex, for any word between the two.
LastOf(sep, key) ==
    CHOOSE n \in DOMAIN key : key[n] = sep /\ \A m \in DOMAIN key : m > n => key[m] # sep

(* Two names joined by a word that is not in the second are divided at its    *)
(* last place.                                                                *)
LEMMA DividedWhereJoined ==
    ASSUME NEW W, NEW sep \in W, NEW name \in Seq(W), NEW version \in Seq(W),
           sep \notin Range(version)
    PROVE  LET key == name \o <<sep>> \o version
           IN  /\ LastOf(sep, key) = Len(name) + 1
               /\ SubSeq(key, 1, LastOf(sep, key) - 1) = name
               /\ SubSeq(key, LastOf(sep, key) + 1, Len(key)) = version
<1> DEFINE key == name \o <<sep>> \o version
           m == Len(name)
           n == Len(version)
<1>1. /\ key \in Seq(W) /\ Len(key) = m + 1 + n /\ m \in Nat /\ n \in Nat
      /\ DOMAIN key = 1..m + 1 + n
  <2>1. <<sep>> \in Seq(W) /\ Len(<<sep>>) = 1
    OBVIOUS
  <2>2. name \o <<sep>> \in Seq(W) /\ Len(name \o <<sep>>) = m + 1
    BY <2>1
  <2>3. key \in Seq(W) /\ Len(key) = m + 1 + n /\ m \in Nat /\ n \in Nat
    BY <2>2
  <2> HIDE DEF key, m, n
  <2>. QED  BY <2>3
<1>2. /\ \A k \in 1..m : key[k] = name[k]
      /\ key[m + 1] = sep
      /\ \A k \in 1..n : key[m + 1 + k] = version[k]
  OBVIOUS
<1> HIDE DEF key
<1>3. \A k \in m + 2..m + 1 + n : key[k] # sep
  <2> SUFFICES ASSUME NEW k \in m + 2..m + 1 + n PROVE key[k] # sep
    OBVIOUS
  <2>1. k - (m + 1) \in 1..n /\ m + 1 + (k - (m + 1)) = k
    BY <1>1
  <2>2. key[k] = version[k - (m + 1)]
    BY <1>2, <2>1
  <2>3. version[k - (m + 1)] \in Range(version)
    BY <2>1 DEF Range
  <2>. QED  BY <2>2, <2>3
<1>4. LastOf(sep, key) = m + 1
  <2> DEFINE Last1(k) == key[k] = sep /\ \A j \in DOMAIN key : j > k => key[j] # sep
  <2>1. m + 1 \in DOMAIN key /\ Last1(m + 1)
    <3>1. \A j \in DOMAIN key : j > m + 1 => j \in m + 2..m + 1 + n
      BY <1>1
    <3>2. m + 1 \in DOMAIN key
      BY <1>1
    <3> HIDE DEF m, n
    <3>. QED  BY <1>2, <1>3, <3>1, <3>2
  <2>2. ASSUME NEW k \in DOMAIN key, Last1(k)
        PROVE  k = m + 1
    <3>1. ~(m + 1 > k)
      BY <1>2, <2>1, <2>2
    <3>2. ~(k > m + 1)
      <4>1. k > m + 1 => k \in m + 2..m + 1 + n
        BY <1>1
      <4>. QED  BY <1>3, <2>2, <4>1
    <3>. QED  BY <1>1, <3>1, <3>2
  <2>. QED  BY <2>1, <2>2, Zenon DEF LastOf
<1>5. SubSeq(key, 1, m) = name
  <2>1. \A k \in 1..m : key[k] = name[k] /\ k \in 1..m + 1 + n
    <3>1. \A k \in 1..m : k \in 1..m + 1 + n
      BY <1>1
    <3>. QED  BY <1>2, <3>1
  <2>. QED  BY <1>1, <2>1
<1>6. SubSeq(key, m + 2, m + 1 + n) = version
  <2>1. \A k \in 1..n : key[m + 2 + k - 1] = version[k]
    <3>1. \A k \in 1..n : m + 2 + k - 1 = m + 1 + k
      BY <1>1
    <3>. QED  BY <1>2, <3>1
  <2>2. \A k \in 1..n : m + 2 + k - 1 \in DOMAIN key
    BY <1>1
  <2> DEFINE from == SubSeq(key, m + 2, m + 1 + n)
  <2>3. from \in Seq(W) /\ Len(from) = n /\ \A k \in 1..n : from[k] = key[m + 2 + k - 1]
    BY <1>1, <2>2
  <2> HIDE DEF from
  <2>. QED  BY <2>1, <2>3 DEF from
<1>7. LastOf(sep, key) - 1 = m /\ LastOf(sep, key) + 1 = m + 2
  BY <1>1, <1>4
<1> HIDE DEF m, n
<1>. QED  BY <1>1, <1>4, <1>5, <1>6, <1>7 DEF key, m, n

(* A key of a component without an @ in its version is divided where it was   *)
(* joined.                                                                    *)
LEMMA ComponentDivided ==
    ASSUME NEW name \in Seq(Words), NEW version \in Seq(Words), "@" \notin Range(version)
    PROVE  LET key == name \o <<"@">> \o version
           IN  /\ SubSeq(key, 1, LastAt(key) - 1) = name
               /\ SubSeq(key, LastAt(key) + 1, Len(key)) = version
<1>1. "@" \in Words
  BY Zenon DEF Words
<1>2. \A key : LastAt(key) = LastOf("@", key)
  BY Zenon DEF LastAt, LastOf
<1> DEFINE key == name \o <<"@">> \o version
<1>3. /\ SubSeq(key, 1, LastOf("@", key) - 1) = name
      /\ SubSeq(key, LastOf("@", key) + 1, Len(key)) = version
  BY <1>1, DividedWhereJoined
<1> HIDE DEF key
<1>4. LastAt(key) = LastOf("@", key)
  BY <1>2, Zenon
<1>5. /\ SubSeq(key, 1, LastAt(key) - 1) = name
      /\ SubSeq(key, LastAt(key) + 1, Len(key)) = version
  BY <1>3, <1>4
<1>. QED  BY <1>5 DEF key

(* The key of a rule without a dash in or at the end of its id is cut behind  *)
(* the id.                                                                    *)
LEMMA RuleDivided ==
    ASSUME NEW W, NEW rule, NEW name, NEW key,
           "blank" \in W, "dash" \in W, rule \in Seq(W), name \in Seq(W),
           key = IF name = <<>> THEN rule ELSE rule \o <<"blank", "dash", "blank">> \o name,
           \A n \in DOMAIN rule : ~DashAt(key, n)
    PROVE  RuleOf(key) = rule
<1> DEFINE m == Len(rule)
           dash == <<"blank", "dash", "blank">>
<1>1. CASE name = <<>>
  <2>1. key = rule /\ ~\E n \in DOMAIN key : DashAt(key, n)
    BY <1>1
  <2>. QED  BY <2>1, Zenon DEF RuleOf
<1>2. CASE name # <<>>
  <2>1. dash \in Seq(W) /\ Len(dash) = 3 /\ dash[1] = "blank" /\ dash[2] = "dash" /\ dash[3] = "blank"
    OBVIOUS
  <2> HIDE DEF dash
  <2>2. key = rule \o dash \o name
    BY <1>2 DEF dash
  <2>3. /\ key \in Seq(W) /\ DOMAIN key = 1..m + 3 + Len(name) /\ DOMAIN rule = 1..m
        /\ \A k \in 1..m : key[k] = rule[k]
        /\ key[m + 1] = dash[1] /\ key[m + 2] = dash[2] /\ key[m + 3] = dash[3]
    <3> DEFINE head == rule \o dash
    <3>1. Appended(rule, dash, m, 3, head) /\ head \in Seq(W) /\ Len(head) = m + 3 /\ m \in Nat
      <4> HIDE DEF m
      <4>1. m = Len(rule) /\ m \in Nat
        BY DEF m
      <4>2. /\ Appended(rule, dash, Len(rule), Len(dash), head) /\ head \in Seq(W)
            /\ Len(head) = Len(rule) + Len(dash)
        BY <2>1, LinesAppended, Zenon
      <4> HIDE DEF head
      <4>. QED  BY <2>1, <4>1, <4>2
    <3>2. /\ Appended(head, name, m + 3, Len(name), key) /\ key \in Seq(W)
          /\ DOMAIN key = 1..m + 3 + Len(name) /\ DOMAIN rule = 1..m
      <4> HIDE DEF head
      <4>1. /\ Appended(head, name, Len(head), Len(name), head \o name)
            /\ head \o name \in Seq(W)
        BY <3>1, LinesAppended, Zenon
      <4>2. key = head \o name
        BY <2>2, Zenon DEF head
      <4>. QED  BY <3>1, <4>1, <4>2 DEF Appended
    <3> HIDE DEF head, m
    <3>3. \A k \in 1..m : k \in 1..m + 3
      BY <3>1
    <3>4. \A k \in 1..3 : m + k \in m + 1..m + 3 /\ m + k \in 1..m + 3 /\ (m + k) - m = k
      BY <3>1
    <3>5. \A k \in 1..3 : key[m + k] = dash[k]
      BY <3>1, <3>2, <3>4 DEF Appended
    <3>6. \A k \in 1..m : key[k] = rule[k]
      BY <3>1, <3>2, <3>3 DEF Appended
    <3>7. 1 \in 1..3 /\ 2 \in 1..3 /\ 3 \in 1..3
      OBVIOUS
    <3>. QED  BY <3>2, <3>5, <3>6, <3>7, Zenon
  <2>4. m \in Nat /\ Len(name) \in Nat
    OBVIOUS
  <2> HIDE DEF m
  <2>5. DashAt(key, m + 1) /\ m + 1 \in DOMAIN key
    <3>1. (m + 1) + 1 = m + 2 /\ (m + 1) + 2 = m + 3 /\ m + 3 \in 1..m + 3 + Len(name)
          /\ m + 1 \in 1..m + 3 + Len(name)
      BY <2>4
    <3>. QED  BY <2>1, <2>3, <3>1 DEF DashAt
  <2>6. \A k \in 1..m : ~DashAt(key, k)
    BY <2>3
  <2> DEFINE First(n) == DashAt(key, n) /\ \A k \in 1..n - 1 : ~DashAt(key, k)
  <2>7. First(m + 1)
    <3>1. (m + 1) - 1 = m
      BY <2>4
    <3>. QED  BY <2>5, <2>6, <3>1
  <2>8. ASSUME NEW n \in DOMAIN key, First(n)
        PROVE  n = m + 1
    <3>1. ~(n < m + 1)
      <4>1. n < m + 1 => n \in 1..m
        BY <2>3, <2>4
      <4>. QED  BY <2>6, <2>8, <4>1
    <3>2. ~(n > m + 1)
      <4>1. n > m + 1 => m + 1 \in 1..n - 1
        BY <2>3, <2>4
      <4>. QED  BY <2>5, <2>8, <4>1
    <3>. QED  BY <2>3, <2>4, <3>1, <3>2
  <2>9. (CHOOSE n \in DOMAIN key : First(n)) = m + 1
    BY <2>5, <2>7, <2>8, Zenon
  <2>10. RuleOf(key) = SubSeq(key, 1, (m + 1) - 1)
    BY <2>5, <2>9, Zenon DEF RuleOf
  <2>11. SubSeq(key, 1, m) = rule
    <3>1. \A k \in 1..m : key[k] = rule[k] /\ k \in DOMAIN key
      BY <2>3, <2>4
    <3>. QED  BY <2>3, <2>4, <3>1 DEF m
  <2>. QED  BY <2>4, <2>10, <2>11
<1>. QED  BY <1>1, <1>2

(* A fingerprint is not the key of a secret without one.                      *)
LEMMA PrintIsNoPlace ==
    ASSUME NEW print, NEW file, NEW rule \in Seq(Words)
    PROVE  <<print>> # rule \o <<":", file>>
<1>1. Len(<<print>>) = 1 /\ Len(rule \o <<":", file>>) = Len(rule) + 2 /\ Len(rule) \in Nat
  OBVIOUS
<1>. QED  BY <1>1

(* For any findings and any limit, a bulk action on a group takes the         *)
(* findings listed in it, unless it is refused or their key is not taken      *)
(* apart as it was put together (resolveGroupIDs of triage.go, ListGroups and *)
(* ListIDsByGroup of findings_repo.go).                                       *)
THEOREM BulkTakesTheGroup == ListingSpec => []GroupActsOnItsRows
<1>1. ASSUME ListingInv, NEW axis \in Axes, NEW f \in present, NEW key \in GroupKeys(axis, f),
             ~(axis = "rule" /\ \E g \in present :
                   Data[g].rule = Data[f].rule /\ Data[g].name # Data[f].name),
             ~(axis = "rule" /\ \E g \in GroupRows(axis, key) :
                   \E n \in DOMAIN Data[g].rule : DashAt(key, n)),
             ~(axis = "secret" /\ (Data[f].print = ""
                   \/ \E g \in present : Data[g].print = Data[f].print /\ ~Data[g].secret)),
             ~(axis = "component" /\ \E g \in present : "@" \in Range(Data[g].version))
      PROVE  {g \in present : InGroup(axis, key, g)} = GroupRows(axis, key)
  <2>1. CASE axis = "cve"
    <3>1. PICK c \in Data[f].cves : key = <<c>>
      BY <2>1 DEF GroupKeys
    <3>2. \A g : <<c>> \in {<<d>> : d \in Data[g].cves} <=> c \in Data[g].cves
      OBVIOUS
    <3>. QED  BY <2>1, <3>1, <3>2 DEF InGroup, GroupRows, GroupKeys
  <2>2. CASE axis = "component"
    <3>1. f \in Findings /\ \A g \in present : g \in Findings /\ "@" \notin Range(Data[g].version)
      BY <1>1, <2>2 DEF ListingInv
    <3>2. \A g \in present : Data[g].component \in Seq(Words) /\ Data[g].version \in Seq(Words)
      BY <3>1, NamesAssumption DEF NamesAssumption
    <3>3. \A g \in present : GroupKeys(axis, g) = {Data[g].component \o <<"@">> \o Data[g].version}
      BY <2>2, <3>1 DEF GroupKeys, Component
    <3>4. \A g \in present :
            LET k == Data[g].component \o <<"@">> \o Data[g].version
            IN  Data[g].component = SubSeq(k, 1, LastAt(k) - 1)
                /\ Data[g].version = SubSeq(k, LastAt(k) + 1, Len(k))
      <4> SUFFICES ASSUME NEW g \in present
                   PROVE  LET k == Data[g].component \o <<"@">> \o Data[g].version
                          IN  Data[g].component = SubSeq(k, 1, LastAt(k) - 1)
                              /\ Data[g].version = SubSeq(k, LastAt(k) + 1, Len(k))
        OBVIOUS
      <4>1. /\ Data[g].component \in Seq(Words) /\ Data[g].version \in Seq(Words)
            /\ "@" \notin Range(Data[g].version)
        BY <3>1, <3>2
      <4>. QED  BY <4>1, ComponentDivided, ZenonT(60)
    <3>5. key = Data[f].component \o <<"@">> \o Data[f].version
      BY <3>3
    <3> DEFINE name == SubSeq(key, 1, LastAt(key) - 1)
               version == SubSeq(key, LastAt(key) + 1, Len(key))
    <3>6. Data[f].component = name /\ Data[f].version = version
      BY <3>4, <3>5
    <3>7. \A g \in present : key \in GroupKeys(axis, g) <=> Data[g].component = name /\ Data[g].version = version
      <4> SUFFICES ASSUME NEW g \in present
                   PROVE  key \in GroupKeys(axis, g) <=> Data[g].component = name /\ Data[g].version = version
        OBVIOUS
      <4>1. key \in GroupKeys(axis, g)
                <=> key = Data[g].component \o <<"@">> \o Data[g].version
        BY <3>3
      <4>2. ASSUME key = Data[g].component \o <<"@">> \o Data[g].version
            PROVE  Data[g].component = name /\ Data[g].version = version
        BY <3>4, <4>2, Zenon
      <4>3. ASSUME Data[g].component = name, Data[g].version = version
            PROVE  key = Data[g].component \o <<"@">> \o Data[g].version
        BY <3>5, <3>6, <4>3, Zenon
      <4>. QED  BY <4>1, <4>2, <4>3, Zenon
    <3>8. \A g : InGroup(axis, key, g) <=> Data[g].component = name /\ Data[g].version = version
      BY <2>2 DEF InGroup
    <3> HIDE DEF name, version
    <3>. QED  BY <3>7, <3>8 DEF GroupRows
  <2>3. CASE axis = "rule"
    <3>1. \A g : key \in GroupKeys(axis, g) <=> key = RuleKey(g)
      BY <2>3 DEF GroupKeys
    <3>2. \A g \in present : Data[g].rule \in Seq(Words) /\ Data[g].name \in Seq(Words)
      BY <1>1, NamesAssumption DEF NamesAssumption, ListingInv
    <3>3. ASSUME NEW g \in present, key \in GroupKeys(axis, g)
          PROVE  RuleOf(key) = Data[g].rule
      <4>1. \A n \in DOMAIN Data[g].rule : ~DashAt(key, n)
        BY <1>1, <2>3, <3>3 DEF GroupRows
      <4>2. key = IF Data[g].name = <<>> THEN Data[g].rule
                  ELSE Data[g].rule \o <<"blank", "dash", "blank">> \o Data[g].name
        BY <3>1, <3>3, Zenon DEF RuleKey
      <4>3. "blank" \in Words /\ "dash" \in Words
        BY Zenon DEF Words
      <4>. QED  BY <3>2, <4>1, <4>2, <4>3, RuleDivided, Zenon
    <3>4. RuleOf(key) = Data[f].rule
      BY <1>1, <3>3
    <3>5. ASSUME NEW g \in present, Data[g].rule = RuleOf(key)
          PROVE  key \in GroupKeys(axis, g)
      <4>1. Data[g].name = Data[f].name
        BY <1>1, <2>3, <3>4, <3>5
      <4>. QED  BY <1>1, <3>1, <3>4, <3>5, <4>1, Zenon DEF RuleKey
    <3>6. \A g : InGroup(axis, key, g) <=> Data[g].rule = RuleOf(key)
      BY <2>3 DEF InGroup
    <3>. QED  BY <3>3, <3>5, <3>6, Zenon DEF GroupRows
  <2>4. CASE axis = "secret"
    <3>1. Data[f].print # "" /\ \A g \in present : Data[g].print = Data[f].print => Data[g].secret
      BY <1>1, <2>4
    <3>2. key = <<Data[f].print>>
      BY <2>4, <3>1 DEF GroupKeys
    <3>3. ASSUME NEW g \in present
          PROVE  key \in GroupKeys(axis, g) <=> Data[g].print # "" /\ <<Data[g].print>> = key
      <4>1. CASE Data[g].secret /\ Data[g].print # ""
        BY <2>4, <4>1 DEF GroupKeys
      <4>2. CASE Data[g].secret /\ Data[g].print = ""
        <5>1. GroupKeys(axis, g) = {Data[g].rule \o <<":", Data[g].file>>}
          BY <2>4, <4>2 DEF GroupKeys
        <5>2. Data[g].rule \in Seq(Words)
          BY <1>1, NamesAssumption DEF NamesAssumption, ListingInv
        <5>3. key # Data[g].rule \o <<":", Data[g].file>>
          BY <3>2, <5>2, PrintIsNoPlace, Zenon
        <5>. QED  BY <4>2, <5>1, <5>3
      <4>3. CASE ~Data[g].secret
        <5>1. GroupKeys(axis, g) = {}
          BY <2>4, <4>3 DEF GroupKeys
        <5>2. <<Data[g].print>> # key
          BY <3>1, <3>2, <4>3
        <5>. QED  BY <5>1, <5>2
      <4>. QED  BY <4>1, <4>2, <4>3
    <3>4. \A g : InGroup(axis, key, g) <=> Data[g].print # "" /\ <<Data[g].print>> = key
      BY <2>4 DEF InGroup
    <3>. QED  BY <3>3, <3>4 DEF GroupRows
  <2>. QED  BY <2>1, <2>2, <2>3, <2>4 DEF Axes
<1>2. ListingInv => GroupActsOnItsRows
  <2> SUFFICES ASSUME ListingInv, NEW axis \in Axes, NEW f \in present, NEW key \in GroupKeys(axis, f),
                      {g \in present : InGroup(axis, key, g)} = GroupRows(axis, key)
               PROVE  \/ GroupIds(axis, key) = GroupRows(axis, key)
                      \/ GroupIds(axis, key) = {}
                           /\ (key = <<>> \/ Cardinality(GroupRows(axis, key)) > BulkLimit)
    BY <1>1, Zenon DEF GroupActsOnItsRows
  <2>. QED  BY Zenon DEF GroupIds
<1>. QED  BY <1>2, ListingStart, ListingStep, PTL DEF ListingSpec

=============================================================================
