--------------------------- MODULE ServicesProofs ---------------------------
(***************************************************************************)
(* For any number of requests, slots, days, products, archives and         *)
(* failures: what the limit of logins, the slots of exports, the tables of *)
(* EPSS, the CPE dictionary and the loads of the catalogues promise.       *)
(***************************************************************************)
EXTENDS LoginRateLimit, ExportSlots, EpssScores, CpeDictionary, Catalogues,
        FiniteSetTheorems, TLAPS

-----------------------------------------------------------------------------
(* The limit of logins *)

(* The count is behind the requests that passed only when it was lost, never  *)
(* ahead: a request passes on a number that INCR has just raised.             *)
LimitInv ==
    /\ counter \in [count : Nat, expires : BOOLEAN]
    /\ passed \in Nat
    /\ passed <= counter.count
    /\ passed <= Limit

(* No command lets an attempt pass that the counter has not counted.        *)
LEMMA LimitStep == LimitInv /\ [LimitNext]_limitVars => LimitInv'
<1>. SUFFICES ASSUME LimitInv, [LimitNext]_limitVars PROVE LimitInv'
  OBVIOUS
<1>. USE LimitAssumption DEF LimitAssumption, LimitInv
<1>0. Gone \in [count : Nat, expires : BOOLEAN] /\ Gone.count = 0
  BY DEF Gone
<1>1. ASSUME NEW a \in Attempts, Increment(a) PROVE LimitInv'
  <2>. DEFINE n == counter.count + 1
  <2>1. counter' = [counter EXCEPT !.count = n] /\ n \in Nat
    BY <1>1 DEF Increment
  <2>2. CASE n > Limit
    BY <1>1, <2>1, <2>2 DEF Increment, Verdict
  <2>3. CASE n <= Limit
    BY <1>1, <2>1, <2>3 DEF Increment, Verdict
  <2>. QED  BY <2>1, <2>2, <2>3
<1>2. ASSUME NEW a \in Attempts, IncrementFails(a) PROVE LimitInv'
  BY <1>2 DEF IncrementFails
<1>3. ASSUME NEW a \in Attempts, Expire(a) \/ ExpireFails(a) PROVE LimitInv'
  <2>1. CASE Expire(a)
    <3>. DEFINE e == counter.count > 0
    <3>1. e \in BOOLEAN
      OBVIOUS
    <3>2. counter' = [counter EXCEPT !.expires = e] /\ passed' = passed
      BY <2>1 DEF Expire
    <3>. HIDE DEF e
    <3>. QED  BY <3>1, <3>2
  <2>2. CASE ExpireFails(a)
    BY <2>2 DEF ExpireFails
  <2>. QED  BY <1>3, <2>1, <2>2
<1>4. ASSUME NEW a \in Attempts, LoginFails(a) \/ LoginSucceeds(a) PROVE LimitInv'
  <2>1. CASE counter' = Gone /\ passed' = 0
    BY <2>1, <1>0
  <2>2. CASE UNCHANGED <<counter, passed>>
    BY <2>2
  <2>. QED  BY <1>4, <2>1, <2>2 DEF LoginFails, LoginSucceeds
<1>5. CASE WindowEnds
  BY <1>5, <1>0 DEF WindowEnds
<1>6. CASE UNCHANGED limitVars
  BY <1>6 DEF limitVars
<1>. QED  BY <1>1, <1>2, <1>3, <1>4, <1>5, <1>6 DEF LimitNext

(* Of the attempts that LoginRateLimit counts, no more than Limit pass while  *)
(* the key lasts, for any number of requests and lost commands.               *)
THEOREM LoginsAreLimited == LimitSpec => []WindowIsLimited
<1>1. LimitInit => LimitInv
  BY LimitAssumption DEF LimitAssumption, LimitInit, LimitInv
<1>2. LimitInv => WindowIsLimited
  BY DEF LimitInv, WindowIsLimited
<1>. QED  BY <1>1, <1>2, LimitStep, PTL DEF LimitSpec

-----------------------------------------------------------------------------
(* The tables of EPSS *)

Issues == [cves : SUBSET Cves, number : Nat, dated : BOOLEAN]
Scores == [date : 0..MaxDay, number : Nat]
Fetches == [at : {"idle", "look", "parse", "store"}, began : 0..MaxDay, date : 0..MaxDay,
            file : Issues]

EpssType ==
    /\ day \in Days
    /\ issue \in [1..Mirrors -> [Days -> Issues]]
    /\ score \in [Cves -> Scores]
    /\ history \in [Cves -> [Days -> Nat]]
    /\ fetch \in Fetches
    /\ issues \in Nat

(* A run that has a file dates it yesterday at the earliest, counted from its *)
(* own beginning, and no run but this one writes: until it ends no score is   *)
(* of a later day than that.                                                  *)
EpssInv ==
    /\ EpssType
    /\ fetch.at # "idle" => fetch.began \in 1..day /\ \A c \in Cves : score[c].date <= fetch.began
    /\ fetch.at \in {"parse", "store"} => fetch.date \in 1..day /\ fetch.date >= fetch.began - 1
    /\ \A c \in Cves : score[c].date <= day
    /\ ScoreIsInHistory

(* Every address that is asked for is one of a mirror, for the day the run    *)
(* began or the one before.                                                   *)
LEMMA AddressOf ==
    ASSUME EpssType, NEW k \in DOMAIN Candidates
    PROVE  \E m \in 1..Mirrors, d \in {fetch.began, fetch.began - 1} : Candidates[k] = <<m, d>>
<1>. DEFINE dates == DateCandidates(fetch.began)
<1>. DEFINE m == 1 + ((k - 1) \div 2)
<1>. DEFINE j == 1 + ((k - 1) % 2)
<1>1. Len(dates) = 2 /\ dates[1] = fetch.began /\ dates[2] = fetch.began - 1
  BY DEF DateCandidates
<1>2. Candidates = [i \in 1..Mirrors * 2 |-> <<1 + ((i - 1) \div 2), dates[1 + ((i - 1) % 2)]>>]
  BY <1>1 DEF Candidates
<1>3. k \in 1..Mirrors * 2 /\ Candidates[k] = <<m, dates[j]>>
  BY <1>2
<1>4. m \in 1..Mirrors /\ j \in {1, 2}
  BY <1>3, EpssAssumption DEF EpssAssumption
<1>5. dates[j] \in {fetch.began, fetch.began - 1}
  BY <1>1, <1>4
<1>. HIDE DEF m, j, dates
<1>. QED  BY <1>3, <1>4, <1>5

(* The file a run finds is one that a mirror holds, of a day since yesterday. *)
LEMMA FindStep == EpssInv /\ (\E k \in DOMAIN Candidates : Find(k)) => EpssInv'
<1>. SUFFICES ASSUME EpssInv, NEW k \in DOMAIN Candidates, Find(k) PROVE EpssInv'
  OBVIOUS
<1>1. PICK m \in 1..Mirrors, d \in {fetch.began, fetch.began - 1} : Candidates[k] = <<m, d>>
  BY AddressOf DEF EpssInv
<1>2. d \in Days
  BY <1>1 DEF Find, Has
<1>3. issue[m][d] \in Issues
  BY <1>2 DEF EpssInv, EpssType
<1>4. fetch' = [fetch EXCEPT !.at = "parse", !.file = issue[m][d], !.date = d]
  BY <1>1 DEF Find, Held
<1>5. d \in 1..day /\ d >= fetch.began - 1 /\ fetch.began \in 1..day
  BY <1>2, EpssAssumption DEF Find, EpssInv, EpssType, EpssAssumption, Days
<1>6. UNCHANGED <<day, issue, score, history, issues>>
  BY DEF Find
<1>7. fetch'.at = "parse" /\ fetch'.began = fetch.began /\ fetch'.date = d
  BY <1>4 DEF EpssInv, EpssType, Fetches
<1>8. fetch' \in Fetches
  <2>1. d \in 0..MaxDay
    BY <1>2, EpssAssumption DEF Days, EpssAssumption
  <2>2. fetch \in Fetches
    BY DEF EpssInv, EpssType
  <2>. QED  BY <1>3, <1>4, <2>1, <2>2 DEF Fetches
<1>9. EpssType'
  BY <1>6, <1>8 DEF EpssInv, EpssType
<1>10. \A c \in Cves : score[c].date <= fetch.began
  BY DEF Find, EpssInv
<1>. QED
  BY <1>5, <1>6, <1>7, <1>9, <1>10 DEF EpssInv, ScoreIsInHistory

(* Store is the only step that writes a score. *)
LEMMA StoreStep ==
    ASSUME EpssInv, Store
    PROVE  EpssInv' /\ \A c \in Cves : score'[c].date >= score[c].date - 1
<1>. DEFINE new == [date |-> fetch.date, number |-> fetch.file.number]
<1>1. /\ fetch.date \in Days /\ fetch.date <= day /\ fetch.date >= fetch.began - 1
      /\ fetch.file.number \in Nat /\ fetch.began \in Nat /\ day \in Nat
  BY EpssAssumption DEF Store, EpssInv, EpssType, Days, EpssAssumption, Issues, Fetches
<1>2. score' = [c \in Cves |-> IF c \in fetch.file.cves THEN new ELSE score[c]]
  BY DEF Store
<1>3. history' = [c \in Cves |->
                    IF c \in fetch.file.cves
                    THEN [history[c] EXCEPT ![fetch.date] = fetch.file.number] ELSE history[c]]
  BY DEF Store
<1>4. new \in Scores /\ new.date = fetch.date /\ new.number = fetch.file.number
  BY <1>1, EpssAssumption DEF Scores, Days, EpssAssumption
<1>. HIDE DEF new
<1>5. NoFile \in Issues
  BY DEF NoFile, Issues
<1>6. NoFetch \in Fetches /\ NoFetch.at = "idle"
  BY <1>5, EpssAssumption DEF NoFetch, Fetches, EpssAssumption
<1>7. score' \in [Cves -> Scores]
  BY <1>2, <1>4 DEF EpssInv, EpssType
<1>8. history' \in [Cves -> [Days -> Nat]]
  BY <1>1, <1>3 DEF EpssInv, EpssType
<1>9. EpssType'
  BY <1>6, <1>7, <1>8 DEF Store, EpssInv, EpssType
<1>10. ASSUME NEW c \in Cves
       PROVE  /\ score'[c].date > 0 => history'[c][score'[c].date] = score'[c].number
              /\ score'[c].date <= day /\ score'[c].date >= score[c].date - 1
  <2>1. score[c] \in Scores /\ score[c].date \in 0..MaxDay /\ score[c].date <= day
    BY DEF EpssInv, EpssType, Scores
  <2>2. score[c].date <= fetch.began
    BY DEF Store, EpssInv
  <2>3. CASE c \in fetch.file.cves
    <3>1. score'[c] = new
      BY <1>2, <2>3
    <3>2. history'[c][fetch.date] = fetch.file.number
      BY <1>1, <1>3, <2>3 DEF EpssInv, EpssType
    <3>. QED  BY <1>1, <1>4, <2>1, <2>2, <3>1, <3>2, EpssAssumption DEF EpssAssumption, Days
  <2>4. CASE c \notin fetch.file.cves
    <3>1. score'[c] = score[c]
      BY <1>2, <2>4
    <3>2. score[c].date > 0 => score[c].date \in Days
      BY <2>1, EpssAssumption DEF EpssAssumption, Days
    <3>3. score[c].date > 0 => history'[c][score[c].date] = history[c][score[c].date]
      BY <1>3, <2>4, <3>2
    <3>. QED  BY <2>1, <3>1, <3>3, EpssAssumption DEF EpssAssumption, EpssInv, ScoreIsInHistory
  <2>. QED  BY <2>3, <2>4
<1>11. UNCHANGED day /\ fetch'.at = "idle"
  BY <1>6 DEF Store
<1>. QED  BY <1>9, <1>10, <1>11 DEF EpssInv, ScoreIsInHistory

(* An issue of a mirror, a load or midnight keeps the invariant and takes no*)
(* score back by more than a day.                                           *)
LEMMA EpssStep ==
    EpssInv /\ [EpssNext]_epssVars =>
        EpssInv' /\ [\A c \in Cves : score'[c].date >= score[c].date - 1]_epssVars
<1>. SUFFICES ASSUME EpssInv, [EpssNext]_epssVars
              PROVE  EpssInv' /\ [\A c \in Cves : score'[c].date >= score[c].date - 1]_epssVars
  OBVIOUS
<1>1. \A c \in Cves : score[c].date >= score[c].date - 1 /\ score[c].date \in Nat
  BY EpssAssumption DEF EpssInv, EpssType, Scores, EpssAssumption
<1>2. ASSUME NEW m \in 1..Mirrors, NEW d \in Days, NEW cves \in SUBSET Cves, NEW dated \in BOOLEAN,
             PublishIssue(m, d, cves, dated)
      PROVE  EpssInv'
  <2>1. [cves |-> cves, number |-> issues + 1, dated |-> dated] \in Issues /\ issues + 1 \in Nat
    BY DEF EpssInv, EpssType, Issues
  <2>. QED  BY <1>2, <2>1 DEF PublishIssue, EpssInv, EpssType, ScoreIsInHistory
<1>3. ASSUME Midnight PROVE EpssInv'
  BY <1>1, <1>3, EpssAssumption
  DEF Midnight, EpssInv, EpssType, Days, EpssAssumption, ScoreIsInHistory, Fetches
<1>4. ASSUME BeginEpss PROVE EpssInv'
  <2>1. NoFile \in Issues
    BY DEF NoFile, Issues
  <2>2. fetch' = [at |-> "look", began |-> day, date |-> 0, file |-> NoFile]
    BY <1>4 DEF BeginEpss, NoFetch
  <2>3. fetch' \in Fetches
    BY <2>1, <2>2, EpssAssumption DEF EpssInv, EpssType, Days, EpssAssumption, Fetches
  <2>. QED
    BY <1>4, <2>2, <2>3, EpssAssumption
    DEF BeginEpss, EpssInv, EpssType, Days, EpssAssumption, ScoreIsInHistory
<1>5. ASSUME NEW k \in DOMAIN Candidates, Find(k) PROVE EpssInv'
  BY <1>5, FindStep
<1>6. NoFetch \in Fetches /\ NoFetch.at = "idle"
  <2>1. NoFile \in Issues
    BY DEF NoFile, Issues
  <2>. QED  BY <2>1, EpssAssumption DEF NoFetch, Fetches, EpssAssumption
<1>7. ASSUME Abandon PROVE EpssInv'
  BY <1>6, <1>7 DEF Abandon, EpssInv, EpssType, ScoreIsInHistory
<1>8. ASSUME Parse PROVE EpssInv'
  <2>1. CASE fetch' = NoFetch
    BY <1>6, <1>8, <2>1 DEF Parse, EpssInv, EpssType, ScoreIsInHistory
  <2>2. CASE fetch' # NoFetch
    <3>. DEFINE date == IF fetch.file.dated THEN fetch.date ELSE day
    <3>1. date \in {fetch.date, day}
      BY Zenon
    <3>2. fetch' = [fetch EXCEPT !.at = "store", !.date = date]
      BY <1>8, <2>2, Zenon DEF Parse
    <3>. HIDE DEF date
    <3>3. fetch \in Fetches /\ day \in 0..MaxDay
      BY EpssAssumption DEF EpssInv, EpssType, Days, EpssAssumption
    <3>4. /\ fetch'.at = "store" /\ fetch'.began = fetch.began /\ fetch'.date \in {fetch.date, day}
          /\ fetch' \in Fetches
      BY <3>1, <3>2, <3>3 DEF Fetches
    <3>5. fetch'.date \in 1..day /\ fetch'.date >= fetch'.began - 1
      BY <1>8, <3>4, EpssAssumption DEF Parse, EpssInv, EpssType, Fetches, Days, EpssAssumption
    <3>. QED  BY <1>8, <3>4, <3>5 DEF Parse, EpssInv, EpssType, ScoreIsInHistory
  <2>. QED  BY <2>1, <2>2
<1>9. CASE Store
  BY <1>9, StoreStep
<1>10. ASSUME UNCHANGED epssVars PROVE EpssInv'
  BY <1>10 DEF epssVars, EpssInv, EpssType, ScoreIsInHistory
<1>11. Store \/ UNCHANGED score
  BY DEF EpssNext, epssVars, PublishIssue, Midnight, BeginEpss, Find, Abandon, Parse
<1>. QED
  BY <1>1, <1>2, <1>3, <1>4, <1>5, <1>7, <1>8, <1>9, <1>10, <1>11, StoreStep DEF EpssNext

(* Nothing is loaded at the start.                                          *)
LEMMA EpssStart == EpssInit => EpssInv
<1>. SUFFICES ASSUME EpssInit PROVE EpssInv
  OBVIOUS
<1>1. NoFile \in Issues
  BY DEF NoFile, Issues
<1>2. NoFetch \in Fetches /\ NoFetch.at = "idle" /\ NoScore \in Scores /\ NoScore.date = 0
  BY <1>1, EpssAssumption DEF NoFetch, NoScore, Fetches, Scores, EpssAssumption
<1>. QED
  BY <1>1, <1>2, EpssAssumption
  DEF EpssInit, EpssInv, EpssType, Days, EpssAssumption, ScoreIsInHistory

(* The score of a CVE is the one its history has for that day, whatever is    *)
(* published again, late or without a date (upsert of epss/sync.go).          *)
THEOREM ScoresAreInHistory == EpssSpec => []ScoreIsInHistory
<1>1. EpssInv => ScoreIsInHistory
  BY DEF EpssInv
<1>. QED  BY <1>1, EpssStart, EpssStep, PTL DEF EpssSpec

(* No load, of whatever source, moves the date of a score back by more than   *)
(* one day (Sync of epss/sync.go).                                            *)
THEOREM ScoresGoBackOneDay == EpssSpec => ScoreGoesBackOneDay
  BY EpssStart, EpssStep, PTL DEF EpssSpec, ScoreGoesBackOneDay

-----------------------------------------------------------------------------
(* The slots of exports *)

Holding == {"expire", "begin", "first", "return", "prepare", "stream", "release"}
\* Those that takeExportSlot has not refused.
Admitted == {"expire", "begin", "first", "prepare", "stream", "release"}
Places == Holding \union {"arrived", "done"}
Keys == [exists : BOOLEAN, count : Int, expires : BOOLEAN]

In(K) == {e \in Exports : request[e] \in K}

(* An export is let in on a count that includes every export that holds a     *)
(* slot, so those let in are never more than the slots.                       *)
SlotsInv ==
    /\ request \in [Exports -> Places]
    /\ slots \in Keys
    /\ leaked \in Nat
    /\ drifted \in BOOLEAN
    /\ ~drifted => slots.count = Cardinality(In(Holding)) + leaked
    /\ ~drifted => Cardinality(In(Admitted)) <= Slots

(* INCR and DECR of takeExportSlot keep the key a key.                      *)
LEMMA KeyCommands ==
    ASSUME NEW key \in Keys, NEW by \in Int
    PROVE  /\ Changed(key, by) \in Keys /\ Changed(key, by).count = key.count + by
           /\ Expiring(key) \in Keys /\ Expiring(key).count = key.count
<1>1. Changed(key, by) \in Keys /\ Changed(key, by).count = key.count + by
  <2>1. ASSUME NEW b \in BOOLEAN, NEW n \in Int
        PROVE  /\ [key EXCEPT !.exists = b, !.count = n] \in Keys
               /\ [key EXCEPT !.exists = b, !.count = n].count = n
    BY DEF Keys
  <2>2. key.count + by \in Int
    BY DEF Keys
  <2>. QED  BY <2>1, <2>2 DEF Changed
<1>2. ASSUME NEW b \in BOOLEAN
      PROVE  [key EXCEPT !.expires = b] \in Keys /\ [key EXCEPT !.expires = b].count = key.count
  BY DEF Keys
<1>3. key.exists \in BOOLEAN
  BY DEF Keys
<1>. QED  BY <1>1, <1>2, <1>3 DEF Expiring

(* Finitely many exports are in any set of steps.                           *)
LEMMA FiniteIn == \A K : IsFiniteSet(In(K)) /\ Cardinality(In(K)) \in Nat
  BY FS_Subset, FS_CardinalityType, ExportAssumption DEF ExportAssumption, In

(* A request that goes from one place to another counts where it is.          *)
LEMMA Moving ==
    ASSUME NEW K, NEW e \in Exports, NEW to \in Places, request \in [Exports -> Places],
           request' = [request EXCEPT ![e] = to]
    PROVE  /\ request' \in [Exports -> Places]
           /\ request[e] \notin K /\ to \in K => Cardinality(In(K)') = Cardinality(In(K)) + 1
           /\ request[e] \in K /\ to \notin K => Cardinality(In(K)') = Cardinality(In(K)) - 1
           /\ (request[e] \in K <=> to \in K) => Cardinality(In(K)') = Cardinality(In(K))
<1>1. request' \in [Exports -> Places]
  OBVIOUS
<1>2. ASSUME request[e] \notin K, to \in K
      PROVE  Cardinality(In(K)') = Cardinality(In(K)) + 1
  <2>1. In(K)' = In(K) \union {e} /\ e \notin In(K)
    BY <1>2 DEF In
  <2>. QED  BY <2>1, FS_AddElement, FiniteIn
<1>3. ASSUME request[e] \in K, to \notin K
      PROVE  Cardinality(In(K)') = Cardinality(In(K)) - 1
  <2>1. In(K)' = In(K) \ {e} /\ e \in In(K)
    BY <1>3 DEF In
  <2>. QED  BY <2>1, FS_RemoveElement, FiniteIn
<1>4. ASSUME request[e] \in K <=> to \in K
      PROVE  Cardinality(In(K)') = Cardinality(In(K))
  <2>1. In(K)' = In(K)
    BY <1>4 DEF In
  <2>. QED  BY <2>1
<1>. QED  BY <1>1, <1>2, <1>3, <1>4

(* An export that has been let in holds a slot.                             *)
LEMMA AdmittedHold == Cardinality(In(Admitted)) <= Cardinality(In(Holding))
<1>1. In(Admitted) \subseteq In(Holding)
  BY DEF In, Admitted, Holding
<1>. QED  BY <1>1, FiniteIn, FS_Subset

(* A step that moves one request and keeps the count in step with it.         *)
LEMMA Balanced ==
    ASSUME SlotsInv, NEW e \in Exports, NEW to \in Places, request' = [request EXCEPT ![e] = to],
           slots' \in Keys, leaked' \in Nat, drifted' = drifted,
           NEW by \in Int, slots'.count - leaked' = slots.count - leaked + by,
           to \in Holding /\ request[e] \notin Holding => by = 1,
           to \notin Holding /\ request[e] \in Holding => by = -1,
           (to \in Holding <=> request[e] \in Holding) => by = 0,
           to \in Admitted /\ request[e] \notin Admitted => slots'.count - leaked' <= Slots
    PROVE  SlotsInv'
<1>. USE DEF SlotsInv
<1>1. request[e] \in Places /\ request' \in [Exports -> Places]
  BY Moving
<1>2. slots.count \in Int /\ slots'.count \in Int /\ leaked \in Nat
  BY DEF Keys
<1>3. /\ Cardinality(In(Holding)) \in Nat /\ Cardinality(In(Admitted)) \in Nat
      /\ Cardinality(In(Holding)') \in Nat /\ Cardinality(In(Admitted)') \in Nat
  <2>1. \A K : Cardinality(In(K)') \in Nat
    BY FS_Subset, FS_CardinalityType, ExportAssumption DEF ExportAssumption, In
  <2>. QED  BY FiniteIn, <2>1
<1>4. Cardinality(In(Admitted)') <= Cardinality(In(Holding)')
  <2>1. In(Admitted)' \subseteq In(Holding)' /\ IsFiniteSet(In(Holding)')
    BY FS_Subset, ExportAssumption DEF ExportAssumption, In, Admitted, Holding
  <2>. QED  BY <2>1, FS_Subset
<1>5. /\ request[e] \notin Holding /\ to \in Holding =>
           Cardinality(In(Holding)') = Cardinality(In(Holding)) + 1
      /\ request[e] \in Holding /\ to \notin Holding =>
           Cardinality(In(Holding)') = Cardinality(In(Holding)) - 1
      /\ (request[e] \in Holding <=> to \in Holding) =>
           Cardinality(In(Holding)') = Cardinality(In(Holding))
  BY Moving
<1>6. /\ request[e] \in Admitted /\ to \notin Admitted =>
           Cardinality(In(Admitted)') = Cardinality(In(Admitted)) - 1
      /\ (request[e] \in Admitted <=> to \in Admitted) =>
           Cardinality(In(Admitted)') = Cardinality(In(Admitted))
  BY Moving
<1>7. ~drifted' => slots'.count = Cardinality(In(Holding)') + leaked'
  <2>1. CASE to \in Holding /\ request[e] \notin Holding
    BY <1>2, <1>3, <1>5, <2>1
  <2>2. CASE to \notin Holding /\ request[e] \in Holding
    BY <1>2, <1>3, <1>5, <2>2
  <2>3. CASE to \in Holding <=> request[e] \in Holding
    BY <1>2, <1>3, <1>5, <2>3
  <2>. QED  BY <2>1, <2>2, <2>3
<1>8. ~drifted' => Cardinality(In(Admitted)') <= Slots
  <2>1. CASE to \in Admitted /\ request[e] \notin Admitted
    BY <1>2, <1>3, <1>4, <1>7, <2>1, ExportAssumption DEF ExportAssumption
  <2>2. CASE to \notin Admitted /\ request[e] \in Admitted
    BY <1>3, <1>6, <2>2, ExportAssumption DEF ExportAssumption
  <2>3. CASE to \in Admitted <=> request[e] \in Admitted
    BY <1>6, <2>3
  <2>. QED  BY <2>1, <2>2, <2>3
<1>. QED  BY <1>1, <1>7, <1>8

(* A request that goes on with its slot.                                      *)
LEMMA GoesOn ==
    ASSUME SlotsInv, NEW e \in Exports, NEW to \in Holding, request' = [request EXCEPT ![e] = to],
           request[e] \in Holding, to \in Admitted => request[e] \in Admitted,
           slots' \in Keys, slots'.count = slots.count, leaked' = leaked, drifted' = drifted
    PROVE  SlotsInv'
<1>1. to \in Places /\ leaked' \in Nat /\ 0 \in Int
  BY DEF Places, SlotsInv
<1>2. slots'.count - leaked' = slots.count - leaked + 0
  BY DEF SlotsInv, Keys
<1>. QED  BY <1>1, <1>2, Balanced

(* A request that ends: its slot is given back, or leaks.                     *)
LEMMA GoesAway ==
    ASSUME SlotsInv, NEW e \in Exports, request' = [request EXCEPT ![e] = "done"],
           request[e] \in Holding, slots' \in Keys, leaked' \in Nat, drifted' = drifted,
           slots'.count - leaked' = slots.count - leaked - 1
    PROVE  SlotsInv'
<1>1. "done" \in Places /\ "done" \notin Holding /\ "done" \notin Admitted /\ -1 \in Int
  BY DEF Places, Holding, Admitted
<1>2. slots'.count - leaked' = slots.count - leaked + (-1)
  BY DEF SlotsInv, Keys
<1>. QED  BY <1>1, <1>2, Balanced

(* No export runs at the start.                                             *)
LEMMA SlotsStart == SlotsInit => SlotsInv
<1>. SUFFICES ASSUME SlotsInit PROVE SlotsInv
  OBVIOUS
<1>1. NoKey \in Keys /\ NoKey.count = 0
  BY DEF NoKey, Keys
<1>2. In(Holding) = {} /\ In(Admitted) = {}
  BY DEF SlotsInit, In, Holding, Admitted
<1>3. Cardinality(In(Holding)) = 0 /\ Cardinality(In(Admitted)) = 0
  BY <1>2, FS_EmptySet
<1>4. request \in [Exports -> Places] /\ slots \in Keys /\ slots.count = 0 /\ leaked = 0
  BY <1>1 DEF SlotsInit, Places
<1>5. drifted \in BOOLEAN
  BY DEF SlotsInit
<1>. QED  BY <1>3, <1>4, <1>5, ExportAssumption DEF ExportAssumption, SlotsInv

(* Every command, and the loss of the key, keeps the invariant.             *)
LEMMA SlotsStep == SlotsInv /\ [SlotsNext]_slotVars => SlotsInv'
<1>. SUFFICES ASSUME SlotsInv, [SlotsNext]_slotVars PROVE SlotsInv'
  OBVIOUS
<1>. USE DEF Goes
<1>2. /\ {"expire", "begin", "first", "prepare", "stream", "release"} = Admitted
      /\ Admitted \subseteq Holding /\ Holding \subseteq Places
      /\ "return" \in Holding /\ "return" \notin Admitted
      /\ "arrived" \notin Holding /\ "arrived" \notin Admitted
  BY DEF Holding, Admitted, Places
<1>1. /\ slots \in Keys /\ slots.count \in Int /\ leaked \in Nat /\ drifted \in BOOLEAN
      /\ Changed(slots, 1) \in Keys /\ Changed(slots, 1).count = slots.count + 1
      /\ Changed(slots, -1) \in Keys /\ Changed(slots, -1).count = slots.count - 1
      /\ Expiring(slots) \in Keys /\ Expiring(slots).count = slots.count
  <2>1. slots \in Keys /\ slots.count \in Int /\ leaked \in Nat /\ drifted \in BOOLEAN
    BY DEF SlotsInv, Keys
  <2>. QED  BY <2>1, KeyCommands
<1>3. ASSUME NEW e \in Exports, TakeSlot(e) PROVE SlotsInv'
  <2>. DEFINE to == Taken(slots.count + 1)
  <2>1. /\ request[e] = "arrived" /\ request' = [request EXCEPT ![e] = to]
        /\ slots' = Changed(slots, 1) /\ leaked' = leaked /\ drifted' = drifted
    BY <1>3 DEF TakeSlot
  <2>2. to \in {"expire", "begin", "return"} /\ (to # "return" => slots.count + 1 <= Slots)
    BY <1>1, ExportAssumption DEF Taken, ExportAssumption
  <2>. HIDE DEF to
  <2>3. to \in Holding /\ to \in Places /\ request[e] \notin Holding /\ request[e] \notin Admitted
    BY <1>2, <2>1, <2>2
  <2>4. to \in Admitted => slots'.count - leaked' <= Slots
    BY <1>1, <1>2, <2>1, <2>2, ExportAssumption DEF ExportAssumption
  <2>5. slots'.count - leaked' = slots.count - leaked + 1 /\ slots' \in Keys /\ leaked' \in Nat
    BY <1>1, <2>1
  <2>6. 1 \in Int
    OBVIOUS
  <2>. QED  BY <2>1, <2>3, <2>4, <2>5, <2>6, Balanced
<1>4. ASSUME NEW e \in Exports, TakeSlotDropped(e) PROVE SlotsInv'
  <2>1. drifted' = TRUE
    BY <1>4 DEF TakeSlotDropped
  <2>2. request' \in [Exports -> Places] /\ slots' \in Keys /\ leaked' \in Nat
    BY <1>1, <1>2, <1>4 DEF TakeSlotDropped, SlotsInv
  <2>. QED  BY <2>1, <2>2 DEF SlotsInv
<1>5. ASSUME NEW e \in Exports, SetSlotExpiry(e) PROVE SlotsInv'
  <2>1. /\ request[e] = "expire" /\ request' = [request EXCEPT ![e] = "begin"]
        /\ slots' \in {slots, Expiring(slots)} /\ leaked' = leaked /\ drifted' = drifted
    BY <1>5 DEF SetSlotExpiry
  <2>. QED  BY <1>1, <1>2, <2>1, GoesOn
<1>6. ASSUME NEW e \in Exports, StartWindow(e) PROVE SlotsInv'
  <2>1. PICK to \in {"first", "return", "prepare"} : request' = [request EXCEPT ![e] = to]
    BY <1>6 DEF StartWindow, Begun
  <2>2. request[e] = "begin" /\ slots' = slots /\ leaked' = leaked /\ drifted' = drifted
    BY <1>6 DEF StartWindow
  <2>. QED  BY <1>1, <1>2, <2>1, <2>2, GoesOn
<1>7. ASSUME NEW e \in Exports, SetWindowExpiry(e) PROVE SlotsInv'
  <2>1. /\ request[e] = "first" /\ request' = [request EXCEPT ![e] = "prepare"]
        /\ slots' = slots /\ leaked' = leaked /\ drifted' = drifted
    BY <1>7 DEF SetWindowExpiry
  <2>. QED  BY <1>1, <1>2, <2>1, GoesOn
<1>8. ASSUME NEW e \in Exports, PrepareFails(e) PROVE SlotsInv'
  <2>1. request[e] = "prepare" /\ slots' = slots /\ drifted' = drifted
    BY <1>8 DEF PrepareFails
  <2>2. CASE e \in Html
    <3>1. request' = [request EXCEPT ![e] = "release"] /\ leaked' = leaked
      BY <1>8, <2>2 DEF PrepareFails
    <3>. QED  BY <1>1, <1>2, <2>1, <3>1, GoesOn
  <2>3. CASE e \notin Html
    <3>1. request' = [request EXCEPT ![e] = "done"] /\ leaked' = leaked + 1
      BY <1>8, <2>3 DEF PrepareFails
    <3>2. slots' \in Keys /\ leaked' \in Nat /\ slots'.count - leaked' = slots.count - leaked - 1
      BY <1>1, <2>1, <3>1
    <3>. QED  BY <1>2, <2>1, <3>1, <3>2, GoesAway
  <2>. QED  BY <2>2, <2>3
<1>9. ASSUME NEW e \in Exports, PrepareSucceeds(e) \/ StreamEnds(e) PROVE SlotsInv'
  <2>1. /\ request[e] \in {"prepare", "stream"} /\ slots' = slots
        /\ leaked' = leaked /\ drifted' = drifted
    BY <1>9 DEF PrepareSucceeds, StreamEnds
  <2>2. PICK to \in {"stream", "release"} : request' = [request EXCEPT ![e] = to]
    BY <1>9 DEF PrepareSucceeds, StreamEnds
  <2>. QED  BY <1>1, <1>2, <2>1, <2>2, GoesOn
<1>10. ASSUME NEW e \in Exports, ReleaseSlot(e) PROVE SlotsInv'
  <2>1. /\ request[e] \in {"return", "release"} /\ request' = [request EXCEPT ![e] = "done"]
        /\ drifted' = drifted
    BY <1>10 DEF ReleaseSlot
  <2>2. CASE slots' = Changed(slots, -1) /\ leaked' = leaked
    <3>1. slots' \in Keys /\ leaked' \in Nat /\ slots'.count - leaked' = slots.count - leaked - 1
      BY <1>1, <2>2
    <3>. QED  BY <1>2, <2>1, <3>1, GoesAway
  <2>3. CASE slots' = slots /\ leaked' = leaked + 1
    <3>1. slots' \in Keys /\ leaked' \in Nat /\ slots'.count - leaked' = slots.count - leaked - 1
      BY <1>1, <2>3
    <3>. QED  BY <1>2, <2>1, <3>1, GoesAway
  <2>. QED  BY <1>10, <2>2, <2>3 DEF ReleaseSlot
<1>11. ASSUME SlotsExpire PROVE SlotsInv'
  <2>1. NoKey \in Keys /\ NoKey.count = 0
    BY DEF NoKey, Keys
  <2>2. ~drifted' => In(Holding)' = {} /\ In(Admitted)' = {}
    BY <1>11 DEF SlotsExpire, Holds, In, Holding, Admitted
  <2>3. ~drifted' => Cardinality(In(Holding)') = 0 /\ Cardinality(In(Admitted)') = 0
    BY <2>2, FS_EmptySet
  <2>. QED  BY <1>1, <1>11, <2>1, <2>3, ExportAssumption DEF SlotsExpire, SlotsInv, ExportAssumption
<1>12. ASSUME WindowExpires \/ UNCHANGED slotVars PROVE SlotsInv'
  BY <1>12 DEF WindowExpires, slotVars, SlotsInv, In
<1>. QED
  BY <1>3, <1>4, <1>5, <1>6, <1>7, <1>8, <1>9, <1>10, <1>11, <1>12 DEF SlotsNext

(* While the key of takeExportSlot has not lost count, it counts the exports  *)
(* that hold a slot and those that ended without releasing it.                *)
THEOREM SlotsAreCounted == SlotsSpec => []SlotsAreReturned
<1>1. SlotsInv => SlotsAreReturned
  BY DEF SlotsInv, SlotsAreReturned, In, Holds, Holding
<1>. QED  BY <1>1, SlotsStart, SlotsStep, PTL DEF SlotsSpec

(* While the key has not lost count, a user has no more exports running than  *)
(* there are slots, for any number of requests.                               *)
THEOREM RunningExportsAreLimited == SlotsSpec => []ExportsAreLimited
<1>1. SlotsInv => ExportsAreLimited
  <2>. SUFFICES ASSUME SlotsInv, ~drifted PROVE Cardinality({e \in Exports : Runs(e)}) <= Slots
    BY DEF ExportsAreLimited
  <2>1. {e \in Exports : Runs(e)} \subseteq In(Admitted)
    BY DEF Runs, In, Admitted
  <2>2. Cardinality({e \in Exports : Runs(e)}) <= Cardinality(In(Admitted))
    BY <2>1, FiniteIn, FS_Subset
  <2>3. Cardinality({e \in Exports : Runs(e)}) \in Nat
    BY <2>1, FiniteIn, FS_Subset, FS_CardinalityType
  <2>. QED  BY <2>2, <2>3, FiniteIn, ExportAssumption DEF SlotsInv, ExportAssumption
<1>. QED  BY <1>1, SlotsStart, SlotsStep, PTL DEF SlotsSpec

-----------------------------------------------------------------------------
(* The CPE dictionary *)

CpeType ==
    /\ time \in Nat /\ sound \in Nat /\ breaks \in Nat
    /\ changed \in [Positions -> Nat] /\ dict \in [Positions -> Nat]
    /\ run \in [at : {"idle", "page"}, full : BOOLEAN, lo : Int, hi : Nat,
                index : Nat, total : Int]

\* The products in read have been fetched by the load, out of those in asked
\* that its first page has counted: as many as the index says, each up to date
\* unless modified since the load began, and none of them is listed beyond it.
ReadOf(read, asked) ==
    /\ read \subseteq asked /\ Listed \subseteq asked
    /\ Cardinality(read) = run.index
    /\ \A p \in read : changed[p] <= run.hi => dict[p] = changed[p]
    /\ \A p \in read \intersect Listed : Place(p) <= run.index
    /\ IF run.total < 0 THEN run.index = 0 ELSE run.total = Cardinality(asked)

CpeInv ==
    /\ CpeType
    /\ \A p \in Positions : changed[p] <= time
    /\ sound <= time /\ run.hi <= time
    /\ DictionaryFollows
    /\ run.at = "page" => \E read, asked \in SUBSET Positions : ReadOf(read, asked)

(* Sets of products are finite.                                               *)
LEMMA FiniteProducts ==
    ASSUME NEW S \in SUBSET Positions
    PROVE  IsFiniteSet(S) /\ Cardinality(S) \in Nat
<1>1. IsFiniteSet(Positions)
  BY CpeAssumption, FS_Interval DEF Positions
<1>. QED  BY <1>1, FS_Subset, FS_CardinalityType

(* Listed products have places from 1 on.                                     *)
LEMMA PlaceType ==
    ASSUME NEW p \in Listed
    PROVE  Place(p) \in Nat /\ Place(p) >= 1 /\ p \in Positions /\ p \in Int
<1>1. p \in Positions /\ p \in Int
  BY CpeAssumption DEF Listed, Positions
<1>2. {q \in Listed : q <= p} \in SUBSET Positions /\ p \in {q \in Listed : q <= p}
  BY <1>1 DEF Listed
<1>3. IsFiniteSet({q \in Listed : q <= p}) /\ Cardinality({q \in Listed : q <= p}) \in Nat
  BY <1>2, FiniteProducts
<1>4. Cardinality({q \in Listed : q <= p}) # 0
  BY <1>2, <1>3, FS_EmptySet
<1>. QED  BY <1>1, <1>3, <1>4 DEF Place

(* The product listed later has the higher place.                             *)
LEMMA PlaceGrows ==
    ASSUME NEW p \in Listed, NEW q \in Listed, p < q
    PROVE  Place(p) < Place(q)
<1> DEFINE Below(x) == {y \in Listed : y <= x}
<1>1. \A x \in Listed : x \in Int
  BY PlaceType
<1>2. Below(p) \in SUBSET Below(q) /\ q \in Below(q) /\ q \notin Below(p)
  BY <1>1
<1>3. Below(q) \in SUBSET Positions
  BY PlaceType
<1>4. IsFiniteSet(Below(q))
  BY <1>3, FiniteProducts
<1>5. /\ Cardinality(Below(p)) <= Cardinality(Below(q))
      /\ Cardinality(Below(q)) = Cardinality(Below(p)) => Below(q) = Below(p)
  BY <1>2, <1>4, FS_Subset
<1>6. Place(p) = Cardinality(Below(p)) /\ Place(q) = Cardinality(Below(q))
  BY DEF Place
<1>7. Place(p) \in Nat /\ Place(q) \in Nat /\ Place(q) # Place(p)
  BY <1>2, <1>5, <1>6, PlaceType
<1> HIDE DEF Below
<1>. QED  BY <1>5, <1>6, <1>7

(* At most n products are listed up to place n.                               *)
LEMMA PlacesUpTo ==
    ASSUME NEW n \in Nat
    PROVE  Cardinality({q \in Listed : Place(q) <= n}) <= n
<1> DEFINE S == {q \in Listed : Place(q) <= n}
           f == [q \in S |-> Place(q)]
<1>1. \A q \in S : q \in Listed /\ Place(q) \in 1..n
  BY PlaceType
<1>2. \A p, q \in S : Place(p) = Place(q) => p = q
  <2> SUFFICES ASSUME NEW p \in S, NEW q \in S, p # q PROVE Place(p) # Place(q)
    OBVIOUS
  <2>1. p \in Listed /\ q \in Listed
    OBVIOUS
  <2>2. p < q \/ q < p
    BY <2>1, PlaceType
  <2>3. Place(p) < Place(q) \/ Place(q) < Place(p)
    BY <2>1, <2>2, PlaceGrows
  <2>4. Place(p) \in Nat /\ Place(q) \in Nat
    BY <2>1, PlaceType
  <2>. QED  BY <2>3, <2>4
<1>3. f \in Injection(S, 1..n)
  <2>1. f \in [S -> 1..n]
    BY <1>1
  <2>2. \A p, q \in S : f[p] = f[q] => p = q
    BY <1>2
  <2> HIDE DEF f, S
  <2>. QED  BY <2>1, <2>2 DEF Injection, IsInjective
<1>4. IsFiniteSet(1..n) /\ Cardinality(1..n) = n
  BY FS_Interval
<1> HIDE DEF f, S
<1>5. Cardinality(S) <= n
  BY <1>3, <1>4, FS_Injection
<1>. QED  BY <1>5 DEF S

(* A page that begins after index gives products up to place index plus its   *)
(* length: the index of the next page is no lower than what has been read.    *)
LEMMA PagePlaces ==
    ASSUME run.index \in Nat, NEW p \in SeenIn
    PROVE  Place(p) <= run.index + Cardinality(SeenIn)
<1> DEFINE Below == {q \in Listed : q <= p}
           Before == {q \in Listed : Place(q) <= run.index}
<1>1. p \in Listed /\ p \in Int /\ \A q \in Listed : q \in Int /\ Place(q) \in Nat
  BY PlaceType DEF SeenIn
<1>2. Place(p) \in run.index + 1 .. run.index + PageLength /\ PageLength \in Nat
  BY CpeAssumption DEF SeenIn
<1>3. Below \subseteq Before \union SeenIn
  <2> SUFFICES ASSUME NEW q \in Listed, q <= p, ~(Place(q) <= run.index) PROVE q \in SeenIn
    OBVIOUS
  <2>1. q = p \/ q < p
    BY <1>1
  <2>2. Place(q) <= Place(p)
    <3>1. q < p => Place(q) < Place(p)
      BY <1>1, PlaceGrows
    <3>. QED  BY <1>1, <2>1, <3>1
  <2>3. Place(q) \in run.index + 1 .. run.index + PageLength
    BY <1>1, <1>2, <2>2
  <2>. QED  BY <2>3 DEF SeenIn
<1>4. Before \in SUBSET Positions /\ SeenIn \in SUBSET Positions
  BY PlaceType DEF SeenIn
<1>5. /\ IsFiniteSet(Before) /\ Cardinality(Before) \in Nat
      /\ IsFiniteSet(SeenIn) /\ Cardinality(SeenIn) \in Nat
      /\ IsFiniteSet(Before \union SeenIn) /\ Cardinality(Before \union SeenIn) \in Nat
      /\ Cardinality(Before \intersect SeenIn) \in Nat
  <2>1. Before \union SeenIn \in SUBSET Positions /\ Before \intersect SeenIn \in SUBSET Positions
    BY <1>4
  <2> HIDE DEF Before
  <2>. QED  BY <1>4, <2>1, FiniteProducts
<1>6. Cardinality(Below) <= Cardinality(Before \union SeenIn)
  <2> HIDE DEF Below, Before
  <2>. QED  BY <1>3, <1>5, FS_Subset
<1>7. Cardinality(Before \union SeenIn)
        = Cardinality(Before) + Cardinality(SeenIn) - Cardinality(Before \intersect SeenIn)
  <2> HIDE DEF Before
  <2>. QED  BY <1>5, FS_Union
<1>8. Cardinality(Before) <= run.index
  BY PlacesUpTo
<1>9. Place(p) = Cardinality(Below) /\ Place(p) \in Nat
  BY <1>1 DEF Place
<1> HIDE DEF Below, Before
<1>. QED  BY <1>5, <1>6, <1>7, <1>8, <1>9

(* Modified products leave the window of a load and make the others move up.  *)
LEMMA CpePass ==
    ASSUME CpeInv, NEW modified, Pass(modified)
    PROVE  CpeInv'
<1> USE DEF CpeInv
<1>1. /\ time' = time + 1 /\ UNCHANGED <<dict, run, sound, breaks>>
      /\ changed' = [p \in Positions |-> IF p \in modified THEN time + 1 ELSE changed[p]]
  BY DEF Pass
<1>2. /\ time \in Nat /\ changed \in [Positions -> Nat] /\ run.hi \in Nat /\ sound \in Nat
      /\ \A p \in Positions : changed[p] \in Nat /\ changed[p] <= time
  BY DEF CpeType
<1>3. \A p \in Positions : \/ changed'[p] = time + 1
                           \/ changed'[p] = changed[p]
  BY <1>1
<1>4. CpeType'
  BY <1>1, <1>2 DEF CpeType
<1>5. \A p \in Positions : changed'[p] <= time'
  BY <1>1, <1>2, <1>3
<1>6. sound' <= time' /\ run'.hi <= time'
  BY <1>1, <1>2
<1>7. DictionaryFollows'
  <2> SUFFICES ASSUME NEW p \in Positions, changed'[p] <= sound PROVE dict[p] = changed'[p]
    BY <1>1 DEF DictionaryFollows
  <2>1. changed'[p] = changed[p]
    BY <1>2, <1>3
  <2>. QED  BY <2>1 DEF DictionaryFollows
<1>8. run'.at = "page" => \E read, asked \in SUBSET Positions : ReadOf(read, asked)'
  <2> SUFFICES ASSUME run.at = "page"
               PROVE  \E read, asked \in SUBSET Positions : ReadOf(read, asked)'
    BY <1>1
  <2>1. PICK read \in SUBSET Positions, asked \in SUBSET Positions : ReadOf(read, asked)
    OBVIOUS
  <2>2. Listed' \subseteq Listed
    <3> SUFFICES ASSUME NEW p \in Positions, run.full \/ changed'[p] \in run.lo .. run.hi
                 PROVE  p \in Listed
      BY <1>1 DEF Listed
    <3>1. CASE changed'[p] = changed[p]
      BY <3>1 DEF Listed
    <3>2. CASE changed'[p] = time + 1
      <4>1. ~(changed'[p] \in run.lo .. run.hi)
        BY <1>2, <3>2
      <4>. QED  BY <4>1 DEF Listed
    <3>. QED  BY <1>3, <3>1, <3>2
  <2>3. \A p \in Listed' : Place(p)' <= Place(p)
    <3> SUFFICES ASSUME NEW p \in Listed' PROVE Place(p)' <= Place(p)
      OBVIOUS
    <3>1. {q \in Listed' : q <= p} \subseteq {q \in Listed : q <= p}
      BY <2>2
    <3>2. {q \in Listed : q <= p} \in SUBSET Positions
      BY DEF Listed
    <3>3. IsFiniteSet({q \in Listed : q <= p})
      BY <3>2, FiniteProducts
    <3>. QED  BY <3>1, <3>3, FS_Subset DEF Place
  <2>4. ASSUME NEW p \in read, changed'[p] <= run.hi PROVE dict[p] = changed'[p]
    <3>1. p \in Positions /\ changed'[p] = changed[p]
      BY <1>2, <1>3, <2>4
    <3>. QED  BY <2>1, <2>4, <3>1 DEF ReadOf
  <2>5. ASSUME NEW p \in read, p \in Listed' PROVE Place(p)' <= run.index
    <3>1. p \in Listed /\ Place(p) <= run.index /\ Place(p)' <= Place(p)
      BY <2>1, <2>2, <2>3, <2>5 DEF ReadOf
    <3>2. Place(p) \in Nat /\ run.index \in Nat
      BY <3>1, PlaceType DEF CpeType
    <3>3. Place(p)' \in Nat
      <4>1. {q \in Listed' : q <= p} \in SUBSET Positions
        BY <2>2 DEF Listed
      <4>. QED  BY <4>1, FiniteProducts DEF Place
    <3>. QED  BY <3>1, <3>2, <3>3
  <2>6. ReadOf(read, asked)'
    <3>1. /\ read \subseteq asked /\ Listed' \subseteq asked
          /\ Cardinality(read) = run.index
          /\ IF run.total < 0 THEN run.index = 0 ELSE run.total = Cardinality(asked)
      BY <2>1, <2>2 DEF ReadOf
    <3>. QED  BY <1>1, <2>4, <2>5, <3>1 DEF ReadOf
  <2>. QED  BY <2>6
<1>. QED  BY <1>4, <1>5, <1>6, <1>7, <1>8

(* A load begins with nothing read, and its first page will say how much      *)
(* there is.                                                                  *)
LEMMA CpeBegins ==
    ASSUME CpeInv, NEW full \in BOOLEAN, StartCpe(full)
    PROVE  CpeInv'
<1> USE DEF CpeInv
<1> DEFINE all == full \/ \A p \in Positions : dict[p] = 0
<1>1. /\ UNCHANGED <<time, changed, dict, sound, breaks>>
      /\ run' = [NoRun EXCEPT !.at = "page", !.hi = time, !.full = all, !.lo = time - Window]
  BY DEF StartCpe
<1>2. all \in BOOLEAN /\ time \in Nat /\ time - Window \in Int
  BY CpeAssumption DEF CpeType
<1> HIDE DEF all
<1>3. run' = [at |-> "page", full |-> all, lo |-> time - Window, hi |-> time, index |-> 0, total |-> -1]
  BY <1>1 DEF NoRun
<1>4. CpeType' /\ run'.hi <= time' /\ run'.index = 0 /\ run'.total < 0
  <2>1. run' \in [at : {"idle", "page"}, full : BOOLEAN, lo : Int, hi : Nat,
                  index : Nat, total : Int]
    BY <1>2, <1>3
  <2>2. run'.hi = time /\ run'.index = 0 /\ run'.total = -1
    BY <1>3
  <2>3. CpeType'
    BY <1>1, <2>1 DEF CpeType
  <2>. QED  BY <1>1, <1>2, <2>2, <2>3
<1>5. ReadOf({}, Positions)'
  <2>1. Cardinality({}) = 0
    BY FS_EmptySet
  <2>2. Listed' \subseteq Positions
    BY DEF Listed
  <2>. QED  BY <1>4, <2>1, <2>2 DEF ReadOf
<1>6. (\E read, asked \in SUBSET Positions : ReadOf(read, asked))'
  BY <1>5
<1>7. DictionaryFollows' /\ (\A p \in Positions : changed[p] <= time)' /\ sound' <= time'
  BY <1>1 DEF DictionaryFollows
<1>. QED  BY <1>4, <1>6, <1>7

(* A load that ends by a fault leaves what it has stored, which is no older   *)
(* than what was there.                                                       *)
LEMMA CpeBreaks ==
    ASSUME CpeInv, BreakCpe
    PROVE  CpeInv'
<1> USE DEF CpeInv
<1>1. UNCHANGED <<time, changed, dict, sound>> /\ breaks' = breaks + 1 /\ run' = NoRun
  BY DEF BreakCpe
<1>2. CpeType' /\ run'.hi <= time' /\ run'.at # "page"
  BY <1>1 DEF CpeType, NoRun
<1>3. DictionaryFollows' /\ (\A p \in Positions : changed[p] <= time)' /\ sound' <= time'
  BY <1>1 DEF DictionaryFollows
<1>. QED  BY <1>2, <1>3

(* Pages that overlap nowhere and are as many products as the first of them   *)
(* has counted are all of them: a load that ends by the total has missed none *)
(* that was not modified meanwhile, although the pages shifted under it.      *)
LEMMA CpePage ==
    ASSUME CpeInv, FetchCpePage
    PROVE  CpeInv'
<1> USE DEF CpeInv
<1> DEFINE page  == SeenIn
           total == IF run.total < 0 THEN Cardinality(Listed) ELSE run.total
           next  == run.index + Cardinality(page)
           over  == page = {} \/ next >= total
           cut   == page = {} /\ next < total
<1>1. /\ run.at = "page" /\ UNCHANGED <<time, changed, breaks>>
      /\ dict' = WithPage(page)
      /\ run' = IF over THEN NoRun ELSE [run EXCEPT !.index = next, !.total = total]
      /\ sound' = IF over THEN Sound(cut) ELSE sound
  BY DEF FetchCpePage
<1>2. /\ time \in Nat /\ sound \in Nat /\ breaks \in Nat
      /\ changed \in [Positions -> Nat] /\ dict \in [Positions -> Nat]
      /\ run.full \in BOOLEAN /\ run.lo \in Int /\ run.hi \in Nat /\ run.index \in Nat
      /\ run.total \in Int
  BY DEF CpeType
<1>3. /\ page \in SUBSET Positions /\ page \subseteq Listed /\ Listed \in SUBSET Positions
      /\ IsFiniteSet(page) /\ Cardinality(page) \in Nat
      /\ IsFiniteSet(Listed) /\ Cardinality(Listed) \in Nat
  <2>1. page \in SUBSET Positions /\ page \subseteq Listed /\ Listed \in SUBSET Positions
    BY DEF SeenIn, Listed
  <2> HIDE DEF page
  <2>. QED  BY <2>1, FiniteProducts
<1>4. PICK read, asked \in SUBSET Positions :
          /\ ReadOf(read, asked)
          /\ total = Cardinality(asked)
  <2>1. PICK read, asked0 \in SUBSET Positions : ReadOf(read, asked0)
    BY <1>1
  <2>2. CASE run.total < 0
    <3>1. read = {} /\ run.index = 0
      <4>1. Cardinality(read) = 0
        BY <2>1, <2>2 DEF ReadOf
      <4>2. IsFiniteSet(read)
        BY FiniteProducts
      <4>. QED  BY <2>1, <2>2, <4>1, <4>2, FS_EmptySet DEF ReadOf
    <3>2. ReadOf({}, Listed)
      BY <2>1, <2>2, <3>1 DEF ReadOf
    <3>. QED  BY <1>3, <2>2, <3>2
  <2>3. CASE ~(run.total < 0)
    BY <2>1, <2>3 DEF ReadOf
  <2>. QED  BY <2>2, <2>3
<1>5. /\ read \subseteq asked /\ Listed \subseteq asked /\ Cardinality(read) = run.index
      /\ \A p \in read : changed[p] <= run.hi => dict[p] = changed[p]
      /\ \A p \in read \intersect Listed : Place(p) <= run.index
  BY <1>4 DEF ReadOf
<1>6. read \intersect page = {}
  <2> SUFFICES ASSUME NEW p \in read \intersect page PROVE FALSE
    OBVIOUS
  <2>1. p \in Listed /\ Place(p) <= run.index /\ Place(p) \in run.index + 1 .. run.index + PageLength
    BY <1>5 DEF SeenIn
  <2>. QED  BY <1>2, <2>1, PlaceType
<1>7. /\ read \union page \in SUBSET asked /\ IsFiniteSet(asked) /\ Cardinality(asked) \in Nat
      /\ Cardinality(read \union page) = next
  <2>1. IsFiniteSet(read) /\ IsFiniteSet(asked) /\ Cardinality(asked) \in Nat
    BY FiniteProducts
  <2>2. Cardinality(read \intersect page) = 0
    BY <1>6, FS_EmptySet
  <2>3. Cardinality(read \union page)
          = Cardinality(read) + Cardinality(page) - Cardinality(read \intersect page)
    <3> HIDE DEF page
    <3>. QED  BY <1>3, <2>1, FS_Union
  <2>4. read \union page \in SUBSET asked
    BY <1>3, <1>5
  <2> HIDE DEF page
  <2>. QED  BY <1>2, <1>3, <1>5, <2>1, <2>2, <2>3, <2>4
<1>8. \A p \in Positions : dict'[p] = IF p \in page THEN changed[p] ELSE dict[p]
  BY <1>1 DEF WithPage
<1>9. dict' \in [Positions -> Nat]
  BY <1>1, <1>2 DEF WithPage
<1>10. \A p \in Positions : dict[p] = changed[p] => dict'[p] = changed[p]
  BY <1>8
<1>11. \A p \in read \union page : changed[p] <= run.hi => dict'[p] = changed[p]
  BY <1>3, <1>5, <1>8
<1> HIDE DEF page
<1>12. PICK now \in SUBSET Positions : now = read \union page
  BY <1>3
<1>13. CASE ~over
  <2>1. run' = [run EXCEPT !.index = next, !.total = total] /\ sound' = sound
    BY <1>1, <1>13
  <2>2. next \in Nat /\ total \in Nat
    BY <1>2, <1>3, <1>4, <1>7
  <2>3. next = run.index + Cardinality(page)
    OBVIOUS
  <2> HIDE DEF next, total, over
  <2>4. /\ run'.at = "page" /\ run'.full = run.full /\ run'.lo = run.lo /\ run'.hi = run.hi
        /\ run'.index = next /\ run'.total = total
    BY <1>1, <2>1 DEF CpeType
  <2>5. CpeType'
    <3>1. run' \in [at : {"idle", "page"}, full : BOOLEAN, lo : Int, hi : Nat,
                    index : Nat, total : Int]
      <4>1. run \in [at : {"idle", "page"}, full : BOOLEAN, lo : Int, hi : Nat,
                    index : Nat, total : Int]
        BY DEF CpeType
      <4>2. total \in Int
        BY <2>2
      <4>. QED  BY <2>1, <2>2, <4>1, <4>2
    <3>. QED  BY <1>1, <1>2, <1>9, <2>1, <3>1 DEF CpeType
  <2>6. Listed' = Listed
    BY <1>1, <2>4 DEF Listed
  <2>7. \A p : Place(p)' = Place(p)
    BY <2>6 DEF Place
  <2>8. ASSUME NEW p \in now \intersect Listed PROVE Place(p) <= next
    <3>1. CASE p \in read
      <4>1. Place(p) <= run.index /\ Place(p) \in Nat
        BY <1>5, <2>8, <3>1, PlaceType
      <4>. QED  BY <1>2, <1>3, <2>3, <4>1
    <3>2. CASE p \in page
      BY <1>2, <2>3, <3>2, PagePlaces DEF page
    <3>. QED  BY <1>12, <2>8, <3>1, <3>2
  <2>9. ReadOf(now, asked)'
    <3>1. now \subseteq asked /\ Listed' \subseteq asked
      BY <1>5, <1>7, <1>12, <2>6
    <3>2. Cardinality(now) = run'.index
      BY <1>7, <1>12, <2>4
    <3>3. \A p \in now : changed'[p] <= run'.hi => dict'[p] = changed'[p]
      BY <1>1, <1>11, <1>12, <2>4
    <3>4. \A p \in now \intersect Listed' : Place(p)' <= run'.index
      BY <2>4, <2>6, <2>7, <2>8
    <3>5. ~(run'.total < 0) /\ run'.total = Cardinality(asked)
      BY <1>4, <2>2, <2>4
    <3>. QED  BY <3>1, <3>2, <3>3, <3>4, <3>5 DEF ReadOf
  <2>10. DictionaryFollows'
    BY <1>1, <1>10, <2>1 DEF DictionaryFollows
  <2>11. (\A p \in Positions : changed[p] <= time)' /\ sound' <= time' /\ run'.hi <= time'
    BY <1>1, <2>1, <2>4
  <2>12. (\E r, a \in SUBSET Positions : ReadOf(r, a))'
    BY <2>9
  <2>. QED  BY <2>5, <2>10, <2>11, <2>12
<1>14. CASE over
  <2>1. run' = NoRun /\ sound' = Sound(cut)
    BY <1>1, <1>14
  <2>2. ~cut => next >= total
    <3>1. next \in Int /\ total \in Int
      BY <1>2, <1>3, <1>4, <1>7
    <3> HIDE DEF next, total
    <3>. QED  BY <1>14, <3>1
  <2> HIDE DEF cut, over
  <2>3. \/ sound' = sound
        \/ /\ sound' = run.hi /\ ~cut
           /\ run.full \/ run.lo <= sound
    BY <2>1 DEF Sound
  <2>4. DictionaryFollows'
    <3>1. CASE sound' = sound
      BY <1>1, <1>10, <3>1 DEF DictionaryFollows
    <3>2. CASE sound' = run.hi /\ ~cut /\ (run.full \/ run.lo <= sound)
      <4>1. next >= total
        BY <2>2, <3>2
      <4> HIDE DEF next, total
      <4>2. read \union page = asked
        <5>1. Cardinality(read \union page) <= Cardinality(asked)
          BY <1>7, FS_Subset
        <5>2. Cardinality(read \union page) = Cardinality(asked)
          <6>1. next <= Cardinality(asked) /\ next >= Cardinality(asked) /\ next \in Int
            <7>1. next \in Int
              BY <1>2, <1>3 DEF next
            <7>. QED  BY <1>4, <1>7, <4>1, <5>1, <7>1
          <6>. QED  BY <1>7, <6>1
        <5>. QED  BY <1>7, <5>2, FS_Subset
      <4>3. ASSUME NEW p \in Positions, changed[p] <= run.hi
            PROVE  dict'[p] = changed[p]
        <5>1. CASE p \in Listed
          BY <1>5, <1>11, <4>2, <4>3, <5>1
        <5>2. CASE p \notin Listed
          <6>1. ~run.full /\ ~(changed[p] \in run.lo .. run.hi)
            BY <5>2 DEF Listed
          <6>2. changed[p] <= sound
            BY <1>2, <3>2, <4>3, <6>1
          <6>. QED  BY <1>10, <6>2 DEF DictionaryFollows
        <5>. QED  BY <5>1, <5>2
      <4>. QED  BY <1>1, <3>2, <4>3 DEF DictionaryFollows
    <3>. QED  BY <2>3, <3>1, <3>2
  <2>5. CpeType' /\ run'.hi <= time' /\ run'.at # "page" /\ sound' <= time'
    <3>1. sound' \in Nat /\ sound' <= time
      BY <1>2, <2>3
    <3>2. /\ run' \in [at : {"idle", "page"}, full : BOOLEAN, lo : Int, hi : Nat,
                       index : Nat, total : Int]
          /\ run'.hi = 0 /\ run'.at = "idle"
      BY <2>1 DEF NoRun
    <3>3. CpeType'
      BY <1>1, <1>2, <1>9, <3>1, <3>2, Zenon DEF CpeType
    <3>. QED  BY <1>1, <1>2, <3>1, <3>2, <3>3
  <2>. QED  BY <1>1, <2>4, <2>5
<1>. QED  BY <1>13, <1>14

(* The dictionary starts empty, and nothing is promised before a full load.   *)
LEMMA CpeStart == CpeInit => CpeInv
<1> SUFFICES ASSUME CpeInit PROVE CpeInv
  OBVIOUS
<1>1. CpeType /\ run.at = "idle" /\ run.hi = 0
  BY DEF CpeInit, CpeType, NoRun
<1>2. DictionaryFollows
  BY DEF CpeInit, DictionaryFollows
<1>. QED  BY <1>1, <1>2 DEF CpeInit, CpeInv

(* Once a full load has completed, loads that begin within 24 hours of the    *)
(* start of the last sound one keep cpe_dictionary up to date, for any number *)
(* of products, any page length, and whatever is modified under the load.     *)
THEOREM DictionaryIsCurrent == CpeSpec => []DictionaryFollows
<1>1. CpeInv /\ [CpeNext]_cpeVars => CpeInv'
  <2> SUFFICES ASSUME CpeInv, [CpeNext]_cpeVars PROVE CpeInv'
    OBVIOUS
  <2>1. CASE UNCHANGED cpeVars
    BY <2>1 DEF cpeVars, CpeInv, CpeType, DictionaryFollows, ReadOf, Place, Listed
  <2>. QED  BY <2>1, CpePass, CpeBegins, CpeBreaks, CpePage DEF CpeNext
<1>2. CpeInv => DictionaryFollows
  BY DEF CpeInv
<1>. QED  BY <1>1, <1>2, CpeStart, PTL DEF CpeSpec

-----------------------------------------------------------------------------
(* The catalogues *)

Entry == [id : Ids, body : Nat]
Table == [Ids -> [body : Nat, part : Nat]]

(* Going one place further counts it, if it is one of P.                      *)
LEMMA UpToCounts ==
    ASSUME NEW N \in Nat, NEW P \in SUBSET (1..N), NEW n \in 0..N
    PROVE  /\ IsFiniteSet(P) /\ Cardinality(P) \in Nat
           /\ UpTo(P, n) \in 0..Cardinality(P)
           /\ UpTo(P, 0) = 0 /\ UpTo(P, N) = Cardinality(P)
           /\ n < N => UpTo(P, n + 1) = IF n + 1 \in P THEN UpTo(P, n) + 1 ELSE UpTo(P, n)
<1>1. \A m \in P : m \in 1..N
  OBVIOUS
<1>2. IsFiniteSet(P) /\ Cardinality(P) \in Nat
  <2>1. IsFiniteSet(1..N)
    BY FS_Interval
  <2>. QED  BY <2>1, FS_Subset, FS_CardinalityType
<1> DEFINE S(k) == {m \in P : m <= k}
<1>3. S(n) \in SUBSET P
  OBVIOUS
<1>4. IsFiniteSet(S(n)) /\ Cardinality(S(n)) \in 0..Cardinality(P)
  <2>1. IsFiniteSet(S(n)) /\ Cardinality(S(n)) <= Cardinality(P)
    BY <1>2, <1>3, FS_Subset
  <2>2. Cardinality(S(n)) \in Nat
    BY <2>1, FS_CardinalityType
  <2>. QED  BY <1>2, <2>1, <2>2
<1>5. S(0) = {} /\ S(N) = P
  <2>1. \A m \in P : ~(m <= 0) /\ m <= N
    BY <1>1
  <2>. QED  BY <2>1
<1>6. /\ n + 1 \in P => S(n + 1) = S(n) \cup {n + 1}
      /\ n + 1 \notin P => S(n + 1) = S(n)
  <2>1. \A m \in P : (m <= n + 1) <=> (m <= n \/ m = n + 1)
    BY <1>1
  <2>2. n + 1 \in P => n + 1 <= n + 1
    OBVIOUS
  <2>. QED  BY <2>1, <2>2, Zenon
<1>8. n + 1 \notin S(n)
  OBVIOUS
<1>9. \A k : UpTo(P, k) = Cardinality(S(k))
  BY DEF UpTo
<1> HIDE DEF S
<1>10. Cardinality(S(n) \cup {n + 1}) = Cardinality(S(n)) + 1
  BY <1>4, <1>8, FS_AddElement
<1>11. UpTo(P, n) \in 0..Cardinality(P)
  BY <1>4, <1>9
<1>12. UpTo(P, 0) = 0 /\ UpTo(P, N) = Cardinality(P)
  BY <1>5, <1>9, FS_EmptySet
<1>13. UpTo(P, n + 1) = IF n + 1 \in P THEN UpTo(P, n) + 1 ELSE UpTo(P, n)
  <2>1. CASE n + 1 \in P
    BY <1>6, <1>9, <1>10, <2>1
  <2>2. CASE n + 1 \notin P
    BY <1>6, <1>9, <2>2
  <2>. QED  BY <2>1, <2>2
<1>. QED  BY <1>2, <1>11, <1>12, <1>13

(* Of two of the places the later one counts the earlier one too.             *)
LEMMA UpToGrows ==
    ASSUME NEW N \in Nat, NEW P \in SUBSET (1..N), NEW m \in P, NEW n \in P, m < n
    PROVE  UpTo(P, m) < UpTo(P, n)
<1>1. \A k \in P : k \in 1..N
  OBVIOUS
<1> DEFINE S(k) == {x \in P : x <= k}
<1>2. S(m) \in SUBSET S(n) /\ n \in S(n) /\ n \notin S(m) /\ S(n) \in SUBSET P
  <2>1. \A x \in P : x <= m => x <= n
    BY <1>1
  <2>2. n <= n /\ ~(n <= m)
    BY <1>1
  <2>. QED  BY <2>1, <2>2, Zenon
<1>3. UpTo(P, m) = Cardinality(S(m)) /\ UpTo(P, n) = Cardinality(S(n))
  BY DEF UpTo
<1>4. m \in 0..N /\ n \in 0..N
  BY <1>1
<1>5. IsFiniteSet(P) /\ UpTo(P, m) \in 0..Cardinality(P) /\ UpTo(P, n) \in 0..Cardinality(P)
      /\ Cardinality(P) \in Nat
  BY <1>4, UpToCounts
<1> HIDE DEF S
<1>6. IsFiniteSet(S(n))
  BY <1>2, <1>5, FS_Subset
<1>7. /\ Cardinality(S(m)) <= Cardinality(S(n))
      /\ Cardinality(S(n)) = Cardinality(S(m)) => S(n) = S(m)
  BY <1>2, <1>6, FS_Subset
<1>8. Cardinality(S(n)) # Cardinality(S(m))
  BY <1>2, <1>7
<1>. QED  BY <1>3, <1>5, <1>7, <1>8

(* The places are numbered from 1, each number once.                          *)
LEMMA UpToNumbers ==
    ASSUME NEW N \in Nat, NEW P \in SUBSET (1..N)
    PROVE  /\ \A n \in P : UpTo(P, n) \in 1..Cardinality(P)
           /\ \A k \in 1..Cardinality(P) : \E n \in P : UpTo(P, n) = k
           /\ \A m, n \in P : UpTo(P, m) = UpTo(P, n) => m = n
<1>1. \A k \in P : k \in 1..N
  OBVIOUS
<1>2. IsFiniteSet(P) /\ Cardinality(P) \in Nat
  <2>1. 0 \in 0..N
    OBVIOUS
  <2>. QED  BY <2>1, UpToCounts
<1>3. \A n \in P : UpTo(P, n) \in 1..Cardinality(P)
  <2> SUFFICES ASSUME NEW n \in P PROVE UpTo(P, n) \in 1..Cardinality(P)
    OBVIOUS
  <2>1. n \in 1..N /\ n - 1 \in 0..N /\ n - 1 < N /\ (n - 1) + 1 = n /\ n \in 0..N
    BY <1>1
  <2>2. UpTo(P, n - 1) \in 0..Cardinality(P) /\ UpTo(P, n) \in 0..Cardinality(P)
    BY <2>1, UpToCounts
  <2>3. UpTo(P, n) = UpTo(P, n - 1) + 1
    <3>1. n - 1 < N => UpTo(P, (n - 1) + 1) =
              IF (n - 1) + 1 \in P THEN UpTo(P, n - 1) + 1 ELSE UpTo(P, n - 1)
      BY <2>1, UpToCounts
    <3>. QED  BY <2>1, <3>1
  <2>. QED  BY <1>2, <2>2, <2>3
<1>4. \A m, n \in P : UpTo(P, m) = UpTo(P, n) => m = n
  <2> SUFFICES ASSUME NEW m \in P, NEW n \in P, m # n PROVE UpTo(P, m) # UpTo(P, n)
    OBVIOUS
  <2>1. m < n \/ n < m
    BY <1>1
  <2>2. UpTo(P, m) < UpTo(P, n) \/ UpTo(P, n) < UpTo(P, m)
    BY <2>1, UpToGrows
  <2>. QED  BY <1>2, <1>3, <2>2
<1> DEFINE f == [n \in P |-> UpTo(P, n)]
           T == 1..Cardinality(P)
<1>5. f \in Injection(P, T)
  <2>1. f \in [P -> T]
    BY <1>3
  <2>2. \A m, n \in P : f[m] = f[n] => m = n
    BY <1>4
  <2> HIDE DEF f, T
  <2>. QED  BY <2>1, <2>2 DEF Injection, IsInjective
<1>6. IsFiniteSet(T) /\ Cardinality(T) = Cardinality(P)
  BY <1>2, FS_Interval
<1>7. \A n \in P : f[n] = UpTo(P, n)
  OBVIOUS
<1> HIDE DEF f, T
<1>8. f \in Surjection(P, T)
  BY <1>5, <1>6, FS_Injection
<1>9. \A k \in T : \E n \in P : f[n] = k
  BY <1>8 DEF Surjection
<1>10. \A k \in T : \E n \in P : UpTo(P, n) = k
  BY <1>7, <1>9
<1>. QED  BY <1>3, <1>4, <1>10 DEF T

(* What is kept of an archive are the entries at the places, in their order.  *)
LEMMA KeptInOrder ==
    ASSUME NEW entries \in Seq(Entry), NEW P \in SUBSET (1..Len(entries))
    PROVE  /\ \A n \in P : UpTo(P, n) \in 1..Cardinality(P)
                           /\ Kept(entries, P)[UpTo(P, n)] = entries[n]
           /\ \A k \in 1..Cardinality(P) : \E n \in P : Kept(entries, P)[k] = entries[n]
<1>1. /\ \A n \in P : UpTo(P, n) \in 1..Cardinality(P)
      /\ \A k \in 1..Cardinality(P) : \E n \in P : UpTo(P, n) = k
      /\ \A m, n \in P : UpTo(P, m) = UpTo(P, n) => m = n
  <2>1. Len(entries) \in Nat
    OBVIOUS
  <2>. QED  BY <2>1, UpToNumbers
<1>2. \A k \in 1..Cardinality(P) :
         Kept(entries, P)[k] = entries[CHOOSE n \in P : UpTo(P, n) = k]
  BY DEF Kept
<1>3. \A n \in P : Kept(entries, P)[UpTo(P, n)] = entries[n]
  <2> SUFFICES ASSUME NEW n \in P PROVE Kept(entries, P)[UpTo(P, n)] = entries[n]
    OBVIOUS
  <2>1. (CHOOSE m \in P : UpTo(P, m) = UpTo(P, n)) = n
    BY <1>1
  <2>2. Kept(entries, P)[UpTo(P, n)]
           = entries[CHOOSE m \in P : UpTo(P, m) = UpTo(P, n)]
    BY <1>1, <1>2
  <2>. QED  BY <2>1, <2>2
<1>4. \A k \in 1..Cardinality(P) : \E n \in P : Kept(entries, P)[k] = entries[n]
  <2> SUFFICES ASSUME NEW k \in 1..Cardinality(P)
               PROVE  \E n \in P : Kept(entries, P)[k] = entries[n]
    OBVIOUS
  <2>1. PICK n \in P : UpTo(P, n) = k
    BY <1>1
  <2>. QED  BY <1>3, <2>1
<1>. QED  BY <1>1, <1>3, <1>4

(* Of finitely many places one is the first and one is the last.              *)
LEMMA FirstAndLast ==
    ASSUME NEW N \in Nat, NEW P \in SUBSET (1..N), P # {}
    PROVE  /\ \E n \in P : \A m \in P : n <= m
           /\ \E n \in P : \A m \in P : m <= n
<1>1. \A k \in P : k \in 1..N
  OBVIOUS
<1>2. /\ \A n \in P : UpTo(P, n) \in 1..Cardinality(P)
      /\ \A k \in 1..Cardinality(P) : \E n \in P : UpTo(P, n) = k
  BY UpToNumbers
<1>3. Cardinality(P) \in Nat
  <2>1. 0 \in 0..N
    OBVIOUS
  <2>. QED  BY <2>1, UpToCounts
<1>4. 1 \in 1..Cardinality(P) /\ Cardinality(P) \in 1..Cardinality(P)
  <2>1. PICK n \in P : TRUE
    OBVIOUS
  <2>2. UpTo(P, n) \in 1..Cardinality(P)
    BY <1>2, <2>1
  <2>. QED  BY <1>3, <2>2
<1>5. \A m, n \in P : m < n => UpTo(P, m) < UpTo(P, n)
  BY UpToGrows
<1>6. \E n \in P : \A m \in P : n <= m
  <2>1. PICK n \in P : UpTo(P, n) = 1
    BY <1>2, <1>4
  <2>. QED  BY <1>1, <1>2, <1>3, <1>5, <2>1
<1>7. \E n \in P : \A m \in P : m <= n
  <2>1. PICK n \in P : UpTo(P, n) = Cardinality(P)
    BY <1>2, <1>4
  <2>. QED  BY <1>1, <1>2, <1>3, <1>5, <2>1
<1>. QED  BY <1>6, <1>7

\* Entry n is the last of identifier i.
IsLast(entries, i, n) ==
    /\ n \in DOMAIN entries /\ entries[n].id = i
    /\ \A m \in DOMAIN entries : entries[m].id = i => m <= n

\* Table new is rows with each entry's row as its last entry says, and no other
\* row changed.
Written(rows, entries, part, new) ==
    /\ new \in Table
    /\ \A i \in Ids : (\A n \in DOMAIN entries : entries[n].id # i) => new[i] = rows[i]
    /\ \A i \in Ids : \A n : IsLast(entries, i, n) =>
          new[i] = [body |-> entries[n].body, part |-> part]
    /\ \A i \in Ids : (\E n \in DOMAIN entries : entries[n].id = i)
                          => \E n : IsLast(entries, i, n)

(* A transaction writes the rows of its batch, each as its last entry says,   *)
(* and no other.                                                              *)
LEMMA OverlaidRows ==
    ASSUME NEW rows \in Table, NEW entries \in Seq(Entry), NEW part \in Nat
    PROVE  Written(rows, entries, part, Overlaid(rows, entries, part))
<1> DEFINE given(i) == {n \in DOMAIN entries : entries[n].id = i}
           last(i)  == CHOOSE n \in given(i) : \A m \in given(i) : m <= n
           value(i) == IF given(i) = {} THEN rows[i]
                       ELSE [body |-> entries[last(i)].body, part |-> part]
<1>1. DOMAIN rows = Ids
  BY DEF Table
<1>2. Overlaid(rows, entries, part) = [i \in Ids |-> value(i)]
  BY <1>1 DEF Overlaid
<1>3. \A i, n : IsLast(entries, i, n) => n \in given(i) /\ \A m \in given(i) : m <= n
  BY DEF IsLast
<1>4. \A i, n : n \in given(i) /\ (\A m \in given(i) : m <= n) => IsLast(entries, i, n)
  BY DEF IsLast
<1>5. \A n \in DOMAIN entries : n \in 1..Len(entries) /\ entries[n] \in Entry
  OBVIOUS
<1>6. \A i : given(i) # {} => \E n : IsLast(entries, i, n)
  <2> SUFFICES ASSUME NEW i, given(i) # {} PROVE \E n : IsLast(entries, i, n)
    OBVIOUS
  <2>1. given(i) \in SUBSET (1..Len(entries)) /\ Len(entries) \in Nat
    BY <1>5
  <2> HIDE DEF given
  <2>2. \E n \in given(i) : \A m \in given(i) : m <= n
    BY <2>1, FirstAndLast
  <2>. QED  BY <1>4, <2>2
<1>7. \A i : given(i) # {} => last(i) \in given(i) /\ IsLast(entries, i, last(i))
  <2> SUFFICES ASSUME NEW i, given(i) # {}
               PROVE  last(i) \in given(i) /\ IsLast(entries, i, last(i))
    OBVIOUS
  <2>1. \E n \in given(i) : \A m \in given(i) : m <= n
    BY <1>3, <1>6
  <2> HIDE DEF given
  <2>2. last(i) \in given(i) /\ \A m \in given(i) : m <= last(i)
    BY <2>1
  <2>. QED  BY <1>4, <2>2
<1>8. \A i, m, n : IsLast(entries, i, m) /\ IsLast(entries, i, n) => m = n
  <2> SUFFICES ASSUME NEW i, NEW m, NEW n, IsLast(entries, i, m), IsLast(entries, i, n)
               PROVE  m = n
    OBVIOUS
  <2>1. m \in 1..Len(entries) /\ n \in 1..Len(entries) /\ Len(entries) \in Nat
    BY <1>5 DEF IsLast
  <2>2. m <= n /\ n <= m
    BY DEF IsLast
  <2>. QED  BY <2>1, <2>2
<1>9. \A i : given(i) \subseteq DOMAIN entries
  OBVIOUS
<1>10. \A i : (\A n \in DOMAIN entries : entries[n].id # i) => given(i) = {}
  OBVIOUS
<1>11. \A i : (\E n \in DOMAIN entries : entries[n].id = i) => given(i) # {}
  OBVIOUS
<1> HIDE DEF given, last
<1>12. Overlaid(rows, entries, part) \in Table
  <2> SUFFICES ASSUME NEW i \in Ids PROVE value(i) \in [body : Nat, part : Nat]
    BY <1>2 DEF Table
  <2>1. CASE given(i) = {}
    BY <2>1 DEF Table
  <2>2. CASE given(i) # {}
    <3>1. entries[last(i)] \in Entry
      BY <1>5, <1>7, <1>9, <2>2
    <3>. QED  BY <2>2, <3>1 DEF Entry
  <2>. QED  BY <2>1, <2>2
<1>13. \A i \in Ids : Overlaid(rows, entries, part)[i] = value(i)
  BY <1>2
<1>14. \A i \in Ids : \A n : IsLast(entries, i, n) =>
          Overlaid(rows, entries, part)[i] = [body |-> entries[n].body, part |-> part]
  <2> SUFFICES ASSUME NEW i \in Ids, NEW n, IsLast(entries, i, n)
               PROVE  value(i) = [body |-> entries[n].body, part |-> part]
    BY <1>13
  <2>1. given(i) # {}
    BY <1>3
  <2>2. last(i) = n
    BY <1>7, <1>8, <2>1
  <2>. QED  BY <2>1, <2>2
<1>15. \A i \in Ids : (\A n \in DOMAIN entries : entries[n].id # i)
                          => Overlaid(rows, entries, part)[i] = rows[i]
  BY <1>10, <1>13
<1>16. \A i \in Ids : (\E n \in DOMAIN entries : entries[n].id = i)
                          => \E n : IsLast(entries, i, n)
  BY <1>6, <1>11
<1>. QED  BY <1>12, <1>14, <1>15, <1>16, Zenon DEF Written

(* Two batches one after the other are one longer batch.                      *)
LEMMA OverlaidTwice ==
    ASSUME NEW rows \in Table, NEW V \in Seq(Entry), NEW part \in Nat,
           NEW n \in 0..Len(V), NEW k \in n..Len(V)
    PROVE  Overlaid(Overlaid(rows, SubSeq(V, 1, n), part), SubSeq(V, n + 1, k), part)
              = Overlaid(rows, SubSeq(V, 1, k), part)
<1> DEFINE A == SubSeq(V, 1, n)
           B == SubSeq(V, n + 1, k)
           C == SubSeq(V, 1, k)
           once  == Overlaid(rows, A, part)
           twice == Overlaid(once, B, part)
           whole == Overlaid(rows, C, part)
<1>1. /\ A \in Seq(Entry) /\ Len(A) = n /\ \A j \in 1..n : A[j] = V[j]
      /\ B \in Seq(Entry) /\ Len(B) = k - n /\ \A j \in 1..(k - n) : B[j] = V[n + j]
      /\ C \in Seq(Entry) /\ Len(C) = k /\ \A j \in 1..k : C[j] = V[j]
  OBVIOUS
<1>2. DOMAIN A = 1..n /\ DOMAIN B = 1..(k - n) /\ DOMAIN C = 1..k
  BY <1>1
<1>3. n \in Nat /\ k \in Nat /\ k - n \in Nat
  OBVIOUS
<1> HIDE DEF A, B, C
<1>4. Written(rows, A, part, once)
  BY <1>1, OverlaidRows
<1> HIDE DEF once
<1>5. /\ once \in Table
      /\ \A i \in Ids : (\A m \in DOMAIN A : A[m].id # i) => once[i] = rows[i]
      /\ \A i \in Ids : \A m : IsLast(A, i, m) => once[i] = [body |-> A[m].body, part |-> part]
      /\ \A i \in Ids : (\E m \in DOMAIN A : A[m].id = i) => \E m : IsLast(A, i, m)
  BY <1>4, Zenon DEF Written
<1>written. Written(once, B, part, twice) /\ Written(rows, C, part, whole)
  BY <1>1, <1>5, OverlaidRows
<1> HIDE DEF twice, whole
<1>6. /\ twice \in Table
      /\ \A i \in Ids : (\A m \in DOMAIN B : B[m].id # i) => twice[i] = once[i]
      /\ \A i \in Ids : \A m : IsLast(B, i, m) => twice[i] = [body |-> B[m].body, part |-> part]
      /\ \A i \in Ids : (\E m \in DOMAIN B : B[m].id = i) => \E m : IsLast(B, i, m)
  BY <1>written, Zenon DEF Written
<1>7. /\ whole \in Table
      /\ \A i \in Ids : (\A m \in DOMAIN C : C[m].id # i) => whole[i] = rows[i]
      /\ \A i \in Ids : \A m : IsLast(C, i, m) => whole[i] = [body |-> C[m].body, part |-> part]
  BY <1>written, Zenon DEF Written
<1>8. \A i \in Ids : twice[i] = whole[i]
  <2> SUFFICES ASSUME NEW i \in Ids PROVE twice[i] = whole[i]
    OBVIOUS
  <2>1. CASE \E m \in DOMAIN B : B[m].id = i
    <3>1. PICK j : IsLast(B, i, j)
      BY <1>6, <2>1
    <3>2. j \in 1..(k - n) /\ V[n + j].id = i /\ n + j \in 1..k /\ B[j] = V[n + j]
          /\ C[n + j] = V[n + j]
      <4>1. j \in 1..(k - n) /\ B[j].id = i
        BY <1>2, <3>1 DEF IsLast
      <4>2. n + j \in 1..k
        BY <1>3, <4>1
      <4>3. B[j] = V[n + j] /\ C[n + j] = V[n + j]
        BY <1>1, <4>1, <4>2
      <4>. QED  BY <4>1, <4>2, <4>3
    <3>3. ASSUME NEW m \in DOMAIN C, C[m].id = i PROVE m <= n + j
      <4>1. m \in 1..k /\ V[m].id = i
        BY <1>1, <1>2, <3>3
      <4>2. CASE m <= n
        BY <1>3, <3>2, <4>1, <4>2
      <4>3. CASE m > n
        <5>1. m - n \in 1..(k - n) /\ n + (m - n) = m
          BY <1>3, <4>1, <4>3
        <5>2. B[m - n] = V[m]
          BY <1>1, <5>1
        <5>3. m - n <= j
          BY <1>2, <3>1, <4>1, <5>1, <5>2 DEF IsLast
        <5>. QED  BY <1>3, <3>2, <4>1, <5>3
      <4>. QED  BY <1>3, <4>1, <4>2, <4>3
    <3>4. IsLast(C, i, n + j)
      BY <1>2, <3>2, <3>3 DEF IsLast
    <3>5. twice[i] = [body |-> B[j].body, part |-> part]
      BY <1>6, <3>1, Zenon
    <3>6. whole[i] = [body |-> C[n + j].body, part |-> part]
      BY <1>7, <3>4, Zenon
    <3>. QED  BY <3>2, <3>5, <3>6
  <2>2. CASE (\A m \in DOMAIN B : B[m].id # i) /\ \E m \in DOMAIN A : A[m].id = i
    <3>1. PICK j : IsLast(A, i, j)
      BY <1>5, <2>2
    <3>2. j \in 1..n /\ V[j].id = i /\ j \in 1..k /\ A[j] = V[j] /\ C[j] = V[j]
      BY <1>1, <1>2, <1>3, <3>1 DEF IsLast
    <3>3. ASSUME NEW m \in DOMAIN C, C[m].id = i PROVE m <= j
      <4>1. m \in 1..k /\ V[m].id = i
        BY <1>1, <1>2, <3>3
      <4>2. CASE m <= n
        <5>1. m \in DOMAIN A /\ A[m].id = i
          BY <1>1, <1>2, <1>3, <4>1, <4>2
        <5>. QED  BY <3>1, <5>1 DEF IsLast
      <4>3. CASE m > n
        <5>1. m - n \in 1..(k - n) /\ n + (m - n) = m
          BY <1>3, <4>1, <4>3
        <5>2. B[m - n] = V[m]
          BY <1>1, <5>1
        <5>. QED  BY <1>2, <2>2, <4>1, <5>1, <5>2
      <4>. QED  BY <1>3, <4>1, <4>2, <4>3
    <3>4. IsLast(C, i, j)
      BY <1>2, <3>2, <3>3 DEF IsLast
    <3>5. twice[i] = once[i]
      BY <1>6, <2>2, Zenon
    <3>6. once[i] = [body |-> A[j].body, part |-> part]
      BY <1>5, <3>1, Zenon
    <3>7. whole[i] = [body |-> C[j].body, part |-> part]
      BY <1>7, <3>4, Zenon
    <3>. QED  BY <3>2, <3>5, <3>6, <3>7
  <2>3. CASE (\A m \in DOMAIN B : B[m].id # i) /\ \A m \in DOMAIN A : A[m].id # i
    <3>1. ASSUME NEW m \in DOMAIN C PROVE C[m].id # i
      <4>1. m \in 1..k /\ C[m] = V[m]
        BY <1>1, <1>2
      <4>2. CASE m <= n
        <5>1. m \in DOMAIN A /\ A[m] = V[m]
          BY <1>1, <1>2, <1>3, <4>1, <4>2
        <5>. QED  BY <2>3, <4>1, <5>1
      <4>3. CASE m > n
        <5>1. m - n \in 1..(k - n) /\ n + (m - n) = m
          BY <1>3, <4>1, <4>3
        <5>2. B[m - n] = V[m]
          BY <1>1, <5>1
        <5>. QED  BY <1>2, <2>3, <4>1, <5>1, <5>2
      <4>. QED  BY <1>3, <4>1, <4>2, <4>3
    <3>. QED  BY <1>5, <1>6, <1>7, <2>3, <3>1
  <2>. QED  BY <2>1, <2>2, <2>3
<1>9. twice = whole
  BY <1>6, <1>7, <1>8 DEF Table
<1>. QED  BY <1>9 DEF A, B, C, once, twice, whole

(* An empty batch writes nothing.                                             *)
LEMMA OverlaidNothing ==
    ASSUME NEW rows \in Table, NEW entries \in Seq(Entry), NEW part \in Nat, Len(entries) = 0
    PROVE  Overlaid(rows, entries, part) = rows
<1>1. DOMAIN entries = {} /\ DOMAIN rows = Ids
  BY DEF Table
<1>2. \A i \in Ids : Overlaid(rows, entries, part)[i] = rows[i]
  BY <1>1 DEF Overlaid
<1>3. Overlaid(rows, entries, part) \in Table
  BY OverlaidRows DEF Written
<1>. QED  BY <1>2, <1>3 DEF Table

-----------------------------------------------------------------------------
Loads == [at : {"idle", "download", "parse", "upsert", "success", "error"},
          part : Nat, tries : Nat, pos : Nat, batch : Seq(Entry),
          taken : Seq(Seq(Entry)), whole : SUBSET Nat, before : Table,
          hurt : BOOLEAN, lost : BOOLEAN]

CatalogueTyped ==
    /\ source \in {"kev", "cwe", "bdu", "osv"}
    /\ feed \in [Parts -> Archives]
    /\ row \in Table
    /\ load \in Loads

\* Of the archives t, some has an entry that makes x the row of i.
Offers(t, i, x) ==
    \E p \in DOMAIN t : \E n \in DOMAIN t[p] :
        t[p][n].id = i /\ t[p][n].body > 0 /\ x = [body |-> t[p][n].body, part |-> p]

\* Every valid entry of archive p has a row from one of the archives.
PartStored(t, rows, p) ==
    \A n \in DOMAIN t[p] : t[p][n].body > 0 => Offers(t, t[p][n].id, rows[t[p][n].id])

Running == load.at \in {"parse", "upsert"}

\* Where a load is, and what of it is complete.
PlaceOK ==
    /\ load.whole \subseteq DOMAIN load.taken
    /\ \A p \in load.whole : PartStored(load.taken, row, p)
    /\ load.at = "download" => /\ load.part \in Parts /\ Len(load.taken) = load.part - 1
                               /\ load.pos = 0 /\ load.batch = <<>>
    /\ Running => /\ load.part \in Parts /\ Len(load.taken) = load.part
                  /\ load.pos \in 0..Len(Entries)
    /\ load.at = "success" /\ source # "osv" => load.whole = Parts

\* What has been read is stored or waits in the batch, which holds nothing else.
BatchOK ==
    Running =>
        /\ \A k \in DOMAIN load.batch :
              load.batch[k].body > 0 /\ \E n \in DOMAIN load.taken[load.part] :
                                            load.batch[k] = load.taken[load.part][n]
        /\ \A n \in 1..load.pos :
              \/ Entries[n].body = 0
              \/ Offers(load.taken, Entries[n].id, row[Entries[n].id])
              \/ \E k \in DOMAIN load.batch : load.batch[k].id = Entries[n].id

\* KEV and CWE have one transaction, in which KEV has nothing twice.
OneTransaction ==
    source \in {"kev", "cwe"} =>
        /\ load.at = "download" \/ Running => row = load.before /\ ~load.lost
        /\ load.at = "parse" => load.pos = 0 /\ load.batch = <<>>
        /\ load.at = "upsert" => /\ load.pos = Len(Entries) /\ load.batch = Replacement
                                 /\ source = "kev" => ~Repeats(load.batch)

WholeBatches(n) == n = 0 \/ \E batches \in 1..n : n = batches * BatchSize

\* Of a BDU archive, n entries are stored and the next ones are the batch.
Flushed(n) ==
    /\ n + Len(load.batch) = UpTo(ValidIn(Entries), load.pos)
    /\ load.batch = SubSeq(Valid(Entries), n + 1, n + Len(load.batch))
    /\ row = Overlaid(load.before, SubSeq(Valid(Entries), 1, n), 1)
    /\ WholeBatches(n) \/ (load.pos = Len(Entries) /\ load.batch = <<>>)
    /\ load.at = "parse" => Len(load.batch) < BatchSize
    /\ load.at = "upsert" =>
          load.batch # <<>> /\ (Len(load.batch) = BatchSize \/ load.pos = Len(Entries))

InBatches ==
    source = "bdu" =>
        /\ load.at = "download" => row = load.before
        /\ Running => \E n \in 0..Len(Valid(Entries)) : Flushed(n)

CataloguesInv ==
    /\ CatalogueTyped
    /\ PlaceOK
    /\ BatchOK
    /\ OneTransaction
    /\ InBatches
    /\ FailedLoadIsPrefix
    /\ OnlyContentFails

(* An entry that makes a row is among those that Offered counts.              *)
LEMMA OfferedIsOffers ==
    ASSUME NEW i, NEW x, Offers(load.taken, i, x)
    PROVE  x \in Offered(i)
<1>1. PICK p \in DOMAIN load.taken : \E n \in DOMAIN load.taken[p] :
         /\ load.taken[p][n].id = i /\ load.taken[p][n].body > 0
         /\ x = [body |-> load.taken[p][n].body, part |-> p]
  BY DEF Offers
<1>2. PICK n \in DOMAIN load.taken[p] :
         /\ load.taken[p][n].id = i /\ load.taken[p][n].body > 0
         /\ x = [body |-> load.taken[p][n].body, part |-> p]
  BY <1>1
<1> DEFINE e == load.taken[p][n]
           these == {[body |-> f.body, part |-> p]
                     : f \in {g \in Range(load.taken[p]) : g.id = i /\ g.body > 0}}
<1>3. e \in Range(load.taken[p])
  BY DEF Range
<1>4. x \in these
  BY <1>2, <1>3
<1>. QED  BY <1>4 DEF Offered

(* A load of which the invariant holds has the result that sync_status says.  *)
LEMMA ResultFromInv == CataloguesInv => ResultIsTrue
<1> SUFFICES ASSUME CataloguesInv PROVE SuccessIsComplete
  BY DEF ResultIsTrue, CataloguesInv
<1> SUFFICES ASSUME load.at = "success"
             PROVE  /\ source # "osv" => load.whole = Parts
                    /\ \A p \in load.whole : \A e \in Range(load.taken[p]) :
                          e.body > 0 => row[e.id] \in Offered(e.id)
  BY DEF SuccessIsComplete
<1>1. source # "osv" => load.whole = Parts
  BY DEF CataloguesInv, PlaceOK
<1>2. ASSUME NEW p \in load.whole, NEW e \in Range(load.taken[p]), e.body > 0
      PROVE  row[e.id] \in Offered(e.id)
  <2>1. PICK n \in DOMAIN load.taken[p] : load.taken[p][n] = e
    BY DEF Range
  <2>2. PartStored(load.taken, row, p)
    BY DEF CataloguesInv, PlaceOK
  <2>3. Offers(load.taken, e.id, row[e.id])
    BY <1>2, <2>1, <2>2 DEF PartStored
  <2>. QED  BY <2>3, OfferedIsOffers
<1>. QED  BY <1>1, <1>2

(* The archives of a load are numbered from 1, and there is at least one.     *)
LEMMA PartsAreNumbered ==
    /\ Cardinality(Parts) \in Nat \ {0}
    /\ Parts = 1..Cardinality(Parts)
    /\ source # "osv" => Cardinality(Parts) = 1 /\ Parts = {1}
<1>1. CASE source = "osv"
  <2>1. Parts = 1..Ecosystems /\ Ecosystems \in Nat \ {0}
    BY <1>1, CataloguesAssumption DEF Parts, CataloguesAssumption
  <2>2. Cardinality(1..Ecosystems) = Ecosystems
    BY <2>1, FS_Interval
  <2>. QED  BY <1>1, <2>1, <2>2
<1>2. CASE source # "osv"
  <2>1. Parts = {1}
    BY <1>2 DEF Parts
  <2>2. Cardinality({1}) = 1
    BY FS_Singleton
  <2>3. {1} = 1..1
    OBVIOUS
  <2>. QED  BY <2>1, <2>2, <2>3
<1>. QED  BY <1>1, <1>2

(* What the archives offer they still offer when one more is downloaded.      *)
LEMMA OffersGrow ==
    ASSUME NEW t \in Seq(Seq(Entry)), NEW a \in Seq(Entry), NEW i, NEW x, Offers(t, i, x)
    PROVE  Offers(Append(t, a), i, x)
<1>1. PICK p \in DOMAIN t : \E n \in DOMAIN t[p] :
         t[p][n].id = i /\ t[p][n].body > 0 /\ x = [body |-> t[p][n].body, part |-> p]
  BY DEF Offers
<1>2. p \in DOMAIN Append(t, a) /\ Append(t, a)[p] = t[p]
  OBVIOUS
<1>. QED  BY <1>1, <1>2 DEF Offers

(* What is stored is stored when one more is downloaded.                      *)
LEMMA StoredGrow ==
    ASSUME NEW t \in Seq(Seq(Entry)), NEW a \in Seq(Entry), NEW rows, NEW p \in DOMAIN t,
           PartStored(t, rows, p)
    PROVE  PartStored(Append(t, a), rows, p)
<1>1. Append(t, a)[p] = t[p]
  OBVIOUS
<1>2. \A n \in DOMAIN t[p] : t[p][n].body > 0 =>
         Offers(Append(t, a), t[p][n].id, rows[t[p][n].id])
  BY OffersGrow DEF PartStored
<1>. QED  BY <1>1, <1>2 DEF PartStored

(* A batch of entries of archive p leaves only rows that the archives offer.  *)
LEMMA OffersStored ==
    ASSUME NEW t \in Seq(Seq(Entry)), NEW p \in DOMAIN t, NEW rows \in Table,
           NEW batch \in Seq(Entry),
           \A k \in DOMAIN batch :
               batch[k].body > 0 /\ \E n \in DOMAIN t[p] : batch[k] = t[p][n]
    PROVE  /\ \A i \in Ids : Offers(t, i, rows[i]) => Offers(t, i, Overlaid(rows, batch, p)[i])
           /\ \A i \in Ids : (\E k \in DOMAIN batch : batch[k].id = i)
                                 => Offers(t, i, Overlaid(rows, batch, p)[i])
<1> DEFINE new == Overlaid(rows, batch, p)
<1>1. p \in Nat
  OBVIOUS
<1>written. Written(rows, batch, p, new)
  BY <1>1, OverlaidRows
<1> HIDE DEF new
<1>2. /\ new \in Table
      /\ \A i \in Ids : (\A n \in DOMAIN batch : batch[n].id # i) => new[i] = rows[i]
      /\ \A i \in Ids : \A n : IsLast(batch, i, n) =>
            new[i] = [body |-> batch[n].body, part |-> p]
      /\ \A i \in Ids : (\E n \in DOMAIN batch : batch[n].id = i) => \E n : IsLast(batch, i, n)
  BY <1>written, Zenon DEF Written
<1>3. ASSUME NEW i \in Ids, NEW k \in DOMAIN batch, batch[k].id = i
      PROVE  Offers(t, i, new[i])
  <2>1. PICK n : IsLast(batch, i, n)
    BY <1>2, <1>3
  <2>2. n \in DOMAIN batch /\ batch[n].id = i
    BY <2>1 DEF IsLast
  <2>3. PICK m \in DOMAIN t[p] : batch[n] = t[p][m]
    BY <2>2
  <2>4. new[i] = [body |-> batch[n].body, part |-> p]
    BY <1>2, <2>1, Zenon
  <2>5. batch[n].body > 0
    BY <2>2
  <2>. QED  BY <2>2, <2>3, <2>4, <2>5 DEF Offers
<1>4. ASSUME NEW i \in Ids, Offers(t, i, rows[i]) PROVE Offers(t, i, new[i])
  <2>1. CASE \E k \in DOMAIN batch : batch[k].id = i
    BY <1>3, <2>1
  <2>2. CASE \A k \in DOMAIN batch : batch[k].id # i
    BY <1>2, <1>4, <2>2
  <2>. QED  BY <2>1, <2>2
<1>. QED  BY <1>3, <1>4 DEF new

RecordsIn(entries) == IF source = "kev" THEN KevRecords(entries) ELSE CweRecords(entries)

\* Of its archive, load l has left whole transactions in rows.
StoredPrefix(l, rows) ==
    /\ source \in {"kev", "cwe"} =>
          rows = IF l.lost THEN Overlaid(l.before, RecordsIn(l.taken[l.part]), 1) ELSE l.before
    /\ source = "bdu" =>
          LET valid == IF l.taken = <<>> THEN <<>> ELSE Valid(l.taken[l.part])
          IN  \E n \in 0..Len(valid) :
                 /\ n = Len(valid) \/ \E batches \in 0..n : n = batches * BatchSize
                 /\ rows = Overlaid(l.before, SubSeq(valid, 1, n), 1)

\* Load l is refused for what is in the archive.
OfContent(l) ==
    \/ source \in {"kev", "cwe"} /\ Valid(l.taken[l.part]) = <<>>
    \/ source \in {"cwe", "bdu"} /\ Repeats(l.batch)

(* After an archive comes the next one, or the end.                           *)
LEMMA TurnedKeeps ==
    ASSUME source \in {"kev", "cwe", "bdu", "osv"}, source' = source,
           feed' \in [Parts -> Archives], row' \in Table,
           NEW l \in Loads, load' = Turned(l),
           l.part \in 0..Cardinality(Parts), Len(l.taken) = l.part,
           l.whole \subseteq DOMAIN l.taken,
           \A p \in l.whole : PartStored(l.taken, row', p),
           source # "osv" => IF l.part = 0 THEN row' = l.before /\ ~l.lost ELSE l.whole = Parts
    PROVE  CataloguesInv'
<1>1. /\ Cardinality(Parts) \in Nat \ {0} /\ Parts = 1..Cardinality(Parts)
      /\ source # "osv" => Cardinality(Parts) = 1
  BY PartsAreNumbered
<1>2. Parts' = Parts
  BY DEF Parts
<1>3. <<>> \in Seq(Entry)
  OBVIOUS
<1>4. CASE l.part < Cardinality(Parts)
  <2>1. load' = [l EXCEPT !.at = "download", !.part = @ + 1, !.tries = 0, !.pos = 0,
                          !.batch = <<>>]
    BY <1>4 DEF Turned
  <2>2. /\ load' \in Loads /\ load'.at = "download" /\ load'.part = l.part + 1
        /\ load'.taken = l.taken /\ load'.whole = l.whole /\ load'.before = l.before
        /\ load'.pos = 0 /\ load'.batch = <<>> /\ load'.lost = l.lost
    <3>1. PICK next \in Nat : next = l.part + 1
      BY DEF Loads
    <3>2. load' = [l EXCEPT !.at = "download", !.part = next, !.tries = 0, !.pos = 0,
                            !.batch = <<>>]
      BY <2>1, <3>1
    <3>3. 0 \in Nat /\ next = l.part + 1
      BY <3>1
    <3>. QED  BY <1>3, <3>2, <3>3 DEF Loads
  <2>3. CatalogueTyped'
    BY <1>2, <2>2 DEF CatalogueTyped
  <2>4. load'.part \in Parts /\ Len(load'.taken) = load'.part - 1
    BY <1>1, <1>4, <2>2
  <2>5. PlaceOK' /\ BatchOK'
    BY <1>2, <2>2, <2>4 DEF PlaceOK, BatchOK, Running
  <2>6. source # "osv" => row' = load'.before /\ ~load'.lost
    BY <1>1, <1>4, <2>2
  <2>7. OneTransaction' /\ InBatches'
    BY <2>2, <2>6 DEF OneTransaction, InBatches, Running
  <2>8. FailedLoadIsPrefix' /\ OnlyContentFails'
    BY <2>2 DEF FailedLoadIsPrefix, OnlyContentFails
  <2>. QED  BY <2>3, <2>5, <2>7, <2>8 DEF CataloguesInv
<1>5. CASE ~(l.part < Cardinality(Parts))
  <2>1. load' = [l EXCEPT !.at = "success"]
    BY <1>5 DEF Turned
  <2>2. /\ load' \in Loads /\ load'.at = "success"
        /\ load'.taken = l.taken /\ load'.whole = l.whole
    BY <2>1 DEF Loads
  <2>3. source # "osv" => l.whole = Parts
    BY <1>1, <1>5
  <2>4. CatalogueTyped'
    BY <1>2, <2>2 DEF CatalogueTyped
  <2>5. PlaceOK' /\ BatchOK'
    BY <1>2, <2>2, <2>3 DEF PlaceOK, BatchOK, Running
  <2>6. OneTransaction' /\ InBatches'
    BY <2>2 DEF OneTransaction, InBatches, Running
  <2>7. FailedLoadIsPrefix' /\ OnlyContentFails'
    BY <2>2 DEF FailedLoadIsPrefix, OnlyContentFails
  <2>. QED  BY <2>4, <2>5, <2>6, <2>7 DEF CataloguesInv
<1>. QED  BY <1>4, <1>5

(* An error ends a load, with a reason and with what it has stored.           *)
LEMMA ErrorKeeps ==
    ASSUME source \in {"kev", "cwe", "bdu", "osv"}, source' = source,
           feed' \in [Parts -> Archives], row' \in Table,
           NEW l \in Loads, load' = [l EXCEPT !.at = "error"],
           l.whole \subseteq DOMAIN l.taken,
           \A p \in l.whole : PartStored(l.taken, row', p),
           source # "osv" => StoredPrefix(l, row'),
           l.hurt \/ OfContent(l)
    PROVE  CataloguesInv'
<1>1. /\ load' \in Loads /\ load'.at = "error" /\ load'.part = l.part
      /\ load'.taken = l.taken /\ load'.whole = l.whole /\ load'.before = l.before
      /\ load'.batch = l.batch /\ load'.hurt = l.hurt /\ load'.lost = l.lost
  BY DEF Loads
<1>2. Parts' = Parts
  BY DEF Parts
<1>3. CatalogueTyped'
  BY <1>1, <1>2 DEF CatalogueTyped
<1>4. PlaceOK' /\ BatchOK' /\ OneTransaction' /\ InBatches'
  BY <1>1 DEF PlaceOK, BatchOK, OneTransaction, InBatches, Running
<1>5. Entries' = l.taken[l.part]
  BY <1>1 DEF Entries
<1>6. FailedLoadIsPrefix'
  BY <1>1, <1>5 DEF FailedLoadIsPrefix, StoredPrefix, Replacement, RecordsIn
<1>7. OnlyContentFails'
  BY <1>1, <1>5 DEF OnlyContentFails, OfContent, Repeats
<1>. QED  BY <1>3, <1>4, <1>6, <1>7 DEF CataloguesInv

(* An error ends the load of one file; OSV goes on with the next archive.     *)
LEMMA BrokenKeeps ==
    ASSUME source \in {"kev", "cwe", "bdu", "osv"}, source' = source,
           feed' \in [Parts -> Archives], row' \in Table,
           NEW l \in Loads, load' = Broken(l),
           l.part \in Parts, Len(l.taken) = l.part,
           l.whole \subseteq DOMAIN l.taken,
           \A p \in l.whole : PartStored(l.taken, row', p),
           source # "osv" => StoredPrefix(l, row') /\ (l.hurt \/ OfContent(l))
    PROVE  CataloguesInv'
<1>1. CASE source = "osv"
  <2>1. load' = Turned(l)
    BY <1>1 DEF Broken
  <2>2. l.part \in 0..Cardinality(Parts)
    BY PartsAreNumbered
  <2>. QED  BY <1>1, <2>1, <2>2, TurnedKeeps
<1>2. CASE source # "osv"
  <2>1. load' = [l EXCEPT !.at = "error"]
    BY <1>2 DEF Broken
  <2>. QED  BY <1>2, <2>1, ErrorKeeps
<1>. QED  BY <1>1, <1>2

(* The valid entries of an archive are a sequence of entries.                 *)
LEMMA ValidEntries ==
    ASSUME NEW entries \in Seq(Entry)
    PROVE  /\ ValidIn(entries) \in SUBSET (1..Len(entries)) /\ Len(entries) \in Nat
           /\ \A n \in 1..Len(entries) : n \in ValidIn(entries) <=> entries[n].body > 0
           /\ Valid(entries) \in Seq(Entry)
           /\ Len(Valid(entries)) = Cardinality(ValidIn(entries))
           /\ Cardinality(ValidIn(entries)) \in Nat
<1> DEFINE P == ValidIn(entries)
           N == Len(entries)
<1>1. N \in Nat /\ DOMAIN entries = 1..N /\ \A n \in 1..N : entries[n] \in Entry
  OBVIOUS
<1>2. P \in SUBSET (1..N) /\ \A n \in 1..N : n \in P <=> entries[n].body > 0
  BY <1>1 DEF ValidIn
<1>3. Valid(entries) = Kept(entries, P)
  BY DEF Valid
<1> HIDE DEF P, N
<1>4. Cardinality(P) \in Nat
  <2>1. 0 \in 0..N
    BY <1>1
  <2>. QED  BY <1>1, <1>2, <2>1, UpToCounts
<1>5. \A k \in 1..Cardinality(P) : Kept(entries, P)[k] \in Entry
  <2>1. /\ \A n \in P : UpTo(P, n) \in 1..Cardinality(P)
                        /\ Kept(entries, P)[UpTo(P, n)] = entries[n]
        /\ \A k \in 1..Cardinality(P) : \E n \in P : Kept(entries, P)[k] = entries[n]
    BY <1>2, KeptInOrder DEF N
  <2>2. \A n \in P : entries[n] \in Entry
    BY <1>1, <1>2
  <2>. QED  BY <2>1, <2>2, Zenon
<1>6. Kept(entries, P) \in [1..Cardinality(P) -> Entry]
  BY <1>5 DEF Kept
<1>7. Kept(entries, P) \in Seq(Entry) /\ Len(Kept(entries, P)) = Cardinality(P)
  BY <1>4, <1>6
<1>. QED  BY <1>1, <1>2, <1>3, <1>4, <1>7 DEF P, N

(* A load that fails before it stored anything leaves the rows as they were.  *)
LEMMA NothingIsPrefix ==
    ASSUME NEW l \in Loads, source # "bdu" => ~l.lost,
           l.taken = <<>> \/ l.part \in DOMAIN l.taken
    PROVE  StoredPrefix(l, l.before)
<1> DEFINE valid == IF l.taken = <<>> THEN <<>> ELSE Valid(l.taken[l.part])
<1>1. valid \in Seq(Entry)
  <2>1. l.taken \in Seq(Seq(Entry))
    BY DEF Loads
  <2>2. CASE l.taken = <<>>
    BY <2>2
  <2>3. CASE l.taken # <<>>
    <3>1. l.taken[l.part] \in Seq(Entry)
      BY <2>1, <2>3
    <3>. QED  BY <2>3, <3>1, ValidEntries
  <2>. QED  BY <2>2, <2>3
<1> HIDE DEF valid
<1>2. SubSeq(valid, 1, 0) \in Seq(Entry) /\ Len(SubSeq(valid, 1, 0)) = 0
  BY <1>1
<1>3. l.before \in Table
  BY DEF Loads
<1>4. l.before = Overlaid(l.before, SubSeq(valid, 1, 0), 1)
  BY <1>2, <1>3, OverlaidNothing
<1>5. 0 \in 0..Len(valid) /\ 0 \in 0..0 /\ 0 = 0 * BatchSize
  <2>1. BatchSize \in Nat
    BY CataloguesAssumption DEF CataloguesAssumption
  <2>. QED  BY <1>1, <2>1
<1>6. \E n \in 0..Len(valid) :
         /\ n = Len(valid) \/ \E batches \in 0..n : n = batches * BatchSize
         /\ l.before = Overlaid(l.before, SubSeq(valid, 1, n), 1)
  BY <1>4, <1>5
<1>. QED  BY <1>6 DEF StoredPrefix, valid

(* A running load: what every step may use of it.                             *)
LEMMA LoadRuns ==
    ASSUME CataloguesInv, Running
    PROVE  /\ source \in {"kev", "cwe", "bdu", "osv"} /\ feed \in [Parts -> Archives]
           /\ row \in Table /\ load \in Loads /\ load.batch \in Seq(Entry)
           /\ load.taken \in Seq(Seq(Entry)) /\ load.before \in Table
           /\ load.part \in Parts /\ load.part \in Nat /\ Len(load.taken) = load.part
           /\ load.part \in DOMAIN load.taken /\ load.taken # <<>>
           /\ Entries = load.taken[load.part] /\ Entries \in Seq(Entry) /\ Len(Entries) \in Nat
           /\ load.pos \in 0..Len(Entries)
           /\ load.whole \subseteq DOMAIN load.taken
           /\ \A p \in load.whole : PartStored(load.taken, row, p)
           /\ source # "osv" => load.part = 1 /\ Parts = {1}
<1>1. /\ source \in {"kev", "cwe", "bdu", "osv"} /\ feed \in [Parts -> Archives]
      /\ row \in Table /\ load \in Loads
  BY DEF CataloguesInv, CatalogueTyped
<1>2. /\ load.whole \subseteq DOMAIN load.taken
      /\ \A p \in load.whole : PartStored(load.taken, row, p)
      /\ load.part \in Parts /\ Len(load.taken) = load.part
      /\ load.pos \in 0..Len(Entries)
  BY DEF CataloguesInv, PlaceOK
<1>3. /\ load.batch \in Seq(Entry) /\ load.taken \in Seq(Seq(Entry)) /\ load.before \in Table
      /\ load.part \in Nat
  BY <1>1 DEF Loads
<1>4. load.part \in 1..Cardinality(Parts) /\ (source # "osv" => load.part = 1 /\ Parts = {1})
  BY <1>2, PartsAreNumbered
<1>5. load.part \in DOMAIN load.taken /\ load.taken # <<>>
  <2>1. load.part \in 1..Len(load.taken)
    BY <1>2, <1>3, <1>4
  <2>. QED  BY <1>3, <2>1
<1>6. Entries = load.taken[load.part]
  BY DEF Entries
<1>7. Entries \in Seq(Entry) /\ Len(Entries) \in Nat
  BY <1>3, <1>5, <1>6
<1>. QED  BY <1>1, <1>2, <1>3, <1>4, <1>5, <1>6, <1>7

(* At the end of an archive its valid entries have all been counted.          *)
LEMMA AllCounted ==
    ASSUME NEW entries \in Seq(Entry)
    PROVE  UpTo(ValidIn(entries), Len(entries)) = Len(Valid(entries))
<1>1. /\ ValidIn(entries) \in SUBSET (1..Len(entries)) /\ Len(entries) \in Nat
      /\ Len(Valid(entries)) = Cardinality(ValidIn(entries))
  BY ValidEntries
<1>2. 0 \in 0..Len(entries)
  BY <1>1
<1>3. UpTo(ValidIn(entries), Len(entries)) = Cardinality(ValidIn(entries))
  BY <1>1, <1>2, UpToCounts
<1>. QED  BY <1>1, <1>3

(* A number of entries that is whole batches or all is a prefix of BDU's.     *)
LEMMA BatchesArePrefix ==
    ASSUME source = "bdu", NEW l \in Loads, NEW rows, l.part \in DOMAIN l.taken,
           NEW n \in 0..Len(Valid(l.taken[l.part])),
           rows = Overlaid(l.before, SubSeq(Valid(l.taken[l.part]), 1, n), 1),
           WholeBatches(n) \/ n = Len(Valid(l.taken[l.part]))
    PROVE  StoredPrefix(l, rows)
<1>1. l.taken # <<>>
  OBVIOUS
<1>2. BatchSize \in Nat
  BY CataloguesAssumption DEF CataloguesAssumption
<1>3. l.taken \in Seq(Seq(Entry))
  BY DEF Loads
<1>4. l.taken[l.part] \in Seq(Entry)
  BY <1>3
<1>5. Len(Valid(l.taken[l.part])) \in Nat
  BY <1>4, ValidEntries
<1>6. n = Len(Valid(l.taken[l.part])) \/ \E batches \in 0..n : n = batches * BatchSize
  <2>1. CASE n = 0
    <3>1. 0 \in 0..n /\ n = 0 * BatchSize
      BY <1>2, <2>1
    <3>. QED  BY <3>1
  <2>2. CASE \E batches \in 1..n : n = batches * BatchSize
    BY <2>2
  <2>. QED  BY <2>1, <2>2 DEF WholeBatches
<1>. QED  BY <1>1, <1>6 DEF StoredPrefix

(* A load that fails has stored whole transactions.                           *)
LEMMA FailureIsPrefix ==
    ASSUME CataloguesInv, source # "osv", load.at = "download" \/ Running
    PROVE  StoredPrefix(load, row)
<1>1. source \in {"kev", "cwe", "bdu"} /\ load \in Loads
  BY DEF CataloguesInv, CatalogueTyped
<1>2. CASE source = "bdu" /\ Running
  <2>1. PICK n \in 0..Len(Valid(Entries)) : Flushed(n)
    BY <1>2 DEF CataloguesInv, InBatches
  <2>2. /\ Entries = load.taken[load.part] /\ load.part \in DOMAIN load.taken
        /\ Entries \in Seq(Entry)
    BY <1>2, LoadRuns
  <2>3. row = Overlaid(load.before, SubSeq(Valid(Entries), 1, n), 1)
    BY <2>1 DEF Flushed
  <2>4. WholeBatches(n) \/ n = Len(Valid(Entries))
    <3> SUFFICES ASSUME load.pos = Len(Entries), load.batch = <<>>
                 PROVE  n = Len(Valid(Entries))
      BY <2>1 DEF Flushed
    <3>1. Len(<<>>) = 0
      OBVIOUS
    <3>2. n + 0 = UpTo(ValidIn(Entries), Len(Entries))
      BY <2>1, <3>1 DEF Flushed
    <3>. QED  BY <2>1, <2>2, <3>2, AllCounted
  <2>. QED  BY <1>1, <1>2, <2>2, <2>3, <2>4, BatchesArePrefix
<1>3. CASE ~(source = "bdu" /\ Running)
  <2>1. row = load.before /\ (source # "bdu" => ~load.lost)
    BY <1>1, <1>3 DEF CataloguesInv, OneTransaction, InBatches
  <2>2. load.taken = <<>> \/ load.part \in DOMAIN load.taken
    <3>1. CASE Running
      BY <3>1, LoadRuns
    <3>2. CASE load.at = "download"
      <4>1. load.part \in Parts /\ Len(load.taken) = load.part - 1 /\ Parts = {1}
        BY <1>1, <3>2, PartsAreNumbered DEF CataloguesInv, PlaceOK
      <4>2. load.taken \in Seq(Seq(Entry)) /\ Len(load.taken) = 0
        BY <1>1, <4>1 DEF Loads
      <4>. QED  BY <4>2
    <3>. QED  BY <1>3, <3>1, <3>2
  <2>. QED  BY <1>1, <2>1, <2>2, NothingIsPrefix
<1>. QED  BY <1>2, <1>3

(* What is said of a load and of the rows stays true while they do.           *)
LEMMA SameLoad ==
    ASSUME CataloguesInv, source' = source, row' = row, load' = load,
           feed' \in [Parts -> Archives]
    PROVE  CataloguesInv'
<1>1. Parts' = Parts /\ Entries' = Entries /\ Running' = Running
  BY DEF Parts, Entries, Running
<1>2. CatalogueTyped' /\ PlaceOK' /\ BatchOK' /\ OneTransaction'
  BY <1>1 DEF CataloguesInv, CatalogueTyped, PlaceOK, BatchOK, OneTransaction, Replacement
<1>3. InBatches'
  BY <1>1 DEF CataloguesInv, InBatches, Flushed, WholeBatches
<1>4. FailedLoadIsPrefix' /\ OnlyContentFails'
  BY <1>1 DEF CataloguesInv, FailedLoadIsPrefix, OnlyContentFails, Replacement
<1>. QED  BY <1>2, <1>3, <1>4 DEF CataloguesInv

(* A load that has not begun is no load at all.                               *)
LEMMA NothingLoaded ==
    ASSUME NEW rows \in Table
    PROVE  [NoLoad EXCEPT !.before = rows] \in Loads /\ NoLoad \in Loads
<1>1. <<>> \in Seq(Entry) /\ <<>> \in Seq(Seq(Entry)) /\ {} \in SUBSET Nat
  OBVIOUS
<1>2. [i \in Ids |-> NoEntry] \in Table
  BY DEF Table, NoEntry
<1>. QED  BY <1>1, <1>2 DEF NoLoad, Loads

(* Before its first load a catalogue is empty.                                *)
LEMMA CataloguesStart == CataloguesInit => CataloguesInv
<1> SUFFICES ASSUME CataloguesInit PROVE CataloguesInv
  OBVIOUS
<1>1. row \in Table
  BY DEF CataloguesInit, Table, NoEntry
<1>2. load \in Loads /\ load.at = "idle" /\ load.whole = {}
  <2>1. load = NoLoad
    BY DEF CataloguesInit
  <2>. QED  BY <1>1, <2>1, NothingLoaded DEF NoLoad
<1>3. CatalogueTyped
  BY <1>1, <1>2 DEF CataloguesInit, CatalogueTyped
<1>4. PlaceOK /\ BatchOK /\ OneTransaction /\ InBatches
  BY <1>2 DEF PlaceOK, BatchOK, OneTransaction, InBatches, Running
<1>5. FailedLoadIsPrefix /\ OnlyContentFails
  BY <1>2 DEF FailedLoadIsPrefix, OnlyContentFails
<1>. QED  BY <1>3, <1>4, <1>5 DEF CataloguesInv

(* A load reads the archives it has downloaded, not the published ones.       *)
LEMMA PublishKeeps ==
    ASSUME CataloguesInv, NEW p \in Parts, NEW a \in Archives, Publish(p, a)
    PROVE  CataloguesInv'
<1>1. feed' \in [Parts -> Archives]
  BY DEF Publish, CataloguesInv, CatalogueTyped
<1>. QED  BY <1>1, SameLoad DEF Publish

(* A load begins with the rows there are.                                     *)
LEMMA BeginKeeps == ASSUME CataloguesInv, Begin PROVE CataloguesInv'
<1> DEFINE l == [NoLoad EXCEPT !.before = row]
<1>1. /\ source \in {"kev", "cwe", "bdu", "osv"} /\ source' = source
      /\ feed' \in [Parts -> Archives] /\ row \in Table /\ row' = row /\ load' = Turned(l)
  BY DEF CataloguesInv, CatalogueTyped, Begin
<1>2. l \in Loads
  BY <1>1, NothingLoaded
<1>3. l.part = 0 /\ l.taken = <<>> /\ l.whole = {} /\ l.before = row /\ ~l.lost
  BY DEF NoLoad
<1>4. l.part \in 0..Cardinality(Parts) /\ Len(l.taken) = l.part
  BY <1>3, PartsAreNumbered
<1> HIDE DEF l
<1>. QED  BY <1>1, <1>2, <1>3, <1>4, TurnedKeeps

(* A download adds an archive to those of the load.                           *)
LEMMA DownloadKeeps ==
    ASSUME CataloguesInv, NEW name, Download(name)
    PROVE  CataloguesInv'
<1> DEFINE a == feed[load.part]
<1>1. /\ load.at = "download" /\ source' = source /\ feed' = feed /\ row' = row
      /\ load' = [load EXCEPT !.at = "parse", !.taken = Append(@, a)]
  BY DEF Download
<1>2. /\ source \in {"kev", "cwe", "bdu", "osv"} /\ feed \in [Parts -> Archives]
      /\ row \in Table /\ load \in Loads
  BY DEF CataloguesInv, CatalogueTyped
<1>3. /\ load.part \in Parts /\ Len(load.taken) = load.part - 1
      /\ load.pos = 0 /\ load.batch = <<>> /\ load.whole \subseteq DOMAIN load.taken
      /\ \A p \in load.whole : PartStored(load.taken, row, p)
  BY <1>1 DEF CataloguesInv, PlaceOK
<1>4. a \in Seq(Entry)
  <2>1. a \in Archives
    BY <1>2, <1>3
  <2>. QED  BY <2>1, CataloguesAssumption DEF CataloguesAssumption, Entry
<1> HIDE DEF a
<1>5. load.part \in 1..Cardinality(Parts) /\ (source # "osv" => load.part = 1)
  BY <1>3, PartsAreNumbered
<1>6. load.taken \in Seq(Seq(Entry)) /\ load.before \in Table
  BY <1>2 DEF Loads
<1> DEFINE t == Append(load.taken, a)
<1>7. /\ t \in Seq(Seq(Entry)) /\ Len(t) = load.part /\ t[load.part] = a
      /\ load.whole \subseteq DOMAIN t
  <2>1. t \in Seq(Seq(Entry)) /\ Len(t) = Len(load.taken) + 1 /\ t[Len(load.taken) + 1] = a
    BY <1>4, <1>6
  <2>2. Len(load.taken) + 1 = load.part
    BY <1>3, <1>5
  <2>3. DOMAIN load.taken \subseteq DOMAIN t
    BY <1>4, <1>6
  <2> HIDE DEF t
  <2>. QED  BY <1>3, <2>1, <2>2, <2>3
<1>8. \A p \in load.whole : PartStored(t, row, p)
  BY <1>3, <1>4, <1>6, StoredGrow
<1>9. load' = [load EXCEPT !.at = "parse", !.taken = t]
  BY <1>1
<1> HIDE DEF t
<1>10. /\ load' \in Loads /\ load'.at = "parse" /\ load'.taken = t /\ load'.pos = 0
       /\ load'.batch = <<>> /\ load'.whole = load.whole /\ load'.before = load.before
       /\ load'.part = load.part /\ load'.lost = load.lost
  BY <1>2, <1>3, <1>7, <1>9 DEF Loads
<1>11. Parts' = Parts /\ Entries' = a
  BY <1>1, <1>7, <1>10 DEF Parts, Entries
<1>12. CatalogueTyped'
  BY <1>1, <1>2, <1>10, <1>11 DEF CatalogueTyped
<1>13. <<>> \in Seq(Entry) /\ DOMAIN <<>> = {} /\ Len(<<>>) = 0 /\ 1..0 = {} /\ Len(a) \in Nat
  BY <1>4
<1>14. PlaceOK'
  <2>1. /\ load'.whole \subseteq DOMAIN load'.taken
        /\ \A p \in load'.whole : PartStored(load'.taken, row', p)
    BY <1>1, <1>7, <1>8, <1>10
  <2>2. load'.part \in Parts' /\ Len(load'.taken) = load'.part
    BY <1>3, <1>7, <1>10, <1>11
  <2>3. load'.pos \in 0..Len(Entries')
    BY <1>10, <1>11, <1>13
  <2>. QED  BY <1>10, <2>1, <2>2, <2>3 DEF PlaceOK
<1>15. BatchOK'
  BY <1>10, <1>13 DEF BatchOK
<1>16. OneTransaction'
  BY <1>1, <1>10 DEF CataloguesInv, OneTransaction
<1>17. InBatches'
  <2> SUFFICES ASSUME source = "bdu" PROVE \E n \in 0..Len(Valid(a)) : Flushed(n)'
    BY <1>1, <1>10, <1>11 DEF InBatches
  <2>1. row' = load'.before
    BY <1>1, <1>10 DEF CataloguesInv, InBatches
  <2>2. /\ Valid(a) \in Seq(Entry) /\ Len(Valid(a)) \in Nat
        /\ ValidIn(a) \in SUBSET (1..Len(a))
    BY <1>4, ValidEntries
  <2>3. /\ SubSeq(Valid(a), 1, 0) = <<>> /\ SubSeq(Valid(a), 1, 0) \in Seq(Entry)
        /\ SubSeq(Valid(a), 0 + 1, 0 + 0) = <<>>
        /\ Len(SubSeq(Valid(a), 1, 0)) = 0
    BY <2>2
  <2>4. row' = Overlaid(load'.before, SubSeq(Valid(a), 1, 0), 1)
    <3>1. PICK before, none : before = load'.before /\ none = SubSeq(Valid(a), 1, 0)
      OBVIOUS
    <3>2. before \in Table /\ none \in Seq(Entry) /\ Len(none) = 0
      BY <1>6, <1>10, <2>3, <3>1
    <3>3. Overlaid(before, none, 1) = before
      BY <3>2, OverlaidNothing
    <3>. QED  BY <2>1, <3>1, <3>3
  <2>5. 0 \in 0..Len(a)
    BY <1>13
  <2>6. UpTo(ValidIn(a), 0) = 0
    BY <1>13, <2>2, <2>5, UpToCounts
  <2>7. 0 < BatchSize
    BY CataloguesAssumption DEF CataloguesAssumption
  <2>8. Flushed(0)'
    BY <1>10, <1>11, <1>13, <2>3, <2>4, <2>6, <2>7 DEF Flushed, WholeBatches
  <2>. QED  BY <2>2, <2>8
<1>18. FailedLoadIsPrefix' /\ OnlyContentFails'
  BY <1>10 DEF FailedLoadIsPrefix, OnlyContentFails
<1>. QED  BY <1>12, <1>14, <1>15, <1>16, <1>17, <1>18 DEF CataloguesInv

(* After a download that failed the load tries again, or breaks off.          *)
LEMMA DownloadFailsKeeps ==
    ASSUME CataloguesInv, NEW transient \in BOOLEAN, DownloadFails(transient)
    PROVE  CataloguesInv'
<1>1. /\ load.at = "download" /\ source' = source /\ feed' = feed /\ row' = row
      /\ load' = IF transient /\ load.tries + 1 < Tries
                 THEN [load EXCEPT !.tries = @ + 1]
                 ELSE Broken([load EXCEPT !.hurt = TRUE, !.taken = Append(@, <<>>)])
  BY DEF DownloadFails
<1>2. /\ source \in {"kev", "cwe", "bdu", "osv"} /\ feed \in [Parts -> Archives]
      /\ row \in Table /\ load \in Loads
  BY DEF CataloguesInv, CatalogueTyped
<1>3. /\ load.part \in Parts /\ Len(load.taken) = load.part - 1
      /\ load.pos = 0 /\ load.batch = <<>> /\ load.whole \subseteq DOMAIN load.taken
      /\ \A p \in load.whole : PartStored(load.taken, row, p)
  BY <1>1 DEF CataloguesInv, PlaceOK
<1>4. CASE transient /\ load.tries + 1 < Tries
  <2>1. load' = [load EXCEPT !.tries = @ + 1]
    BY <1>1, <1>4
  <2>2. load.tries + 1 \in Nat
    BY <1>2 DEF Loads
  <2>3. /\ load' \in Loads /\ load'.at = "download" /\ load'.part = load.part
        /\ load'.pos = load.pos /\ load'.batch = load.batch /\ load'.taken = load.taken
        /\ load'.whole = load.whole /\ load'.before = load.before /\ load'.lost = load.lost
    BY <1>1, <1>2, <2>1, <2>2 DEF Loads
  <2>4. Parts' = Parts
    BY <1>1 DEF Parts
  <2>5. CatalogueTyped' /\ PlaceOK' /\ BatchOK'
    BY <1>1, <1>2, <1>3, <2>3, <2>4 DEF CatalogueTyped, PlaceOK, BatchOK, Running
  <2>6. OneTransaction' /\ InBatches'
    BY <1>1, <2>3 DEF CataloguesInv, OneTransaction, InBatches, Running
  <2>7. FailedLoadIsPrefix' /\ OnlyContentFails'
    BY <2>3 DEF FailedLoadIsPrefix, OnlyContentFails
  <2>. QED  BY <2>5, <2>6, <2>7 DEF CataloguesInv
<1>5. CASE ~(transient /\ load.tries + 1 < Tries)
  <2> DEFINE t == Append(load.taken, <<>>)
             l == [load EXCEPT !.hurt = TRUE, !.taken = t]
  <2>1. load' = Broken(l)
    BY <1>1, <1>5
  <2>2. <<>> \in Seq(Entry) /\ load.taken \in Seq(Seq(Entry))
    BY <1>2 DEF Loads
  <2>3. load.part \in 1..Cardinality(Parts) /\ Cardinality(Parts) \in Nat
    BY <1>3, PartsAreNumbered
  <2>4. /\ t \in Seq(Seq(Entry)) /\ Len(t) = load.part /\ load.whole \subseteq DOMAIN t
    BY <1>3, <2>2, <2>3
  <2>5. \A p \in load.whole : PartStored(t, row, p)
    BY <1>3, <2>2, StoredGrow
  <2> HIDE DEF t
  <2>6. /\ l \in Loads /\ l.part = load.part /\ l.taken = t /\ l.whole = load.whole
        /\ l.hurt = TRUE /\ l.lost = load.lost /\ l.before = load.before
    BY <1>2, <2>4 DEF Loads
  <2> HIDE DEF l
  <2>7. ASSUME source # "osv" PROVE StoredPrefix(l, row')
    <3>1. row = load.before /\ (source # "bdu" => ~load.lost)
      BY <1>1, <1>2, <2>7 DEF CataloguesInv, OneTransaction, InBatches
    <3>2. l.part \in DOMAIN l.taken
      <4>1. load.part \in 1..Len(t) /\ DOMAIN t = 1..Len(t)
        BY <2>3, <2>4
      <4>. QED  BY <2>6, <4>1
    <3>. QED  BY <1>1, <2>6, <3>1, <3>2, NothingIsPrefix
  <2>. QED  BY <1>1, <1>2, <1>3, <2>1, <2>4, <2>5, <2>6, <2>7, BrokenKeeps
<1>. QED  BY <1>4, <1>5

(* A running load that breaks off for a reason keeps what it has stored.      *)
LEMMA RunBreaks ==
    ASSUME CataloguesInv, Running, source' = source, feed' = feed, row' = row,
           NEW h \in BOOLEAN, load' = Broken([load EXCEPT !.hurt = h]),
           \/ h \/ source = "osv"
           \/ source \in {"kev", "cwe"} /\ Valid(Entries) = <<>>
           \/ source \in {"cwe", "bdu"} /\ Repeats(load.batch)
    PROVE  CataloguesInv'
<1> DEFINE l == [load EXCEPT !.hurt = h]
<1>1. /\ source \in {"kev", "cwe", "bdu", "osv"} /\ feed \in [Parts -> Archives]
      /\ row \in Table /\ load \in Loads
      /\ load.part \in Parts /\ Len(load.taken) = load.part
      /\ load.whole \subseteq DOMAIN load.taken
      /\ \A p \in load.whole : PartStored(load.taken, row, p)
  BY LoadRuns
<1>2. /\ l \in Loads /\ l.part = load.part /\ l.taken = load.taken /\ l.whole = load.whole
      /\ l.before = load.before /\ l.batch = load.batch /\ l.hurt = h /\ l.lost = load.lost
  BY <1>1 DEF Loads
<1>3. load' = Broken(l)
  OBVIOUS
<1> HIDE DEF l
<1>4. ASSUME source # "osv" PROVE StoredPrefix(l, row') /\ (l.hurt \/ OfContent(l))
  <2>1. StoredPrefix(load, row)
    BY <1>4, FailureIsPrefix
  <2>2. StoredPrefix(l, row')
    BY <1>2, <2>1 DEF StoredPrefix
  <2>3. l.hurt \/ OfContent(l)
    BY <1>2, <1>4 DEF OfContent, Entries
  <2>. QED  BY <2>2, <2>3
<1>5. \A p \in l.whole : PartStored(l.taken, row', p)
  BY <1>1, <1>2
<1>. QED  BY <1>1, <1>2, <1>3, <1>4, <1>5, BrokenKeeps

(* An archive that cannot be read breaks the load off.                        *)
LEMMA ParseFailsKeeps == ASSUME CataloguesInv, ParseFails PROVE CataloguesInv'
<1>1. /\ Running /\ source' = source /\ feed' = feed /\ row' = row
      /\ load' = Broken([load EXCEPT !.hurt = TRUE])
  BY DEF ParseFails, Running
<1>. QED  BY <1>1, RunBreaks

(* A load stopped from outside keeps what it has stored.                      *)
LEMMA InterruptKeeps == ASSUME CataloguesInv, Interrupt PROVE CataloguesInv'
<1> DEFINE l == [load EXCEPT !.hurt = TRUE]
<1>1. /\ ~Idle /\ source' = source /\ feed' = feed /\ row' = row
      /\ load' = [load EXCEPT !.at = "error", !.hurt = TRUE]
  BY DEF Interrupt
<1>2. /\ source \in {"kev", "cwe", "bdu", "osv"} /\ feed \in [Parts -> Archives]
      /\ row \in Table /\ load \in Loads
  BY DEF CataloguesInv, CatalogueTyped
<1>3. load.at = "download" \/ Running
  BY <1>1, <1>2 DEF Idle, Running, Loads
<1>4. /\ load.whole \subseteq DOMAIN load.taken
      /\ \A p \in load.whole : PartStored(load.taken, row, p)
  BY DEF CataloguesInv, PlaceOK
<1>5. /\ l \in Loads /\ l.part = load.part /\ l.taken = load.taken /\ l.whole = load.whole
      /\ l.before = load.before /\ l.hurt = TRUE /\ l.lost = load.lost
  BY <1>2 DEF Loads
<1>6. load' = [l EXCEPT !.at = "error"]
  BY <1>1, <1>2 DEF Loads
<1> HIDE DEF l
<1>7. ASSUME source # "osv" PROVE StoredPrefix(l, row')
  <2>1. StoredPrefix(load, row)
    BY <1>3, <1>7, FailureIsPrefix
  <2>. QED  BY <1>1, <1>5, <2>1 DEF StoredPrefix
<1>8. \A p \in l.whole : PartStored(l.taken, row', p)
  BY <1>1, <1>4, <1>5
<1>. QED  BY <1>1, <1>2, <1>4, <1>5, <1>6, <1>7, <1>8, ErrorKeeps

\* What a parser makes of an archive: valid entries, and one for each of them.
Represents(records, entries) ==
    /\ records \in Seq(Entry)
    /\ \A k \in DOMAIN records :
          records[k].body > 0 /\ \E n \in DOMAIN entries : records[k] = entries[n]
    /\ \A n \in DOMAIN entries : entries[n].body > 0 =>
          \E k \in DOMAIN records : records[k].id = entries[n].id

(* Entries at valid places represent the archive, if every valid entry has    *)
(* one of its identifier among them.                                          *)
LEMMA KeptRepresents ==
    ASSUME NEW entries \in Seq(Entry), NEW P \in SUBSET ValidIn(entries),
           \A n \in ValidIn(entries) : \E m \in P : entries[m].id = entries[n].id
    PROVE  Represents(Kept(entries, P), entries)
<1> DEFINE N == Len(entries)
           records == Kept(entries, P)
<1>1. N \in Nat /\ DOMAIN entries = 1..N /\ \A n \in 1..N : entries[n] \in Entry
  OBVIOUS
<1>2. P \in SUBSET (1..N) /\ \A n \in P : entries[n].body > 0
  BY <1>1 DEF ValidIn
<1>3. /\ \A n \in P : UpTo(P, n) \in 1..Cardinality(P) /\ records[UpTo(P, n)] = entries[n]
      /\ \A k \in 1..Cardinality(P) : \E n \in P : records[k] = entries[n]
  BY <1>2, KeptInOrder
<1>4. Cardinality(P) \in Nat
  <2>1. 0 \in 0..N
    BY <1>1
  <2>. QED  BY <1>1, <1>2, <2>1, UpToCounts
<1>5. records \in Seq(Entry) /\ DOMAIN records = 1..Cardinality(P)
  <2>1. DOMAIN records = 1..Cardinality(P) /\ records = [k \in 1..Cardinality(P) |-> records[k]]
    BY DEF Kept
  <2> HIDE DEF records
  <2>2. \A k \in 1..Cardinality(P) : records[k] \in Entry
    BY <1>1, <1>2, <1>3
  <2>3. records \in [1..Cardinality(P) -> Entry]
    BY <2>1, <2>2
  <2>. QED  BY <1>4, <2>1, <2>3
<1> HIDE DEF records, N
<1>6. \A k \in DOMAIN records :
         records[k].body > 0 /\ \E n \in DOMAIN entries : records[k] = entries[n]
  BY <1>1, <1>2, <1>3, <1>5
<1>7. ASSUME NEW n \in DOMAIN entries, entries[n].body > 0
      PROVE  \E k \in DOMAIN records : records[k].id = entries[n].id
  <2>1. n \in ValidIn(entries)
    BY <1>7 DEF ValidIn
  <2>2. PICK m \in P : entries[m].id = entries[n].id
    BY <2>1
  <2>3. UpTo(P, m) \in DOMAIN records /\ records[UpTo(P, m)] = entries[m]
    BY <1>3, <1>5
  <2>. QED  BY <2>2, <2>3
<1>. QED  BY <1>5, <1>6, <1>7 DEF Represents, records

(* CWE keeps every valid entry.                                               *)
LEMMA CweRepresents ==
    ASSUME NEW entries \in Seq(Entry)
    PROVE  Represents(CweRecords(entries), entries)
BY KeptRepresents DEF CweRecords, Valid

(* KEV keeps the first entry of each identifier.                              *)
LEMMA KevRepresents ==
    ASSUME NEW entries \in Seq(Entry)
    PROVE  Represents(KevRecords(entries), entries)
<1> DEFINE P == {n \in ValidIn(entries) :
                    \A m \in ValidIn(entries) : m < n => entries[m].id # entries[n].id}
<1>1. ValidIn(entries) \in SUBSET (1..Len(entries)) /\ Len(entries) \in Nat
  BY ValidEntries
<1>2. \A n \in ValidIn(entries) : n \in 1..Len(entries)
  BY <1>1
<1>3. ASSUME NEW n \in ValidIn(entries)
      PROVE  \E m \in P : entries[m].id = entries[n].id
  <2> DEFINE S == {m \in ValidIn(entries) : entries[m].id = entries[n].id}
  <2>1. S \in SUBSET (1..Len(entries)) /\ S # {}
    BY <1>1
  <2>2. \A m \in S : m \in ValidIn(entries) /\ entries[m].id = entries[n].id
    OBVIOUS
  <2>3. \A m \in ValidIn(entries) : entries[m].id = entries[n].id => m \in S
    OBVIOUS
  <2> HIDE DEF S
  <2>4. PICK f \in S : \A m \in S : f <= m
    BY <1>1, <2>1, FirstAndLast
  <2>5. ASSUME NEW m \in ValidIn(entries), m < f PROVE entries[m].id # entries[f].id
    <3>1. m \in 1..Len(entries) /\ f \in 1..Len(entries) /\ ~(f <= m)
      BY <1>1, <1>2, <2>2, <2>5
    <3>. QED  BY <2>2, <2>3, <2>4, <3>1
  <2>. QED  BY <2>2, <2>5
<1>4. P \in SUBSET ValidIn(entries)
  OBVIOUS
<1> HIDE DEF P
<1>5. Represents(Kept(entries, P), entries)
  BY <1>3, <1>4, KeptRepresents
<1>. QED  BY <1>5 DEF KevRecords, P

(* No two of the entries that KEV keeps have one identifier.                  *)
LEMMA KevOnce ==
    ASSUME NEW entries \in Seq(Entry)
    PROVE  ~Repeats(KevRecords(entries))
<1> DEFINE P == {n \in ValidIn(entries) :
                    \A m \in ValidIn(entries) : m < n => entries[m].id # entries[n].id}
           records == Kept(entries, P)
<1>1. P \in SUBSET (1..Len(entries)) /\ Len(entries) \in Nat
  BY ValidEntries
<1>2. \A m, n \in P : m < n => entries[m].id # entries[n].id
  OBVIOUS
<1>3. \A n \in P : n \in 1..Len(entries)
  BY <1>1
<1>4. DOMAIN records = 1..Cardinality(P)
  BY DEF Kept
<1> HIDE DEF P
<1>5. \A n \in P : UpTo(P, n) \in 1..Cardinality(P) /\ records[UpTo(P, n)] = entries[n]
  BY <1>1, KeptInOrder
<1>6. \A k \in 1..Cardinality(P) : \E n \in P : UpTo(P, n) = k
  BY <1>1, UpToNumbers
<1> HIDE DEF records
<1>7. ASSUME NEW j \in DOMAIN records, NEW k \in DOMAIN records, j # k
      PROVE  records[j].id # records[k].id
  <2>1. PICK m \in P : UpTo(P, m) = j
    BY <1>4, <1>6
  <2>2. PICK n \in P : UpTo(P, n) = k
    BY <1>4, <1>6
  <2>3. m # n
    BY <1>7, <2>1, <2>2
  <2>4. m < n \/ n < m
    BY <1>3, <2>3
  <2>5. entries[m].id # entries[n].id
    BY <1>2, <2>4
  <2>. QED  BY <1>5, <2>1, <2>2, <2>5
<1>. QED  BY <1>7 DEF Repeats, KevRecords, P, records

(* A file parsed as a whole is refused, or waits for its transaction.         *)
LEMMA FileKeeps ==
    ASSUME CataloguesInv, source \in {"kev", "cwe"}, load.at = "parse",
           source' = source, feed' = feed, row' = row,
           NEW records, Represents(records, Entries),
           records = IF source = "kev" THEN KevRecords(Entries) ELSE CweRecords(Entries),
           source = "kev" => ~Repeats(records),
           load' = IF records = <<>> THEN Broken(load)
                   ELSE [load EXCEPT !.at = "upsert", !.batch = records, !.pos = Len(Entries)]
    PROVE  CataloguesInv'
<1>1. Running
  BY DEF Running
<1>2. /\ feed \in [Parts -> Archives] /\ row \in Table /\ load \in Loads
      /\ load.part \in Parts /\ Len(load.taken) = load.part
      /\ load.part \in DOMAIN load.taken
      /\ Entries = load.taken[load.part] /\ Entries \in Seq(Entry) /\ Len(Entries) \in Nat
      /\ load.whole \subseteq DOMAIN load.taken
      /\ \A p \in load.whole : PartStored(load.taken, row, p)
  BY <1>1, LoadRuns
<1>3. CASE records = <<>>
  <2>1. load' = Broken(load) /\ load.hurt \in BOOLEAN /\ load = [load EXCEPT !.hurt = load.hurt]
    BY <1>2, <1>3 DEF Loads
  <2>2. load' = Broken([load EXCEPT !.hurt = load.hurt])
    BY <2>1
  <2>3. Valid(Entries) = <<>>
    <3>1. DOMAIN records = {}
      BY <1>3
    <3>2. \A n \in DOMAIN Entries : ~(Entries[n].body > 0)
      BY <3>1 DEF Represents
    <3>3. ValidIn(Entries) = {}
      BY <3>2 DEF ValidIn
    <3>4. Valid(Entries) \in Seq(Entry) /\ Len(Valid(Entries)) = Cardinality(ValidIn(Entries))
      BY <1>2, ValidEntries
    <3>5. Len(Valid(Entries)) = 0
      BY <3>3, <3>4, FS_EmptySet
    <3>. QED  BY <3>4, <3>5
  <2>. QED  BY <1>1, <2>1, <2>2, <2>3, RunBreaks
<1>4. CASE records # <<>>
  <2>1. load' = [load EXCEPT !.at = "upsert", !.batch = records, !.pos = Len(Entries)]
    BY <1>4
  <2>2. records \in Seq(Entry)
    BY DEF Represents
  <2>3. /\ load' \in Loads /\ load'.at = "upsert" /\ load'.batch = records
        /\ load'.pos = Len(Entries) /\ load'.part = load.part /\ load'.taken = load.taken
        /\ load'.whole = load.whole /\ load'.before = load.before /\ load'.lost = load.lost
    BY <1>2, <2>1, <2>2 DEF Loads
  <2>4. Parts' = Parts /\ Entries' = Entries /\ Replacement' = Replacement
    BY <2>3 DEF Parts, Entries, Replacement
  <2>5. CatalogueTyped'
    BY <1>2, <2>3, <2>4 DEF CatalogueTyped
  <2>6. PlaceOK'
    BY <1>2, <2>3, <2>4 DEF PlaceOK
  <2>7. BatchOK'
    <3>1. \A k \in DOMAIN records :
             records[k].body > 0 /\ \E n \in DOMAIN load.taken[load.part] :
                                        records[k] = load.taken[load.part][n]
      BY <1>2 DEF Represents
    <3>2. ASSUME NEW n \in 1..Len(Entries)
          PROVE  Entries[n].body = 0 \/ \E k \in DOMAIN records : records[k].id = Entries[n].id
      <4>1. n \in DOMAIN Entries /\ Entries[n] \in Entry
        BY <1>2
      <4>2. Entries[n].body = 0 \/ Entries[n].body > 0
        BY <4>1 DEF Entry
      <4>. QED  BY <4>1, <4>2 DEF Represents
    <3>. QED  BY <2>3, <2>4, <3>1, <3>2 DEF BatchOK
  <2>8. OneTransaction'
    <3>1. row = load.before /\ ~load.lost
      BY <1>1 DEF CataloguesInv, OneTransaction
    <3>2. Repeats(load.batch)' = Repeats(records)
      BY <2>3 DEF Repeats
    <3>3. Replacement' = records
      BY <2>4 DEF Replacement
    <3>. QED  BY <2>3, <2>4, <3>1, <3>2, <3>3 DEF OneTransaction
  <2>9. InBatches' /\ FailedLoadIsPrefix' /\ OnlyContentFails'
    BY <2>3 DEF InBatches, FailedLoadIsPrefix, OnlyContentFails
  <2>. QED  BY <2>5, <2>6, <2>7, <2>8, <2>9 DEF CataloguesInv
<1>. QED  BY <1>3, <1>4

(* So parses KEVSyncer.Sync.                                                  *)
LEMMA ParseKevKeeps == ASSUME CataloguesInv, ParseKev PROVE CataloguesInv'
<1>1. /\ source = "kev" /\ load.at = "parse" /\ source' = source /\ feed' = feed /\ row' = row
      /\ load' = IF KevRecords(Entries) = <<>> THEN Broken(load)
                 ELSE [load EXCEPT !.at = "upsert", !.batch = KevRecords(Entries),
                                   !.pos = Len(Entries)]
  BY DEF ParseKev
<1>2. Entries \in Seq(Entry)
  BY <1>1, LoadRuns DEF Running
<1>3. /\ Represents(KevRecords(Entries), Entries) /\ ~Repeats(KevRecords(Entries))
      /\ KevRecords(Entries) = IF source = "kev" THEN KevRecords(Entries) ELSE CweRecords(Entries)
  BY <1>1, <1>2, KevRepresents, KevOnce
<1>. QED  BY <1>1, <1>3, FileKeeps, Zenon

(* So parses CWESyncer.Sync.                                                  *)
LEMMA ParseCweKeeps == ASSUME CataloguesInv, ParseCwe PROVE CataloguesInv'
<1>1. /\ source = "cwe" /\ load.at = "parse" /\ source' = source /\ feed' = feed /\ row' = row
      /\ load' = IF CweRecords(Entries) = <<>> THEN Broken(load)
                 ELSE [load EXCEPT !.at = "upsert", !.batch = CweRecords(Entries),
                                   !.pos = Len(Entries)]
  BY DEF ParseCwe
<1>2. Entries \in Seq(Entry)
  BY <1>1, LoadRuns DEF Running
<1>3. /\ Represents(CweRecords(Entries), Entries)
      /\ CweRecords(Entries) = IF source = "kev" THEN KevRecords(Entries) ELSE CweRecords(Entries)
  BY <1>1, <1>2, CweRepresents
<1>. QED  BY <1>1, <1>3, FileKeeps, Zenon

(* An archive loaded to the end is whole.                                     *)
LEMMA EndedKeeps ==
    ASSUME CataloguesInv, Running, source' = source, feed' = feed, row' \in Table,
           load' = Ended(load),
           \A p \in load.whole : PartStored(load.taken, row', p),
           PartStored(load.taken, row', load.part)
    PROVE  CataloguesInv'
<1> DEFINE l == [load EXCEPT !.whole = @ \union {load.part}]
<1>1. /\ source \in {"kev", "cwe", "bdu", "osv"} /\ feed \in [Parts -> Archives]
      /\ load \in Loads /\ load.part \in Nat /\ load.part \in Parts
      /\ Len(load.taken) = load.part
      /\ load.part \in DOMAIN load.taken /\ load.whole \subseteq DOMAIN load.taken
      /\ source # "osv" => load.part = 1 /\ Parts = {1}
  BY LoadRuns
<1>2. load.whole \union {load.part} \in SUBSET Nat /\ load.whole \in SUBSET Nat
  BY <1>1 DEF Loads
<1>3. /\ l \in Loads /\ l.part = load.part /\ l.taken = load.taken
      /\ l.whole = load.whole \union {load.part}
  BY <1>1, <1>2 DEF Loads
<1>4. load' = Turned(l)
  BY DEF Ended
<1> HIDE DEF l
<1>5. l.part \in 0..Cardinality(Parts)
  BY <1>1, <1>3, PartsAreNumbered
<1>6. l.whole \subseteq DOMAIN l.taken /\ \A p \in l.whole : PartStored(l.taken, row', p)
  BY <1>1, <1>3
<1>7. source # "osv" => IF l.part = 0 THEN row' = l.before /\ ~l.lost ELSE l.whole = Parts
  <2> SUFFICES ASSUME source # "osv" PROVE l.part # 0 /\ l.whole = {1} /\ Parts = {1}
    OBVIOUS
  <2>1. DOMAIN load.taken = 1..1
    <3>1. load.taken \in Seq(Seq(Entry))
      BY <1>1 DEF Loads
    <3>. QED  BY <1>1, <3>1
  <2>2. \A p \in DOMAIN load.taken : p = 1
    BY <2>1
  <2>. QED  BY <1>1, <1>3, <2>2
<1>. QED  BY <1>1, <1>3, <1>4, <1>5, <1>6, <1>7, TurnedKeeps

(* The next entry joins the batch, if it is valid.                            *)
LEMMA GatheredKeeps ==
    ASSUME CataloguesInv, source \in {"bdu", "osv"}, load.at = "parse",
           load.pos < Len(Entries), source' = source, feed' = feed, row' = row,
           load' = Gathered(load)
    PROVE  CataloguesInv'
<1> DEFINE e     == Entries[load.pos + 1]
           batch == IF e.body > 0 THEN Append(load.batch, e) ELSE load.batch
           at    == IF Len(batch) >= BatchSize THEN "upsert" ELSE "parse"
<1>1. Running
  BY DEF Running
<1>2. /\ feed \in [Parts -> Archives] /\ row \in Table /\ load \in Loads
      /\ load.batch \in Seq(Entry) /\ load.before \in Table
      /\ load.part \in Parts /\ Len(load.taken) = load.part
      /\ load.part \in DOMAIN load.taken
      /\ Entries = load.taken[load.part] /\ Entries \in Seq(Entry) /\ Len(Entries) \in Nat
      /\ load.pos \in 0..Len(Entries)
      /\ load.whole \subseteq DOMAIN load.taken
      /\ \A p \in load.whole : PartStored(load.taken, row, p)
  BY <1>1, LoadRuns
<1>3. /\ load.pos + 1 \in 1..Len(Entries) /\ load.pos + 1 \in DOMAIN Entries
      /\ load.pos \in Nat /\ load.pos + 1 \in 0..Len(Entries) /\ load.pos + 1 \in Nat
  BY <1>2
<1>4. e \in Entry
  BY <1>2, <1>3
<1>5. batch \in Seq(Entry) /\ at \in {"parse", "upsert"}
  BY <1>2, <1>4
<1>6. load' = [load EXCEPT !.pos = @ + 1, !.batch = batch, !.at = at]
  BY <1>2 DEF Gathered, Entries
<1>7. \A k \in DOMAIN load.batch : k \in DOMAIN batch /\ batch[k] = load.batch[k]
  BY <1>2, <1>4
<1>8. e.body > 0 =>
         /\ batch = Append(load.batch, e)
         /\ Len(load.batch) + 1 \in DOMAIN batch /\ batch[Len(load.batch) + 1] = e
         /\ \A k \in DOMAIN batch : k \in DOMAIN load.batch \/ batch[k] = e
  BY <1>2, <1>4
<1>9. ~(e.body > 0) => batch = load.batch /\ e.body = 0
  BY <1>4 DEF Entry
<1>10. e = Entries[load.pos + 1]
  OBVIOUS
<1>11. at = IF Len(batch) >= BatchSize THEN "upsert" ELSE "parse"
  OBVIOUS
<1> HIDE DEF e, batch, at
<1>12. /\ load' \in Loads /\ load'.at = at /\ load'.batch = batch /\ load'.pos = load.pos + 1
       /\ load'.part = load.part /\ load'.taken = load.taken /\ load'.whole = load.whole
       /\ load'.before = load.before
  BY <1>2, <1>3, <1>5, <1>6 DEF Loads
<1>13. Parts' = Parts /\ Entries' = Entries
  BY <1>12 DEF Parts, Entries
<1>14. CatalogueTyped'
  BY <1>2, <1>12, <1>13 DEF CatalogueTyped
<1>15. PlaceOK'
  <2>1. load'.at # "download" /\ load'.at # "success"
    BY <1>5, <1>12
  <2>. QED  BY <1>2, <1>3, <1>12, <1>13, <2>1 DEF PlaceOK
<1>16. BatchOK'
  <2>1. ASSUME NEW k \in DOMAIN batch
        PROVE  batch[k].body > 0 /\ \E n \in DOMAIN load.taken[load.part] :
                                        batch[k] = load.taken[load.part][n]
    <3>1. CASE k \in DOMAIN load.batch
      BY <1>1, <1>7, <3>1 DEF CataloguesInv, BatchOK
    <3>2. CASE k \notin DOMAIN load.batch
      <4>1. e.body > 0 /\ batch[k] = e
        BY <1>8, <1>9, <2>1, <3>2
      <4>. QED  BY <1>2, <1>3, <1>10, <4>1
    <3>. QED  BY <3>1, <3>2
  <2>2. ASSUME NEW n \in 1..(load.pos + 1)
        PROVE  \/ Entries[n].body = 0
               \/ Offers(load.taken, Entries[n].id, row[Entries[n].id])
               \/ \E k \in DOMAIN batch : batch[k].id = Entries[n].id
    <3>1. CASE n \in 1..load.pos
      <4>1. \/ Entries[n].body = 0
            \/ Offers(load.taken, Entries[n].id, row[Entries[n].id])
            \/ \E k \in DOMAIN load.batch : load.batch[k].id = Entries[n].id
        BY <1>1, <3>1 DEF CataloguesInv, BatchOK
      <4>. QED  BY <1>7, <4>1
    <3>2. CASE n = load.pos + 1
      BY <1>8, <1>9, <1>10, <3>2
    <3>3. n \in 1..load.pos \/ n = load.pos + 1
      BY <1>3
    <3>. QED  BY <3>1, <3>2, <3>3
  <2>. QED  BY <1>12, <1>13, <2>1, <2>2 DEF BatchOK
<1>17. OneTransaction' /\ FailedLoadIsPrefix' /\ OnlyContentFails'
  BY <1>5, <1>12 DEF OneTransaction, FailedLoadIsPrefix, OnlyContentFails
<1>18. InBatches'
  <2> SUFFICES ASSUME source = "bdu" PROVE \E n \in 0..Len(Valid(Entries)) : Flushed(n)'
    BY <1>5, <1>12, <1>13 DEF InBatches
  <2> DEFINE V == Valid(Entries)
             P == ValidIn(Entries)
             c == Len(load.batch)
  <2>1. PICK n \in 0..Len(V) : Flushed(n)
    BY <1>1 DEF CataloguesInv, InBatches
  <2>2. /\ n + c = UpTo(P, load.pos) /\ load.batch = SubSeq(V, n + 1, n + c)
        /\ row = Overlaid(load.before, SubSeq(V, 1, n), 1)
        /\ WholeBatches(n) /\ c < BatchSize /\ c \in Nat
    BY <1>2, <2>1 DEF Flushed
  <2>3. /\ V \in Seq(Entry) /\ P \in SUBSET (1..Len(Entries)) /\ Len(V) = Cardinality(P)
        /\ Len(V) \in Nat
        /\ \A m \in 1..Len(Entries) : m \in P <=> Entries[m].body > 0
    BY <1>2, ValidEntries
  <2>4. UpTo(P, load.pos + 1) = IF load.pos + 1 \in P THEN UpTo(P, load.pos) + 1
                                ELSE UpTo(P, load.pos)
    <3>1. PICK N, pos : N = Len(Entries) /\ pos = load.pos
      OBVIOUS
    <3>2. N \in Nat /\ P \in SUBSET (1..N) /\ pos \in 0..N /\ pos < N
      BY <1>2, <2>3, <3>1
    <3> HIDE DEF P
    <3>3. UpTo(P, pos + 1) = IF pos + 1 \in P THEN UpTo(P, pos) + 1 ELSE UpTo(P, pos)
      BY <3>2, UpToCounts
    <3>. QED  BY <3>1, <3>3
  <2>5. BatchSize \in Nat \ {0}
    BY CataloguesAssumption DEF CataloguesAssumption
  <2>6. V = Kept(Entries, P)
    BY DEF Valid
  <2> HIDE DEF V, P, c
  <2>7. CASE e.body > 0
    <3>1. load.pos + 1 \in P
      BY <1>3, <1>10, <2>3, <2>7
    <3>2. UpTo(P, load.pos + 1) = (n + c) + 1
      BY <2>2, <2>4, <3>1
    <3>3. UpTo(P, load.pos + 1) \in 1..Cardinality(P)
          /\ Kept(Entries, P)[UpTo(P, load.pos + 1)] = Entries[load.pos + 1]
      BY <1>2, <2>3, <3>1, KeptInOrder
    <3>4. (n + c) + 1 \in 1..Len(V) /\ V[(n + c) + 1] = e
      BY <1>10, <2>3, <2>6, <3>2, <3>3
    <3>5. batch = Append(SubSeq(V, n + 1, n + c), e) /\ Len(batch) = c + 1
      <4>1. batch = Append(load.batch, e)
        BY <1>8, <2>7
      <4>2. Len(batch) = Len(load.batch) + 1
        BY <1>2, <1>4, <4>1
      <4>. QED  BY <2>2, <4>1, <4>2 DEF c
    <3>6. batch = SubSeq(V, n + 1, n + (c + 1))
      <4>1. SubSeq(V, n + 1, n + (c + 1)) = Append(SubSeq(V, n + 1, n + c), V[(n + c) + 1])
        BY <2>1, <2>2, <2>3, <3>4
      <4>. QED  BY <3>4, <3>5, <4>1
    <3>7. n + Len(batch) = UpTo(P, load.pos + 1) /\ batch = SubSeq(V, n + 1, n + Len(batch))
      BY <2>1, <2>2, <3>2, <3>5, <3>6
    <3>8. batch # <<>> /\ (Len(batch) >= BatchSize => Len(batch) = BatchSize)
      <4>1. Len(<<>>) = 0
        OBVIOUS
      <4>. QED  BY <2>2, <2>5, <3>5, <4>1
    <3>9. /\ at = "parse" => Len(batch) < BatchSize
          /\ at = "upsert" => batch # <<>> /\ Len(batch) = BatchSize
      BY <1>11, <2>2, <2>5, <3>5, <3>8
    <3>10. Flushed(n)'
      BY <1>12, <1>13, <2>2, <3>7, <3>9 DEF Flushed, WholeBatches, V, P
    <3>. QED  BY <3>10 DEF V
  <2>8. CASE ~(e.body > 0)
    <3>1. load.pos + 1 \notin P /\ batch = load.batch /\ Len(batch) = c
      BY <1>3, <1>9, <1>10, <2>3, <2>8 DEF c
    <3>2. UpTo(P, load.pos + 1) = n + Len(batch) /\ batch = SubSeq(V, n + 1, n + Len(batch))
      BY <2>2, <2>4, <3>1
    <3>3. at = "parse" /\ Len(batch) < BatchSize
      BY <1>11, <2>2, <2>5, <3>1
    <3>4. Flushed(n)'
      BY <1>12, <1>13, <2>2, <3>2, <3>3 DEF Flushed, WholeBatches, V, P
    <3>. QED  BY <3>4 DEF V
  <2>. QED  BY <2>7, <2>8
<1>. QED  BY <1>14, <1>15, <1>16, <1>17, <1>18 DEF CataloguesInv

(* At the end of the file the batch that is left is flushed, and an archive   *)
(* with nothing left is whole.                                                *)
LEMMA EndOfFileKeeps ==
    ASSUME CataloguesInv, source \in {"bdu", "osv"}, load.at = "parse",
           ~(load.pos < Len(Entries)), source' = source, feed' = feed, row' = row,
           load' = IF load.batch # <<>> THEN [load EXCEPT !.at = "upsert"] ELSE Ended(load)
    PROVE  CataloguesInv'
<1>1. Running
  BY DEF Running
<1>2. /\ feed \in [Parts -> Archives] /\ row \in Table /\ load \in Loads
      /\ load.batch \in Seq(Entry) /\ load.part \in Parts /\ Len(load.taken) = load.part
      /\ Entries = load.taken[load.part] /\ Entries \in Seq(Entry) /\ Len(Entries) \in Nat
      /\ load.pos \in 0..Len(Entries)
      /\ load.whole \subseteq DOMAIN load.taken
      /\ \A p \in load.whole : PartStored(load.taken, row, p)
  BY <1>1, LoadRuns
<1>3. load.pos = Len(Entries)
  BY <1>2
<1>4. CASE load.batch # <<>>
  <2>1. /\ load' \in Loads /\ load'.at = "upsert" /\ load'.batch = load.batch
        /\ load'.pos = load.pos /\ load'.part = load.part /\ load'.taken = load.taken
        /\ load'.whole = load.whole /\ load'.before = load.before
    BY <1>2, <1>4 DEF Loads
  <2>2. Parts' = Parts /\ Entries' = Entries
    BY <2>1 DEF Parts, Entries
  <2>3. CatalogueTyped' /\ PlaceOK'
    BY <1>2, <2>1, <2>2 DEF CatalogueTyped, PlaceOK
  <2>4. BatchOK'
    BY <1>1, <2>1, <2>2 DEF CataloguesInv, BatchOK
  <2>5. OneTransaction' /\ FailedLoadIsPrefix' /\ OnlyContentFails'
    BY <2>1 DEF OneTransaction, FailedLoadIsPrefix, OnlyContentFails
  <2>6. InBatches'
    <3> SUFFICES ASSUME source = "bdu" PROVE \E n \in 0..Len(Valid(Entries)) : Flushed(n)'
      BY <2>1, <2>2 DEF InBatches
    <3>1. PICK n \in 0..Len(Valid(Entries)) : Flushed(n)
      BY <1>1 DEF CataloguesInv, InBatches
    <3>2. Flushed(n)'
      BY <1>3, <1>4, <2>1, <2>2, <3>1 DEF Flushed, WholeBatches
    <3>. QED  BY <3>2
  <2>. QED  BY <2>3, <2>4, <2>5, <2>6 DEF CataloguesInv
<1>5. CASE load.batch = <<>>
  <2>1. load' = Ended(load)
    BY <1>5
  <2>2. PartStored(load.taken, row', load.part)
    <3> SUFFICES ASSUME NEW n \in DOMAIN Entries, Entries[n].body > 0
                 PROVE  Offers(load.taken, Entries[n].id, row[Entries[n].id])
      BY <1>2 DEF PartStored
    <3>1. n \in 1..load.pos /\ Entries[n].body # 0
      BY <1>2, <1>3
    <3>2. DOMAIN load.batch = {}
      BY <1>5
    <3>. QED  BY <1>1, <3>1, <3>2 DEF CataloguesInv, BatchOK
  <2>. QED  BY <1>1, <1>2, <2>1, <2>2, EndedKeeps
<1>. QED  BY <1>4, <1>5

(* parseAndUpsert of BDU takes the next entry, or is at the end.              *)
LEMMA ParseVulKeeps == ASSUME CataloguesInv, ParseVul PROVE CataloguesInv'
<1>1. /\ source \in {"bdu", "osv"} /\ load.at = "parse"
      /\ source' = source /\ feed' = feed /\ row' = row
      /\ load' = IF load.pos < Len(Entries) THEN Gathered(load)
                 ELSE IF load.batch # <<>> THEN [load EXCEPT !.at = "upsert"]
                 ELSE Ended(load)
  BY DEF ParseVul
<1>2. CASE load.pos < Len(Entries)
  BY <1>1, <1>2, GatheredKeeps
<1>3. CASE ~(load.pos < Len(Entries))
  BY <1>1, <1>3, EndOfFileKeeps
<1>. QED  BY <1>2, <1>3

(* syncEcosystem of OSV does the same.                                        *)
LEMMA ParseAdvisoryKeeps == ASSUME CataloguesInv, ParseAdvisory PROVE CataloguesInv'
<1>1. /\ source \in {"bdu", "osv"} /\ load.at = "parse"
      /\ source' = source /\ feed' = feed /\ row' = row
      /\ load' = IF load.pos < Len(Entries) THEN Gathered(load)
                 ELSE IF load.batch # <<>> THEN [load EXCEPT !.at = "upsert"]
                 ELSE Ended(load)
  BY DEF ParseAdvisory
<1>2. CASE load.pos < Len(Entries)
  BY <1>1, <1>2, GatheredKeeps
<1>3. CASE ~(load.pos < Len(Entries))
  BY <1>1, <1>3, EndOfFileKeeps
<1>. QED  BY <1>2, <1>3

(* The entries of BDU's batch follow those stored.                            *)
LEMMA BatchFollows ==
    ASSUME CataloguesInv, source = "bdu", load.at = "upsert",
           NEW rows, rows = Overlaid(row, load.batch, load.part)
    PROVE  \E k \in 0..Len(Valid(Entries)) :
              /\ k = UpTo(ValidIn(Entries), load.pos)
              /\ rows = Overlaid(load.before, SubSeq(Valid(Entries), 1, k), 1)
              /\ WholeBatches(k) \/ load.pos = Len(Entries)
<1> DEFINE V == Valid(Entries)
           c == Len(load.batch)
<1>1. Running
  BY DEF Running
<1>2. /\ load \in Loads /\ load.batch \in Seq(Entry) /\ load.part = 1
      /\ Entries \in Seq(Entry) /\ Len(Entries) \in Nat /\ load.pos \in 0..Len(Entries)
  BY <1>1, LoadRuns
<1>3. PICK n \in 0..Len(V) : Flushed(n)
  BY <1>1 DEF CataloguesInv, InBatches
<1>4. /\ n + c = UpTo(ValidIn(Entries), load.pos) /\ load.batch = SubSeq(V, n + 1, n + c)
      /\ row = Overlaid(load.before, SubSeq(V, 1, n), 1)
      /\ WholeBatches(n) /\ load.batch # <<>> /\ c \in Nat
      /\ c = BatchSize \/ load.pos = Len(Entries)
  BY <1>2, <1>3 DEF Flushed
<1>5. V \in Seq(Entry) /\ load.before \in Table
  BY <1>2, ValidEntries DEF Loads
<1>6. n + c \in n..Len(V)
  <2>1. ValidIn(Entries) \in SUBSET (1..Len(Entries)) /\ Len(V) = Cardinality(ValidIn(Entries))
    BY <1>2, ValidEntries
  <2>2. UpTo(ValidIn(Entries), load.pos) \in 0..Len(V)
    BY <1>2, <2>1, UpToCounts
  <2>. QED  BY <1>4, <2>2
<1> HIDE DEF V
<1>7. PICK k \in n..Len(V) : k = n + c
  BY <1>6
<1>8. rows = Overlaid(load.before, SubSeq(V, 1, k), 1)
  <2>1. Overlaid(Overlaid(load.before, SubSeq(V, 1, n), 1), SubSeq(V, n + 1, k), 1)
          = Overlaid(load.before, SubSeq(V, 1, k), 1)
    BY <1>3, <1>5, OverlaidTwice
  <2>2. rows = Overlaid(row, SubSeq(V, n + 1, k), 1)
    BY <1>2, <1>4, <1>7
  <2>. QED  BY <1>4, <2>1, <2>2
<1>9. WholeBatches(k) \/ load.pos = Len(Entries)
  <2> SUFFICES ASSUME c = BatchSize PROVE WholeBatches(k)
    BY <1>4
  <2>1. BatchSize \in Nat \ {0}
    BY CataloguesAssumption DEF CataloguesAssumption
  <2>2. CASE n = 0
    <3>1. 1 \in 1..k /\ k = 1 * BatchSize
      BY <1>7, <2>1, <2>2
    <3>. QED  BY <3>1 DEF WholeBatches
  <2>3. CASE n # 0
    <3>1. PICK b \in 1..n : n = b * BatchSize
      BY <1>4, <2>3 DEF WholeBatches
    <3>2. k = (b + 1) * BatchSize
      BY <1>3, <1>7, <2>1, <3>1
    <3>3. b + 1 \in 1..k
      BY <1>3, <1>7, <2>1, <3>1
    <3>. QED  BY <3>2, <3>3 DEF WholeBatches
  <2>. QED  BY <2>2, <2>3
<1>10. k \in 0..Len(V) /\ k = UpTo(ValidIn(Entries), load.pos)
  BY <1>3, <1>4, <1>7
<1>. QED  BY <1>8, <1>9, <1>10 DEF V

(* A transaction that takes effect stores what waited in the batch.           *)
LEMMA BatchStored ==
    ASSUME CataloguesInv, load.at = "upsert",
           NEW rows, rows = Overlaid(row, load.batch, load.part)
    PROVE  /\ rows \in Table
           /\ \A p \in load.whole : PartStored(load.taken, rows, p)
           /\ \A n \in 1..load.pos :
                 Entries[n].body = 0 \/ Offers(load.taken, Entries[n].id, rows[Entries[n].id])
<1>1. CataloguesInv /\ Running /\ load.at = "upsert"
  BY DEF Running
<1>2. /\ source \in {"kev", "cwe", "bdu", "osv"} /\ feed \in [Parts -> Archives]
      /\ row \in Table /\ load \in Loads /\ load.batch \in Seq(Entry)
      /\ load.taken \in Seq(Seq(Entry)) /\ load.before \in Table
      /\ load.part \in Parts /\ load.part \in Nat /\ Len(load.taken) = load.part
      /\ load.part \in DOMAIN load.taken
      /\ Entries = load.taken[load.part] /\ Entries \in Seq(Entry) /\ Len(Entries) \in Nat
      /\ load.pos \in 0..Len(Entries)
      /\ load.whole \subseteq DOMAIN load.taken
      /\ \A p \in load.whole : PartStored(load.taken, row, p)
      /\ source # "osv" => load.part = 1
  BY <1>1, LoadRuns
<1>8. rows \in Table
  BY <1>2, OverlaidRows DEF Written
<1>3. \A k \in DOMAIN load.batch :
         load.batch[k].body > 0 /\ \E n \in DOMAIN load.taken[load.part] :
                                      load.batch[k] = load.taken[load.part][n]
  BY <1>1, <1>2 DEF CataloguesInv, BatchOK
<1>4. \A i \in Ids : Offers(load.taken, i, row[i]) => Offers(load.taken, i, rows[i])
  BY <1>2, <1>3, OffersStored
<1>5. \A i \in Ids : (\E k \in DOMAIN load.batch : load.batch[k].id = i)
                        => Offers(load.taken, i, rows[i])
  BY <1>2, <1>3, OffersStored
<1>6. \A p \in load.whole : PartStored(load.taken, rows, p)
  <2> SUFFICES ASSUME NEW p \in load.whole, NEW n \in DOMAIN load.taken[p],
                      load.taken[p][n].body > 0
               PROVE  Offers(load.taken, load.taken[p][n].id, rows[load.taken[p][n].id])
    BY DEF PartStored
  <2>1. load.taken[p] \in Seq(Entry)
    BY <1>2
  <2>2. load.taken[p][n] \in Entry
    BY <2>1
  <2>3. load.taken[p][n].id \in Ids
    BY <2>2 DEF Entry
  <2>4. Offers(load.taken, load.taken[p][n].id, row[load.taken[p][n].id])
    BY <1>2 DEF PartStored
  <2>. QED  BY <1>4, <2>3, <2>4
<1>7. \A n \in 1..load.pos :
         Entries[n].body = 0 \/ Offers(load.taken, Entries[n].id, rows[Entries[n].id])
  <2> SUFFICES ASSUME NEW n \in 1..load.pos, Entries[n].body # 0
               PROVE  Offers(load.taken, Entries[n].id, rows[Entries[n].id])
    OBVIOUS
  <2>1. n \in 1..Len(Entries)
    BY <1>2
  <2>2. Entries[n] \in Entry
    BY <1>2, <2>1
  <2>3. Entries[n].id \in Ids
    BY <2>2 DEF Entry
  <2>4. \/ Offers(load.taken, Entries[n].id, row[Entries[n].id])
        \/ \E k \in DOMAIN load.batch : load.batch[k].id = Entries[n].id
    BY <1>1 DEF CataloguesInv, BatchOK
  <2>. QED  BY <1>4, <1>5, <2>3, <2>4
<1>. QED  BY <1>6, <1>7, <1>8

(* A transaction stores what waited in the batch, or nothing.                 *)
LEMMA UpsertKeeps ==
    ASSUME CataloguesInv, NEW outcome \in Outcomes, Upsert(outcome)
    PROVE  CataloguesInv'
<1>1. CataloguesInv /\ Running /\ load.at = "upsert"
  BY DEF Upsert, Running
<1>2. source' = source /\ feed' = feed /\ Parts' = Parts
  BY DEF Upsert, Parts
<1>3. /\ source \in {"kev", "cwe", "bdu", "osv"} /\ feed \in [Parts -> Archives]
      /\ row \in Table /\ load \in Loads /\ load.batch \in Seq(Entry)
      /\ load.taken \in Seq(Seq(Entry)) /\ load.before \in Table
      /\ load.part \in Parts /\ load.part \in Nat /\ Len(load.taken) = load.part
      /\ load.part \in DOMAIN load.taken
      /\ Entries = load.taken[load.part] /\ Entries \in Seq(Entry) /\ Len(Entries) \in Nat
      /\ load.pos \in 0..Len(Entries)
      /\ load.whole \subseteq DOMAIN load.taken
      /\ \A p \in load.whole : PartStored(load.taken, row, p)
      /\ source # "osv" => load.part = 1
  BY <1>1, LoadRuns
<1>4. CASE row' = row /\ (outcome = "failed" \/ Refused)
           /\ load' = Broken([load EXCEPT !.hurt = @ \/ outcome = "failed"])
  <2>1. source = "kev" => ~Repeats(load.batch)
    BY <1>1 DEF CataloguesInv, OneTransaction
  <2>2. PICK h \in BOOLEAN : h = (load.hurt \/ outcome = "failed")
    OBVIOUS
  <2>3. load' = Broken([load EXCEPT !.hurt = h])
    BY <1>4, <2>2, Zenon
  <2>4. CASE outcome = "failed"
    BY <1>1, <1>2, <1>4, <2>2, <2>3, <2>4, RunBreaks
  <2>5. CASE outcome # "failed"
    <3>1. source # "osv" => Repeats(load.batch)
      <4>1. \A m, n \in DOMAIN load.batch : m < n => m # n
        BY <1>3
      <4>. QED  BY <1>4, <2>5, <4>1 DEF Refused, Repeats
    <3>2. source = "osv" \/ (source \in {"cwe", "bdu"} /\ Repeats(load.batch))
      BY <1>3, <2>1, <3>1
    <3>. QED  BY <1>1, <1>2, <1>4, <2>3, <3>2, RunBreaks
  <2>. QED  BY <2>4, <2>5
<1>5. CASE /\ row' = Overlaid(row, load.batch, load.part)
           /\ load' = Broken([load EXCEPT !.hurt = TRUE, !.lost = TRUE])
  <2> DEFINE l == [load EXCEPT !.hurt = TRUE, !.lost = TRUE]
  <2>1. /\ l \in Loads /\ l.part = load.part /\ l.taken = load.taken /\ l.whole = load.whole
        /\ l.before = load.before /\ l.hurt = TRUE /\ l.lost = TRUE
    BY <1>3 DEF Loads
  <2>2. load' = Broken(l)
    BY <1>5
  <2> HIDE DEF l
  <2>3. /\ row' \in Table
        /\ \A p \in l.whole : PartStored(l.taken, row', p)
    BY <1>1, <1>5, <2>1, BatchStored
  <2>4. ASSUME source # "osv" PROVE StoredPrefix(l, row')
    <3>1. CASE source = "bdu"
      <4>1. PICK k \in 0..Len(Valid(Entries)) :
               /\ k = UpTo(ValidIn(Entries), load.pos)
               /\ row' = Overlaid(load.before, SubSeq(Valid(Entries), 1, k), 1)
               /\ WholeBatches(k) \/ load.pos = Len(Entries)
        BY <1>1, <1>5, <3>1, BatchFollows
      <4>2. WholeBatches(k) \/ k = Len(Valid(Entries))
        BY <1>3, <4>1, AllCounted
      <4>. QED  BY <1>3, <2>1, <3>1, <4>1, <4>2, BatchesArePrefix
    <3>2. CASE source # "bdu"
      <4>1. row = load.before /\ load.batch = Replacement /\ load.part = 1
        BY <1>1, <1>3, <2>4, <3>2 DEF CataloguesInv, OneTransaction
      <4>2. row' = Overlaid(l.before, RecordsIn(l.taken[l.part]), 1)
        BY <1>3, <1>5, <2>1, <4>1 DEF Replacement, RecordsIn
      <4>. QED  BY <2>1, <3>2, <4>2 DEF StoredPrefix
    <3>. QED  BY <3>1, <3>2
  <2>. QED  BY <1>2, <1>3, <2>1, <2>2, <2>3, <2>4, BrokenKeeps
<1>6. CASE /\ row' = Overlaid(row, load.batch, load.part)
           /\ load' = IF source \in {"kev", "cwe"} THEN Ended(load)
                      ELSE [load EXCEPT !.at = "parse", !.batch = <<>>]
  <2>1. /\ row' \in Table
        /\ \A p \in load.whole : PartStored(load.taken, row', p)
        /\ \A n \in 1..load.pos :
              Entries[n].body = 0 \/ Offers(load.taken, Entries[n].id, row'[Entries[n].id])
    BY <1>1, <1>6, BatchStored
  <2>2. CASE source \in {"kev", "cwe"}
    <3>1. load' = Ended(load)
      BY <1>6, <2>2
    <3>2. load.pos = Len(Entries)
      BY <1>1, <2>2 DEF CataloguesInv, OneTransaction
    <3>3. PartStored(load.taken, row', load.part)
      <4> SUFFICES ASSUME NEW n \in DOMAIN Entries, Entries[n].body > 0
                   PROVE  Offers(load.taken, Entries[n].id, row'[Entries[n].id])
        BY <1>3 DEF PartStored
      <4>1. n \in 1..load.pos /\ Entries[n].body # 0
        BY <1>3, <3>2
      <4>. QED  BY <2>1, <4>1
    <3>. QED  BY <1>1, <1>2, <2>1, <3>1, <3>3, EndedKeeps
  <2>3. CASE source \notin {"kev", "cwe"}
    <3>1. load' = [load EXCEPT !.at = "parse", !.batch = <<>>]
      BY <1>6, <2>3
    <3>2. <<>> \in Seq(Entry) /\ DOMAIN <<>> = {} /\ Len(<<>>) = 0
      OBVIOUS
    <3>3. /\ load' \in Loads /\ load'.at = "parse" /\ load'.batch = <<>> /\ load'.pos = load.pos
          /\ load'.part = load.part /\ load'.taken = load.taken /\ load'.whole = load.whole
          /\ load'.before = load.before
      BY <1>3, <3>1, <3>2 DEF Loads
    <3>4. Entries' = Entries
      BY <3>3 DEF Entries
    <3>5. CatalogueTyped'
      BY <1>2, <1>3, <2>1, <3>3 DEF CatalogueTyped
    <3>6. PlaceOK'
      BY <1>2, <1>3, <2>1, <3>3, <3>4 DEF PlaceOK
    <3>7. BatchOK'
      BY <2>1, <3>2, <3>3, <3>4 DEF BatchOK
    <3>8. OneTransaction' /\ FailedLoadIsPrefix' /\ OnlyContentFails'
      BY <1>2, <2>3, <3>3 DEF OneTransaction, FailedLoadIsPrefix, OnlyContentFails
    <3>9. InBatches'
      <4> SUFFICES ASSUME source = "bdu" PROVE \E n \in 0..Len(Valid(Entries)) : Flushed(n)'
        BY <1>2, <3>3, <3>4 DEF InBatches
      <4> DEFINE V == Valid(Entries)
      <4>1. PICK k \in 0..Len(V) :
               /\ k = UpTo(ValidIn(Entries), load.pos)
               /\ row' = Overlaid(load.before, SubSeq(V, 1, k), 1)
               /\ WholeBatches(k) \/ load.pos = Len(Entries)
        BY <1>1, <1>6, BatchFollows
      <4>2. V \in Seq(Entry)
        BY <1>3, ValidEntries
      <4>3. 0 < BatchSize
        BY CataloguesAssumption DEF CataloguesAssumption
      <4> HIDE DEF V
      <4>4. SubSeq(V, k + 1, k + 0) = <<>> /\ k + 0 = k
        BY <4>1, <4>2
      <4>5. /\ k + Len(load'.batch) = UpTo(ValidIn(Entries), load'.pos)
            /\ load'.batch = SubSeq(V, k + 1, k + Len(load'.batch))
            /\ row' = Overlaid(load'.before, SubSeq(V, 1, k), 1)
        BY <3>2, <3>3, <4>1, <4>4
      <4>6. /\ WholeBatches(k) \/ (load'.pos = Len(Entries) /\ load'.batch = <<>>)
            /\ Len(load'.batch) < BatchSize
        BY <3>2, <3>3, <4>1, <4>3
      <4>7. Flushed(k)'
        BY <3>3, <3>4, <4>5, <4>6 DEF Flushed, WholeBatches, V
      <4>. QED  BY <4>1, <4>7 DEF V
    <3>. QED  BY <3>5, <3>6, <3>7, <3>8, <3>9 DEF CataloguesInv
  <2>. QED  BY <2>2, <2>3
<1>. QED  BY <1>4, <1>5, <1>6 DEF Upsert

(* Every step of a load keeps the invariant.                                  *)
LEMMA CataloguesStep == CataloguesInv /\ [CataloguesNext]_catalogueVars => CataloguesInv'
<1> SUFFICES ASSUME CataloguesInv, [CataloguesNext]_catalogueVars PROVE CataloguesInv'
  OBVIOUS
<1>1. CASE UNCHANGED catalogueVars
  <2>1. /\ source' = source /\ row' = row /\ load' = load /\ feed' = feed
        /\ feed \in [Parts -> Archives]
    BY <1>1 DEF catalogueVars, CataloguesInv, CatalogueTyped
  <2>. QED  BY <2>1, SameLoad
<1>2. ASSUME NEW p \in Parts, NEW a \in Archives, Publish(p, a) PROVE CataloguesInv'
  BY <1>2, PublishKeeps
<1>3. CASE Begin
  BY <1>3, BeginKeeps
<1>4. CASE DownloadKev \/ DownloadCwe \/ DownloadBdu \/ DownloadOsv
  BY <1>4, DownloadKeeps DEF DownloadKev, DownloadCwe, DownloadBdu, DownloadOsv
<1>5. ASSUME NEW transient \in BOOLEAN, DownloadFails(transient) PROVE CataloguesInv'
  BY <1>5, DownloadFailsKeeps
<1>6. CASE ParseKev
  BY <1>6, ParseKevKeeps
<1>7. CASE ParseCwe
  BY <1>7, ParseCweKeeps
<1>8. CASE ParseVul
  BY <1>8, ParseVulKeeps
<1>9. CASE ParseAdvisory
  BY <1>9, ParseAdvisoryKeeps
<1>10. CASE ParseFails
  BY <1>10, ParseFailsKeeps
<1>11. ASSUME NEW outcome \in Outcomes,
              \/ UpsertKev(outcome) \/ UpsertCwe(outcome)
              \/ UpsertBdu(outcome) \/ UpsertOsv(outcome)
       PROVE  CataloguesInv'
  BY <1>11, UpsertKeeps DEF UpsertKev, UpsertCwe, UpsertBdu, UpsertOsv
<1>12. CASE Interrupt
  BY <1>12, InterruptKeeps
<1>. QED  BY <1>1, <1>2, <1>3, <1>4, <1>5, <1>6, <1>7, <1>8, <1>9, <1>10, <1>11, <1>12
          DEF CataloguesNext

(* What sync_status says of a load of KEV, CWE, BDU or OSV is true of the     *)
(* catalogue: all of the archive is there after a success, whole transactions *)
(* after a failure (of KEV and CWE the only one, and that just when its COMMIT *)
(* was not answered), and without a fault only its content makes it fail.     *)
THEOREM ResultsAreTrue == CataloguesSpec => []ResultIsTrue
<1>1. CataloguesInit => CataloguesInv
  BY CataloguesStart
<1>2. CataloguesInv /\ [CataloguesNext]_catalogueVars => CataloguesInv'
  BY CataloguesStep
<1>3. CataloguesInv => ResultIsTrue
  BY ResultFromInv
<1>. QED  BY <1>1, <1>2, <1>3, PTL DEF CataloguesSpec
=============================================================================
