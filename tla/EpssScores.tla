----------------------------- MODULE EpssScores -----------------------------
(***************************************************************************)
(* The load of the EPSS scores (epss/sync.go): a file per day, published   *)
(* late and by three sources that do not agree, goes into epss_scores (the *)
(* score of a CVE) and epss_history (its score on every day).              *)
(***************************************************************************)
EXTENDS Integers, Sequences, FiniteSets

CONSTANTS
    Mirrors,   \* how many sources there are (three)
    Cves,
    MaxDay,    \* bound: days
    MaxIssues, \* bound: files published
    MaxSlips   \* bound: attempts that fail

ASSUME EpssAssumption ==
    Mirrors \in Nat \ {0} /\ MaxDay \in Nat \ {0} /\ MaxIssues \in Nat /\ MaxSlips \in Nat

VARIABLES
    day,      \* today
    issue,    \* issue[m][d]: the file of day d at mirror m
    score,    \* score[c]: the row of epss_scores
    history,  \* history[c][d]: the row of epss_history
    fetch,    \* the run: the day it began, the file it has got
    issues, slips

epssVars == <<day, issue, score, history, fetch, issues, slips>>

Days == 1..MaxDay
NoFile == [cves |-> {}, number |-> 0, dated |-> TRUE]
NoScore == [date |-> 0, number |-> 0]
NoFetch == [at |-> "idle", began |-> 0, date |-> 0, file |-> NoFile]

EpssInit ==
    /\ day = 1
    /\ issue = [m \in 1..Mirrors |-> [d \in Days |-> NoFile]]
    /\ score = [c \in Cves |-> NoScore]
    /\ history = [c \in Cves |-> [d \in Days |-> 0]]
    /\ fetch = NoFetch
    /\ issues = 0
    /\ slips = 0

\* A mirror publishes the file of a day, or publishes it again with other
\* scores; its header may lack the date.
PublishIssue(m, d, cves, dated) ==
    /\ issues < MaxIssues /\ d <= day
    /\ issue' = [issue EXCEPT ![m][d] = [cves |-> cves, number |-> issues + 1, dated |-> dated]]
    /\ issues' = issues + 1
    /\ UNCHANGED <<day, score, history, fetch, slips>>

Midnight ==
    /\ day < MaxDay
    /\ day' = day + 1
    /\ UNCHANGED <<issue, score, history, fetch, issues, slips>>

-----------------------------------------------------------------------------
(* The run *)

BeginEpss ==
    /\ fetch.at = "idle"
    /\ fetch' = [NoFetch EXCEPT !.at = "look", !.began = day]
    /\ UNCHANGED <<day, issue, score, history, issues, slips>>

\* Today and yesterday, in this order, of the instant the run began.
DateCandidates(began) == <<began, began - 1>>

\* The addresses in the order they are asked for: all dates of a source first.
Candidates ==
    LET dates == DateCandidates(fetch.began)
    IN  [k \in 1..Mirrors * Len(dates) |->
            <<1 + ((k - 1) \div Len(dates)), dates[1 + ((k - 1) % Len(dates))]>>]

Held(address) == issue[address[1]][address[2]]

Has(address) == address[2] \in Days /\ Held(address).number > 0

\* Sync and downloadWithRetry: the first address that answers with a file; the
\* `skipped` ones before it had one, but failed four times over.
Find(k) ==
    /\ fetch.at = "look"
    /\ Has(Candidates[k])
    /\ LET skipped == Cardinality({j \in 1..k - 1 : Has(Candidates[j])})
       IN slips + skipped <= MaxSlips /\ slips' = slips + skipped
    /\ fetch' = [fetch EXCEPT !.at = "parse", !.file = Held(Candidates[k]),
                              !.date = Candidates[k][2]]
    /\ UNCHANGED <<day, issue, score, history, issues>>

\* No address has a file, or the run is cancelled, or what it has got is no
\* gzip, has no header, or holds a CVE twice, which fails the transaction.
Abandon ==
    /\ fetch.at # "idle"
    /\ \/ /\ fetch.at = "look"
          /\ ~\E k \in DOMAIN Candidates : Has(Candidates[k])
          /\ UNCHANGED slips
       \/ slips < MaxSlips /\ slips' = slips + 1
    /\ fetch' = NoFetch
    /\ UNCHANGED <<day, issue, score, history, issues>>

\* parseCSV: the date of the header, or that of the instant it is read; a file
\* without a valid record is an error.
Parse ==
    /\ fetch.at = "parse"
    /\ fetch' = IF fetch.file.cves = {} THEN NoFetch
                ELSE [fetch EXCEPT !.at = "store",
                                   !.date = IF fetch.file.dated THEN @ ELSE day]
    /\ UNCHANGED <<day, issue, score, history, issues, slips>>

\* Mutant: the history has ON CONFLICT DO NOTHING.
StoreFirst ==
    /\ fetch.at = "store"
    /\ score' = [c \in Cves |-> IF c \in fetch.file.cves
                    THEN [date |-> fetch.date, number |-> fetch.file.number] ELSE score[c]]
    /\ history' = [c \in Cves |->
                     IF c \in fetch.file.cves /\ history[c][fetch.date] = 0
                     THEN [history[c] EXCEPT ![fetch.date] = fetch.file.number] ELSE history[c]]
    /\ fetch' = NoFetch
    /\ UNCHANGED <<day, issue, issues, slips>>

\* upsert: both tables in one transaction.
Store ==
    /\ fetch.at = "store"
    /\ score' = [c \in Cves |-> IF c \in fetch.file.cves
                    THEN [date |-> fetch.date, number |-> fetch.file.number] ELSE score[c]]
    /\ history' = [c \in Cves |->
                     IF c \in fetch.file.cves
                     THEN [history[c] EXCEPT ![fetch.date] = fetch.file.number] ELSE history[c]]
    /\ fetch' = NoFetch
    /\ UNCHANGED <<day, issue, issues, slips>>

EpssNext ==
    \/ \E m \in 1..Mirrors, d \in Days, cves \in SUBSET Cves, dated \in BOOLEAN :
          PublishIssue(m, d, cves, dated)
    \/ Midnight
    \/ BeginEpss \/ \E k \in DOMAIN Candidates : Find(k)
    \/ Abandon \/ Parse \/ Store

EpssSpec == EpssInit /\ [][EpssNext]_epssVars

-----------------------------------------------------------------------------
(* Properties *)

(* The two tables agree: the score of a CVE is the one its history has for    *)
(* that day, whatever was published again, late or without a date.            *)
ScoreIsInHistory ==
    \A c \in Cves : score[c].date > 0 => history[c][score[c].date] = score[c].number

(* Nothing keeps an older file from replacing a newer one, since yesterday's  *)
(* file of one source is preferred to today's of the next: the date of a      *)
(* score may go back, but by one day at most.                                 *)
ScoreGoesBackOneDay ==
    [][\A c \in Cves : score'[c].date >= score[c].date - 1]_epssVars
=============================================================================
