---------------------------- MODULE SerialImports ----------------------------
(***************************************************************************)
(* What imports promise, whatever overlaps, waits, deadlocks or fails: a   *)
(* scan is imported with its whole report in one instant or not at all, as *)
(* if nothing else were going on; its counters and links say what it found *)
(* at that instant.  A report to POST /import is imported entry by entry.  *)
(***************************************************************************)
EXTENDS Integers, Sequences, FiniteSets

CONSTANTS
    Fingerprints, Projects, Scans, Imports, Reports,
    None       \* no finding, no scan

VARIABLES
    findings,  \* findings[fp]: the finding with fingerprint fp
    links,     \* which scan has seen which finding, and whether it made it
    scans      \* scans[s]: the outcome of scan s

vars == <<findings, links, scans>>

Init ==
    /\ findings = [fp \in Fingerprints |-> None]
    /\ links = {}
    /\ scans = [s \in Scans |-> None]

Places(report, fp) == {i \in DOMAIN report : report[i] = fp}

\* The entries that name a finding the report has not named before.
Firsts(report) == {i \in DOMAIN report : \A j \in DOMAIN report : j < i => report[j] # report[i]}

\* Those of them that nobody has seen before.
News(report) == {i \in Firsts(report) : findings[report[i]] = None}

\* The finding fp when request r has seen it n times, first at place i.
Seen(r, project, fp, i, n) ==
    IF findings[fp] = None
    THEN [id |-> <<r, i>>, project |-> project, times |-> n]
    ELSE [findings[fp] EXCEPT !.times = @ + n]

ImportReport(s, project, report) ==
    /\ scans[s] = None
    /\ findings' = [fp \in Fingerprints |->
          LET P == Places(report, fp)
          IN  IF P = {} THEN findings[fp]
              ELSE Seen(s, project, fp, CHOOSE i \in P : i \in Firsts(report), Cardinality(P))]
    /\ links' = links \union
          {[id |-> findings'[report[i]].id, scan |-> s, new |-> i \in News(report)] :
              i \in Firsts(report)}
    /\ scans' = [scans EXCEPT ![s] =
          [status |-> "completed", imported |-> Cardinality(News(report)),
           updated |-> Cardinality(DOMAIN report \ News(report))]]

\* The server did not learn of the import and records a failure.
Disown(s) ==
    /\ scans[s] # None
    /\ scans' = [scans EXCEPT ![s] = [status |-> "failed", imported |-> 0, updated |-> 0]]
    /\ UNCHANGED <<findings, links>>

ImportEntry(r, project, report, i) ==
    /\ findings' = [findings EXCEPT ![report[i]] = Seen(r, project, report[i], i, 1)]
    /\ UNCHANGED <<links, scans>>

\* With its links.
Delete(fp) ==
    /\ findings[fp] # None
    /\ findings' = [findings EXCEPT ![fp] = None]
    /\ links' = {l \in links : l.id # findings[fp].id}
    /\ UNCHANGED scans

Next ==
    \/ \E project \in Projects, report \in Reports :
          \/ \E s \in Scans : ImportReport(s, project, report)
          \/ \E r \in Imports, i \in DOMAIN report : ImportEntry(r, project, report, i)
    \/ \E s \in Scans : Disown(s)
    \/ \E fp \in Fingerprints : Delete(fp)

Spec == Init /\ [][Next]_vars
=============================================================================
