---------------------------- MODULE CpeDictionary ----------------------------
(***************************************************************************)
(* The load of the CPE dictionary (cpe/sync.go) from the paged API of NVD: *)
(* everything when the table is empty or on demand, otherwise what was     *)
(* modified in the last 24 hours.  The watermark of the last success is    *)
(* looked for in a row that RunSync has just set to running, so it is      *)
(* never found.                                                            *)
(***************************************************************************)
EXTENDS Integers, FiniteSets

CONSTANTS
    Products,  \* how many products there are, in the order of the API
    PageLength,\* resultsPerPage
    Window,    \* 24 hours
    MaxTime,   \* bound: instants
    MaxBreaks  \* bound: runs that fail

ASSUME CpeAssumption ==
    /\ Products \in Nat \ {0} /\ PageLength \in Nat \ {0} /\ Window \in Nat
    /\ MaxTime \in Nat /\ MaxBreaks \in Nat

VARIABLES
    time,     \* the instant
    changed,  \* changed[p]: when p was last modified
    dict,     \* dict[p]: the modification that cpe_dictionary holds, 0: no row
    run,      \* the load: its window, index and total
    sound,    \* history: the start of the last load since the full one that
              \* left no gap and was not cut short
    breaks

cpeVars == <<time, changed, dict, run, sound, breaks>>

Positions == 1..Products
NoRun == [at |-> "idle", full |-> FALSE, lo |-> 0, hi |-> 0, index |-> 0, total |-> -1]

CpeInit ==
    /\ time = 1
    /\ changed = [p \in Positions |-> 1]
    /\ dict = [p \in Positions |-> 0]
    /\ run = NoRun
    /\ sound = 0
    /\ breaks = 0

\* Time passes, and perhaps a product is modified.
Pass(modified) ==
    /\ time < MaxTime
    /\ time' = time + 1
    /\ changed' = [p \in Positions |-> IF p \in modified THEN time + 1 ELSE changed[p]]
    /\ UNCHANGED <<dict, run, sound, breaks>>

-----------------------------------------------------------------------------

\* Sync: all of it when there is no row; buildIncrementalParams: the last 24
\* hours.  FullSync: all of it.
StartCpe(full) ==
    /\ run.at = "idle"
    /\ run' = [NoRun EXCEPT !.at = "page", !.hi = time,
                            !.full = full \/ \A p \in Positions : dict[p] = 0,
                            !.lo = time - Window]
    /\ UNCHANGED <<time, changed, dict, sound, breaks>>

Listed == {p \in Positions : run.full \/ changed[p] \in run.lo .. run.hi}
Place(p) == Cardinality({q \in Listed : q <= p})
SeenIn == {p \in Listed : Place(p) \in run.index + 1 .. run.index + PageLength}

\* The load is over: it is sound when it began no later than a window after
\* the last sound one and its pages came to the end.
Sound(cut) ==
    IF ~cut /\ (run.full \/ (sound > 0 /\ run.lo <= sound)) THEN run.hi ELSE sound

\* upsertBatch: the products of a page as they are now, in one transaction.
WithPage(page) == [p \in Positions |-> IF p \in page THEN changed[p] ELSE dict[p]]

\* Mutant: the load also ends one page early.
PageStopsEarly ==
    /\ run.at = "page"
    /\ LET page  == SeenIn
           total == IF run.total < 0 THEN Cardinality(Listed) ELSE run.total
           next  == run.index + Cardinality(page)
           over  == page = {} \/ next + 1 >= total
       IN  /\ dict' = WithPage(page)
           /\ run' = IF over THEN NoRun ELSE [run EXCEPT !.index = next, !.total = total]
           /\ sound' = IF over THEN Sound(page = {} /\ next < total) ELSE sound
    /\ UNCHANGED <<time, changed, breaks>>

\* A turn of fetchAndStore: a page is stored in a transaction of its own; the
\* number of results is that of the first page; an empty page ends the load.
FetchCpePage ==
    /\ run.at = "page"
    /\ LET page  == SeenIn
           total == IF run.total < 0 THEN Cardinality(Listed) ELSE run.total
           next  == run.index + Cardinality(page)
           over  == page = {} \/ next >= total
       IN  /\ dict' = WithPage(page)
           /\ run' = IF over THEN NoRun ELSE [run EXCEPT !.index = next, !.total = total]
           /\ sound' = IF over THEN Sound(page = {} /\ next < total) ELSE sound
    /\ UNCHANGED <<time, changed, breaks>>

\* A page fails for good after five attempts, its transaction fails, the run
\* is cancelled or the process stops: the pages stored so far stay.
BreakCpe ==
    /\ run.at = "page" /\ breaks < MaxBreaks
    /\ breaks' = breaks + 1
    /\ run' = NoRun
    /\ UNCHANGED <<time, changed, dict, sound>>

CpeNext ==
    \/ Pass({}) \/ \E p \in Positions : Pass({p})
    \/ \E full \in BOOLEAN : StartCpe(full)
    \/ FetchCpePage \/ BreakCpe

CpeSpec == CpeInit /\ [][CpeNext]_cpeVars

-----------------------------------------------------------------------------
(* Properties *)

(* Once a full load has completed, loads that begin at most 24 hours after    *)
(* the start of the last sound one miss no modification made before they      *)
(* began, whatever is modified while their pages are read.  A load that the   *)
(* API cuts short with an empty page is a success too, but not a sound one: a *)
(* modified product leaves the window, what follows moves up, and one that    *)
(* has not been read is passed over.                                          *)
DictionaryFollows ==
    \A p \in Positions : changed[p] <= sound => dict[p] = changed[p]
=============================================================================
