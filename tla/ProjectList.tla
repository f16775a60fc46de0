---------------------------- MODULE ProjectList ----------------------------
(***************************************************************************)
(* The pages of the list of projects (storage/projects_repo.go, List)      *)
(* while projects are pinned and unpinned and what the list is ordered by  *)
(* changes.                                                                *)
(***************************************************************************)
EXTENDS Integers, Sequences, FiniteSets, SequencesExt

CONSTANTS
    Boards,     \* possible columns: functions from projects to the sort column
    BoardLimit, \* the limit of the list
    MaxPins     \* bound: how many times a project changes

\* An id is its place in the order of ids, a value its place in that of the
\* column.
ASSUME ProjectListAssumption ==
    /\ BoardLimit \in Nat \ {0} /\ MaxPins \in Nat
    /\ \A b \in Boards : /\ DOMAIN b \subseteq Int /\ IsFiniteSet(DOMAIN b)
                        /\ b \in [DOMAIN b -> Int]

VARIABLES
    column,    \* column[p]: the value that the list is ordered by
    pinned,    \* the pinned projects
    board,     \* a reader: its cursor, the lines it has got
    pins       \* how many times a project has changed

boardVars == <<column, pinned, board, pins>>

BoardInit ==
    /\ column \in Boards
    /\ pinned \in SUBSET DOMAIN column
    /\ board = [at |-> "idle", cursor |-> <<>>, lines |-> <<>>, moved |-> FALSE, apart |-> FALSE]
    /\ pins = 0

-----------------------------------------------------------------------------

\* The order asked for: pinned ones first, then the column, then the id.
BoardKey(p) == <<IF p \in pinned THEN 1 ELSE 0, column[p]>>
BoardPrecedes(p, q) ==
    LET a == BoardKey(p)  b == BoardKey(q)
    IN  a[1] > b[1] \/ (a[1] = b[1] /\ (a[2] > b[2] \/ (a[2] = b[2] /\ p > q)))

\* Among the projects S that order is the one of the cursor.
CursorOrders(S) ==
    \A p, q \in S : BoardKey(p)[1] = BoardKey(q)[1] /\ p > q => column[p] >= column[q]

\* The condition of the cursor: (pinned, id) below that of the last row.
AfterBoardCursor(p) ==
    LET pin == BoardKey(p)[1]
    IN  board.cursor # <<>> =>
            board.cursor[1] > pin \/ (board.cursor[1] = pin /\ board.cursor[2] > p)

\* ORDER BY: the projects S in that order.
BoardOrder(S) ==
    CHOOSE s \in [1..Cardinality(S) -> S] :
        \A i, j \in DOMAIN s : i < j => BoardPrecedes(s[i], s[j])

\* Mutant: the row read to know of a next page is shown, and again next time.
ShowsExtraRow ==
    /\ board.at # "done"
    /\ LET sorted == BoardOrder({p \in DOMAIN column : AfterBoardCursor(p)})
           more   == Len(sorted) > BoardLimit
           rows   == SubSeq(sorted, 1, IF more THEN BoardLimit + 1 ELSE Len(sorted))
           last   == sorted[BoardLimit]
       IN board' = [board EXCEPT
            !.at = IF more THEN "paging" ELSE "done",
            !.lines = @ \o rows,
            !.cursor = IF more THEN <<BoardKey(last)[1], last>> ELSE @,
            !.apart = @ \/ ~CursorOrders(DOMAIN column)]
    /\ UNCHANGED <<column, pinned, pins>>

\* ProjectsRepo.List reads one row more to know of a next page.  apart: a page
\* was read in an order that is not the cursor's.
BoardPage ==
    /\ board.at # "done"
    /\ LET sorted == BoardOrder({p \in DOMAIN column : AfterBoardCursor(p)})
           more   == Len(sorted) > BoardLimit
           rows   == SubSeq(sorted, 1, IF more THEN BoardLimit ELSE Len(sorted))
       IN board' = [board EXCEPT
            !.at = IF more THEN "paging" ELSE "done",
            !.lines = @ \o rows,
            !.cursor = IF more THEN <<BoardKey(Last(rows))[1], Last(rows)>> ELSE @,
            !.apart = @ \/ ~CursorOrders(DOMAIN column)]
    /\ UNCHANGED <<column, pinned, pins>>

\* A project is pinned or no longer is.
Pin(p) ==
    /\ pins < MaxPins /\ pins' = pins + 1
    /\ pinned' = IF p \in pinned THEN pinned \ {p} ELSE pinned \union {p}
    /\ board' = [board EXCEPT !.moved = board.at # "idle"]
    /\ UNCHANGED column

\* What the list is ordered by changes for a project: sev.critical and the last
\* scan with its findings, updated_at and the name with an edit.
Reorder(p) ==
    /\ pins < MaxPins /\ pins' = pins + 1
    /\ \E b \in Boards :
          /\ DOMAIN b = DOMAIN column /\ \A q \in DOMAIN b : b[q] # column[q] <=> q = p
          /\ column' = b
    /\ UNCHANGED <<pinned, board>>

BoardNext == BoardPage \/ \E p \in DOMAIN column : Pin(p) \/ Reorder(p)

BoardSpec == BoardInit /\ [][BoardNext]_boardVars

-----------------------------------------------------------------------------
(* Properties *)

(* All pages of the list of projects show every project once that is not      *)
(* pinned or unpinned meanwhile, also when what the list is ordered by        *)
(* changes between two pages; but only if, whenever a page is read, the order *)
(* asked for agrees with that of (pinned, id), which is all the cursor knows. *)
(* Otherwise projects are skipped or repeated.                                *)
BoardIsComplete ==
    board.at = "done" =>
        \/ board.apart \/ board.moved
        \/ \A p \in DOMAIN column : Cardinality({k \in DOMAIN board.lines : board.lines[k] = p}) = 1
=============================================================================
