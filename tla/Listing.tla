------------------------------- MODULE Listing -------------------------------
(***************************************************************************)
(* What readers are shown of findings while they change: the keyset pages  *)
(* of the list, the exports built from them, the facets, and the groups    *)
(* with the bulk actions on them (storage/findings_repo.go,                *)
(* api/findings.go, triage.go, export.go, export_html.go, export/html.go). *)
(* Every query is a step of its own: the pages of a reader are not one     *)
(* snapshot.                                                               *)
(***************************************************************************)
EXTENDS Integers, Sequences, FiniteSets, SequencesExt

CONSTANTS
    Findings,     \* findings are numbers, their order is that of the ids
    Data,         \* Data[f]: its columns, and its status at first
    Filters,      \* filters that readers ask for
    BatchLimit,   \* exportBatchSize (1000), or the limit of the list
    MaxRows,      \* exportMaxRows (100000), MaxHTMLRows (5000)
    BulkLimit,    \* hardLimit of a bulk action (5000)
    MaxMoves      \* bound: changes of findings

\* What names, versions and rules are made of, with the dash between blanks that
\* ListGroups puts between the id of a rule and its name.
Words == {"@", "blank", "dash"} \union
    UNION {Range(Data[f].component) \union Range(Data[f].version)
             \union Range(Data[f].rule) \union Range(Data[f].name) : f \in Findings}

\* A cursor without a finding is 0; a finding's instant and its severity are
\* ordered like integers.
ASSUME ListingAssumption ==
    /\ Findings \subseteq Nat \ {0} /\ IsFiniteSet(Findings)
    /\ \A f \in Findings : Data[f].seen \in Int /\ Data[f].severity \in Int
    /\ BatchLimit \in Nat \ {0}
    /\ MaxRows \in Nat /\ BulkLimit \in Nat /\ MaxMoves \in Nat

\* They are sequences of words, as the keys of groups are.
ASSUME NamesAssumption ==
    \A f \in Findings : /\ Data[f].component \in Seq(Words) /\ Data[f].version \in Seq(Words)
                        /\ Data[f].rule \in Seq(Words) /\ Data[f].name \in Seq(Words)

\* The fields of FindingsFilter that are modelled.
ASSUME FiltersAssumption ==
    \A filter \in Filters :
        filter \in [projects : SUBSET STRING, severities : SUBSET Int, statuses : SUBSET Int,
                   hasCve : BOOLEAN, empty : BOOLEAN]

VARIABLES
    present,   \* the findings there are
    status,    \* status[f]
    page,      \* a reader: its query, its cursor, the lines it has got
    moves

listingVars == <<present, status, page, moves>>

Statuses == {0, 2}

Severity == [f \in Findings |-> {Data[f].severity}]
CvesOf == [f \in Findings |-> Data[f].cves]
\* The key that the workbook and the groups have for a component, and that of
\* the report, which leaves out findings without one.  Names are sequences of
\* words.
Component == [f \in Findings |-> {Data[f].component \o <<"@">> \o Data[f].version}]
NamedComponent ==
    [f \in Findings |-> IF Data[f].component = <<>> THEN {} ELSE {<<Data[f].component, Data[f].version>>}]

\* How many of the lines have each of the keys that keys gives.
Counts(keys, lines) ==
    [k \in UNION {keys[f] : f \in Findings} |-> Cardinality({n \in DOMAIN lines : k \in keys[lines[n]]})]

\* The maps of handleXLSX before the first row.
NoSums == [severity |-> Counts(Severity, <<>>), cve |-> Counts(CvesOf, <<>>),
           component |-> Counts(Component, <<>>)]
NoPage == [at |-> "idle", format |-> "list", sort |-> "first_seen", dir |-> "desc",
           filter |-> [empty |-> TRUE], cursor |-> 0, lines |-> <<>>, total |-> 0,
           sums |-> NoSums, first |-> {}, moved |-> {}]

ListingInit ==
    /\ present \in SUBSET Findings
    /\ status = [f \in Findings |-> Data[f].status]
    /\ page = NoPage
    /\ moves = 0

-----------------------------------------------------------------------------
(* Filters: {} stands for a dimension that is not restricted *)

Allows(set, value) == set = {} \/ value \in set

\* Mutant: the filter of the dimension itself stays.
KeepsOwnFilter(filter, exclude, f) ==
    /\ Allows(filter.projects, Data[f].project)
    /\ Allows(filter.severities, Data[f].severity)
    /\ Allows(filter.statuses, status[f]) \/ exclude = "status"
    /\ filter.hasCve => Data[f].cves # {}

\* buildBaseWhere: the conditions of all dimensions but one.
BaseWhere(filter, exclude, f) ==
    /\ Allows(filter.projects, Data[f].project) \/ exclude = "project"
    /\ Allows(filter.severities, Data[f].severity) \/ exclude = "severity"
    /\ Allows(filter.statuses, status[f]) \/ exclude = "status"
    /\ filter.hasCve => Data[f].cves # {} \/ exclude = "has_cve"

\* parseFindingsFilter: for a user of no project it stops where it has read the
\* project asked for, but none of the other conditions.
Parsed(filter) ==
    IF filter.empty THEN [filter EXCEPT !.severities = {}, !.statuses = {}, !.hasCve = FALSE]
    ELSE filter

Matching(filter) == {f \in present : BaseWhere(filter, "", f)}

\* Facets: the count on the chip of a value, a query for each dimension.
Value(dimension, f) ==
    CASE dimension = "severity" -> Data[f].severity
      [] dimension = "status"   -> status[f]
      [] dimension = "project"  -> Data[f].project
Facet(filter, dimension, value) ==
    Cardinality({f \in present : BaseWhere(filter, dimension, f) /\ Value(dimension, f) = value})
EnrichmentFacet(filter) ==
    Cardinality({f \in present : BaseWhere(filter, "has_cve", f) /\ Data[f].cves # {}})

-----------------------------------------------------------------------------
(* Findings change *)

Moved(f) ==
    /\ moves < MaxMoves /\ moves' = moves + 1
    /\ page' = IF page.at = "paging" THEN [page EXCEPT !.moved = @ \union {f}] ELSE page

\* A scan stores a finding; one that another scan has stored before may have
\* been seen after it, for first_seen is older than the transaction.
NewFinding(f) ==
    /\ f \notin present
    /\ present' = present \union {f}
    /\ UNCHANGED status
    /\ Moved(f)

ChangeStatus(f) ==
    /\ f \in present
    /\ \E s \in Statuses \ {status[f]} : status' = [status EXCEPT ![f] = s]
    /\ UNCHANGED present
    /\ Moved(f)

\* handleDeleteFinding.
DeleteFinding(f) ==
    /\ f \in present
    /\ present' = present \ {f}
    /\ UNCHANGED status
    /\ Moved(f)

-----------------------------------------------------------------------------
(* The pages of FindingsRepo.List *)

\* (x, f) before (y, g) in the given direction.
Precedes(x, f, y, g, dir) ==
    IF dir = "desc" THEN x > y \/ (x = y /\ f > g) ELSE x < y \/ (x = y /\ f < g)

Column(sort, f) == IF sort = "severity" THEN Data[f].severity ELSE Data[f].seen

\* Mutant: only first_seen is compared with the cursor.
AfterSeen(q, f) ==
    q.cursor # 0 => IF q.dir = "desc" THEN Data[f].seen < Data[q.cursor].seen
                    ELSE Data[f].seen > Data[q.cursor].seen

\* The condition of the cursor, which is (first_seen, id) for every sort.
AfterCursor(q, f) ==
    q.cursor # 0 => Precedes(Data[q.cursor].seen, q.cursor, Data[f].seen, f, q.dir)

\* The rows of a page: ORDER BY the sort column and id, LIMIT.
Rows(q) ==
    LET after == {f \in Matching(q.filter) : AfterCursor(q, f)}
        Place(f) == Cardinality({g \in after :
                       Precedes(Column(q.sort, g), g, Column(q.sort, f), f, q.dir)}) + 1
    IN  [k \in {n \in 1..BatchLimit : n <= Cardinality(after)} |-> CHOOSE f \in after : Place(f) = k]

\* handleListFindings: a user of no project gets an empty list.
StartList(filter, sort, dir) ==
    /\ page.at = "idle" /\ ~filter.empty
    /\ page' = [NoPage EXCEPT !.at = "paging", !.sort = sort, !.dir = dir, !.filter = filter,
                              !.total = Cardinality(Matching(filter)), !.first = Matching(filter)]
    /\ UNCHANGED <<present, status, moves>>

Prepare(format, filter, sort, dir, total) ==
    /\ page.at = "idle" /\ total <= MaxRows
    /\ page' = [NoPage EXCEPT !.at = "paging", !.format = format, !.sort = sort, !.dir = dir,
                  !.filter = Parsed(filter), !.total = total, !.first = Matching(Parsed(filter))]
    /\ UNCHANGED <<present, status, moves>>

\* prepareExport: the rows are counted, too many are refused; for a user of no
\* project only the count is left out, not the query.
PrepareExport(format, filter, sort, dir) ==
    Prepare(format, filter, sort, dir, IF filter.empty THEN 0 ELSE Cardinality(Matching(filter)))

\* handleHTML counts always.
PrepareHtml(filter, sort, dir) ==
    Prepare("html", filter, sort, dir, Cardinality(Matching(Parsed(filter))))

\* The cursor that the last finding of a page encodes.
CursorOf(rows, cursor) == IF rows = <<>> THEN cursor ELSE Last(rows)

\* What a page adds to a reader; nextCursor is empty when it is not full.
Shown(rows, sums) ==
    page' = [page EXCEPT
        !.lines = @ \o rows,
        !.sums = sums,
        !.cursor = CursorOf(rows, @),
        !.at = IF Len(rows) = BatchLimit THEN "paging" ELSE "done"]

Reads(formats) ==
    /\ page.at = "paging" /\ page.format \in formats
    /\ UNCHANGED <<present, status, moves>>

\* The client asks for the next page.
ListPage == Reads({"list"}) /\ Shown(Rows(page), page.sums)

\* The loops of handleCSV and handleNDJSON.
CsvBatch == Reads({"csv"}) /\ Shown(Rows(page), page.sums)

Plus(g, h) == [k \in DOMAIN g |-> g[k] + h[k]]

\* Mutant: the counts are those of the last batch.
TalliesBatch(sums, rows) ==
    [severity |-> Counts(Severity, rows), cve |-> Counts(CvesOf, rows),
     component |-> Counts(Component, rows)]

\* The counts of the workbook after a batch, which its sheets then show.
Tallied(sums, rows) ==
    [severity  |-> Plus(sums.severity, Counts(Severity, rows)),
     cve       |-> Plus(sums.cve, Counts(CvesOf, rows)),
     component |-> Plus(sums.component, Counts(Component, rows))]

\* The loop of handleXLSX, which counts as it goes.
XlsxBatch == Reads({"xlsx"}) /\ LET rows == Rows(page) IN Shown(rows, Tallied(page.sums, rows))

\* The report counts what has been collected.
BuildSummary(lines) == Counts(Severity, lines)
BuildTopCVEs(lines) == Counts(CvesOf, lines)
BuildComponents(lines) == Counts(NamedComponent, lines)

\* The loop of collectFindings.
HtmlBatch ==
    /\ Reads({"html"})
    /\ LET lines == page.lines \o Rows(page)
       IN Shown(Rows(page), [severity |-> BuildSummary(lines), cve |-> BuildTopCVEs(lines),
                             component |-> BuildComponents(lines)])

-----------------------------------------------------------------------------
(* Groups *)

Axes == {"cve", "component", "rule", "secret"}

\* A rule as ListGroups presents it: its id, and its name if it has one.
RuleKey(f) ==
    IF Data[f].name = <<>> THEN Data[f].rule
    ELSE Data[f].rule \o <<"blank", "dash", "blank">> \o Data[f].name

\* ListGroups: the keys of a finding on an axis.  A finding whose column is NULL
\* is in no group, and no condition of ListIDsByGroup holds of it.
GroupKeys(axis, f) ==
    CASE axis = "cve"       -> {<<c>> : c \in Data[f].cves}
      [] axis = "component" -> Component[f]
      [] axis = "rule"      -> {RuleKey(f)}
      [] axis = "secret"    -> IF ~Data[f].secret THEN {}
                               ELSE IF Data[f].print # "" THEN {<<Data[f].print>>}
                               ELSE {Data[f].rule \o <<":", Data[f].file>>}
GroupRows(axis, key) == {f \in present : key \in GroupKeys(axis, f)}

\* Mutant: the first @ divides component and version.
FirstAt(key) == CHOOSE n \in DOMAIN key : key[n] = "@" /\ \A m \in 1..n - 1 : key[m] # "@"

\* strings.LastIndex.
LastAt(key) == CHOOSE n \in DOMAIN key : key[n] = "@" /\ \A m \in DOMAIN key : m > n => key[m] # "@"

\* The dash of a rule's key may be at n.
DashAt(key, n) == n + 2 \in DOMAIN key /\ key[n] = "blank" /\ key[n + 1] = "dash" /\ key[n + 2] = "blank"

\* strings.Index: what is before the first dash, or all.
RuleOf(key) ==
    IF \E n \in DOMAIN key : DashAt(key, n)
    THEN SubSeq(key, 1, (CHOOSE n \in DOMAIN key :
                            DashAt(key, n) /\ \A m \in 1..n - 1 : ~DashAt(key, m)) - 1)
    ELSE key

\* The conditions of ListIDsByGroup.
InGroup(axis, key, f) ==
    CASE axis = "cve"       -> key[1] \in Data[f].cves
      [] axis = "component" -> /\ Data[f].component = SubSeq(key, 1, LastAt(key) - 1)
                               /\ Data[f].version = SubSeq(key, LastAt(key) + 1, Len(key))
      [] axis = "rule"      -> Data[f].rule = RuleOf(key)
      [] axis = "secret"    -> Data[f].print # "" /\ <<Data[f].print>> = key

\* resolveGroupIDs and ListIDsByGroup: the findings that a bulk action on the
\* group of that key takes; none if it is refused, for there are too many or
\* the key is empty (groupBulkRequest.validate).
GroupIds(axis, key) ==
    IF key = <<>> \/ Cardinality({f \in present : InGroup(axis, key, f)}) > BulkLimit THEN {}
    ELSE {f \in present : InGroup(axis, key, f)}

ListingNext ==
    \/ \E f \in Findings : NewFinding(f) \/ ChangeStatus(f) \/ DeleteFinding(f)
    \/ \E filter \in Filters, sort \in {"first_seen", "severity"}, dir \in {"asc", "desc"} :
          \/ StartList(filter, sort, dir)
          \/ \E format \in {"csv", "xlsx"} : PrepareExport(format, filter, sort, dir)
          \/ PrepareHtml(filter, sort, dir)
    \/ ListPage \/ CsvBatch \/ XlsxBatch \/ HtmlBatch

ListingSpec == ListingInit /\ [][ListingNext]_listingVars

-----------------------------------------------------------------------------
(* Properties *)

Times(f, lines) == Cardinality({k \in DOMAIN lines : lines[k] = f})
OnePage(q) == Len(q.lines) < BatchLimit

(* Who reads all pages, or an export, gets every finding once that matched    *)
(* when the first page was asked for and has not been changed since, although *)
(* others come and go and share their first_seen.  For any sort but           *)
(* first_seen this holds of a single page only: the cursor compares           *)
(* first_seen whatever the order is, so what follows is skipped or repeated.  *)
PagesAreComplete ==
    page.at = "done" /\ (page.sort = "first_seen" \/ OnePage(page)) =>
        /\ \A f \in page.first \ page.moved : Times(f, page.lines) = 1
        /\ \A f \in Findings : Times(f, page.lines) <= 1

(* What an export counts of severities, CVEs and components is what its rows  *)
(* say, and the total of the header X-Export-Total and of the summary, which  *)
(* is counted first, is their number when nothing has changed in between; not *)
(* for a user of no project, whose total is 0 while the rows are not.         *)
ExportAddsUp ==
    page.at = "done" /\ page.format \in {"xlsx", "html"} =>
        /\ page.sums.severity = Counts(Severity, page.lines)
        /\ page.sums.cve = Counts(CvesOf, page.lines)
        /\ page.sums.component = Counts(IF page.format = "html" THEN NamedComponent ELSE Component,
                                         page.lines)
        /\ page.moved = {} /\ page.sort = "first_seen" /\ page.total > 0 =>
              page.total = Len(page.lines)

(* The number on a chip is the total of the list that choosing the chip       *)
(* gives: a dimension is counted without its own filter, but with all others. *)
(* What readers page through has no part in it, so it is looked at without.   *)
ChipTellsTotal == page = NoPage =>
    \A filter \in {f \in Filters : ~f.empty}, g \in Findings :
        /\ Facet(filter, "severity", Data[g].severity)
             = Cardinality(Matching([filter EXCEPT !.severities = {Data[g].severity}]))
        /\ Facet(filter, "status", status[g])
             = Cardinality(Matching([filter EXCEPT !.statuses = {status[g]}]))
        /\ Facet(filter, "project", Data[g].project)
             = Cardinality(Matching([filter EXCEPT !.projects = {Data[g].project}]))
        /\ EnrichmentFacet(filter) = Cardinality(Matching([filter EXCEPT !.hasCve = TRUE]))

(* Numbers shown beside rows, those of an export and those on the chips, are  *)
(* the numbers of the rows.                                                   *)
CountsAreTrue == ExportAddsUp /\ ChipTellsTotal

(* A bulk action on a group takes the findings that are listed in it when no  *)
(* filter is set.  The exceptions are refusals, of a group that is too large  *)
(* or whose key is empty, and keys that are not taken apart as they were put  *)
(* together: a rule known under several names, or whose group has a rule with *)
(* a dash in or at the end of its id; a secret without a fingerprint or whose *)
(* fingerprint a finding of another kind has; an @ in the version.            *)
GroupActsOnItsRows == page = NoPage =>
    \A axis \in Axes, f \in present : \A key \in GroupKeys(axis, f) :
        \/ GroupIds(axis, key) = GroupRows(axis, key)
        \/ GroupIds(axis, key) = {} /\ (key = <<>> \/ Cardinality(GroupRows(axis, key)) > BulkLimit)
        \/ axis = "rule" /\ \/ \E g \in present : Data[g].rule = Data[f].rule /\ Data[g].name # Data[f].name
                            \/ \E g \in GroupRows(axis, key) : \E n \in DOMAIN Data[g].rule : DashAt(key, n)
        \/ axis = "secret" /\ (Data[f].print = ""
                               \/ \E g \in present : Data[g].print = Data[f].print /\ ~Data[g].secret)
        \/ axis = "component" /\ \E g \in present : "@" \in Range(Data[g].version)
=============================================================================
