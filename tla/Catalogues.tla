----------------------------- MODULE Catalogues -----------------------------
(***************************************************************************)
(* The loads of the catalogues that are published as archives: KEV and CWE *)
(* (kev/sync.go, cwe/sync.go: the whole file in one transaction), BDU and  *)
(* OSV (bdu/sync.go, osv/sync.go: batches, a transaction each; OSV has an  *)
(* archive per ecosystem).  The scheduler runs one load of a source at a   *)
(* time (module NvdSync); the sources share no table, so a behaviour is    *)
(* about one of them.                                                      *)
(***************************************************************************)
EXTENDS Integers, Sequences, FiniteSets, Functions

CONSTANTS
    Ids,          \* identifiers of entries
    Archives,     \* the archives that may be published
    Ecosystems,   \* osv: how many ecosystems, each with an archive
    BatchSize,    \* syncBatchSize (500 and 2000)
    MaxTries,     \* maxRetries (4)
    MaxPublished, \* bound: archives published after the first ones
    MaxFaults     \* bound: downloads, reads and transactions that fail

ASSUME CataloguesAssumption ==
    /\ Ecosystems \in Nat \ {0} /\ BatchSize \in Nat \ {0} /\ MaxTries \in Nat \ {0}
    /\ MaxPublished \in Nat /\ MaxFaults \in Nat
    /\ \A a \in Archives : a \in Seq([id : Ids, body : Nat])

VARIABLES
    source,      \* which catalogue this is
    feed,        \* feed[p]: the archive that is published now
    row,         \* row[i]: the row of the catalogue
    load,        \* the load: its step and its locals
    published, flaws

catalogueVars == <<source, feed, row, load, published, flaws>>

Parts == IF source = "osv" THEN 1..Ecosystems ELSE {1}
NoEntry == [body |-> 0, part |-> 0]

\* taken: the archives downloaded by the run; whole: those loaded to the end;
\* before: the rows when it began; hurt: something failed in it; lost: what
\* failed was the answer to a COMMIT that took effect.
NoLoad == [at |-> "idle", part |-> 0, tries |-> 0, pos |-> 0, batch |-> <<>>,
           taken |-> <<>>, whole |-> {}, before |-> [i \in Ids |-> NoEntry],
           hurt |-> FALSE, lost |-> FALSE]

CataloguesInit ==
    /\ source \in {"kev", "cwe", "bdu", "osv"}
    /\ feed \in [Parts -> Archives]
    /\ row = [i \in Ids |-> NoEntry]
    /\ load = NoLoad
    /\ published = 0
    /\ flaws = 0

Idle == load.at \in {"idle", "success", "error"}

Publish(p, a) ==
    /\ published < MaxPublished
    /\ feed' = [feed EXCEPT ![p] = a]
    /\ published' = published + 1
    /\ UNCHANGED <<source, row, load, flaws>>

-----------------------------------------------------------------------------
(* What the parsers keep of an archive: body 0 is an entry they refuse *)

\* How many of the places P there are up to n.
UpTo(P, n) == Cardinality({m \in P : m <= n})

\* The entries at the places P, in their order.
Kept(entries, P) ==
    [k \in 1..Cardinality(P) |-> entries[CHOOSE n \in P : UpTo(P, n) = k]]

ValidIn(entries) == {n \in DOMAIN entries : entries[n].body > 0}
Valid(entries) == Kept(entries, ValidIn(entries))

\* Mutant: parseKEV keeps every entry.
KeepsDuplicates(entries) == Valid(entries)

\* parseKEV: entries with a CVE, the first one of each.
KevRecords(entries) ==
    Kept(entries, {n \in ValidIn(entries) :
                      \A m \in ValidIn(entries) : m < n => entries[m].id # entries[n].id})

\* extractZIP and parseXML: weaknesses with a positive identifier.
CweRecords(entries) == Valid(entries)

-----------------------------------------------------------------------------
(* The run *)

\* A download of part p begins, or the load ends after the last part.
Turned(l) ==
    IF l.part < Cardinality(Parts)
    THEN [l EXCEPT !.at = "download", !.part = @ + 1, !.tries = 0, !.pos = 0, !.batch = <<>>]
    ELSE [l EXCEPT !.at = "success"]

Begin ==
    /\ Idle
    /\ load' = Turned([NoLoad EXCEPT !.before = row])
    /\ UNCHANGED <<source, feed, row, published, flaws>>

\* An error: OSVSyncer.Sync logs it and goes on with the next ecosystem, and
\* reports success in the end; the others return it.
Broken(l) == IF source = "osv" THEN Turned(l) ELSE [l EXCEPT !.at = "error"]

\* downloadWithRetry of kev, cwe, osv; BDU tries once.
Tries == IF source = "bdu" THEN 1 ELSE MaxTries

Download(name) ==
    /\ source = name /\ load.at = "download"
    /\ load' = [load EXCEPT !.at = "parse", !.taken = Append(@, feed[load.part])]
    /\ UNCHANGED <<source, feed, row, published, flaws>>

DownloadKev == Download("kev")
DownloadCwe == Download("cwe")
DownloadBdu == Download("bdu")
DownloadOsv == Download("osv")

\* A transient answer is tried again; any other status is an error at once.
DownloadFails(transient) ==
    /\ load.at = "download" /\ flaws < MaxFaults
    /\ flaws' = flaws + 1
    /\ load' = IF transient /\ load.tries + 1 < Tries
               THEN [load EXCEPT !.tries = @ + 1]
               ELSE Broken([load EXCEPT !.hurt = TRUE, !.taken = Append(@, <<>>)])
    /\ UNCHANGED <<source, feed, row, published>>

Entries == load.taken[load.part]

\* KEVSyncer.Sync: the file is parsed as a whole, no entry at all is an error.
ParseKev ==
    /\ source = "kev" /\ load.at = "parse"
    /\ LET records == KevRecords(Entries)
       IN load' = IF records = <<>> THEN Broken(load)
                  ELSE [load EXCEPT !.at = "upsert", !.batch = records, !.pos = Len(Entries)]
    /\ UNCHANGED <<source, feed, row, published, flaws>>

\* CWESyncer.Sync does the same.
ParseCwe ==
    /\ source = "cwe" /\ load.at = "parse"
    /\ LET records == CweRecords(Entries)
       IN load' = IF records = <<>> THEN Broken(load)
                  ELSE [load EXCEPT !.at = "upsert", !.batch = records, !.pos = Len(Entries)]
    /\ UNCHANGED <<source, feed, row, published, flaws>>

\* An entry joins the batch; a full batch is flushed.
Gathered(l) ==
    LET e     == Entries[l.pos + 1]
        batch == IF e.body > 0 THEN Append(l.batch, e) ELSE l.batch
    IN  [l EXCEPT !.pos = @ + 1, !.batch = batch,
                  !.at = IF Len(batch) >= BatchSize THEN "upsert" ELSE "parse"]

Ended(l) == Turned([l EXCEPT !.whole = @ \union {l.part}])

\* Mutant: what is left in the batch at the end is not flushed.
StopsAtEnd ==
    /\ source = "bdu" /\ load.at = "parse"
    /\ load' = IF load.pos < Len(Entries) THEN Gathered(load) ELSE Ended(load)
    /\ UNCHANGED <<source, feed, row, published, flaws>>

\* parseAndUpsert of BDU; at the end of the file the last batch is flushed.
ParseVul ==
    /\ source = "bdu" /\ load.at = "parse"
    /\ load' = IF load.pos < Len(Entries) THEN Gathered(load)
               ELSE IF load.batch # <<>> THEN [load EXCEPT !.at = "upsert"]
               ELSE Ended(load)
    /\ UNCHANGED <<source, feed, row, published, flaws>>

\* syncEcosystem of OSV, a file of the archive.
ParseAdvisory ==
    /\ source = "osv" /\ load.at = "parse"
    /\ load' = IF load.pos < Len(Entries) THEN Gathered(load)
               ELSE IF load.batch # <<>> THEN [load EXCEPT !.at = "upsert"]
               ELSE Ended(load)
    /\ UNCHANGED <<source, feed, row, published, flaws>>

\* The archive is not what its name says, or ends too early.
ParseFails ==
    /\ load.at = "parse" /\ flaws < MaxFaults
    /\ flaws' = flaws + 1
    /\ load' = Broken([load EXCEPT !.hurt = TRUE])
    /\ UNCHANGED <<source, feed, row, published>>

-----------------------------------------------------------------------------
(* The transactions *)

\* ON CONFLICT ... DO UPDATE: an entry takes the place of the row there is; of
\* several of one identifier, the last one does.
Overlaid(rows, entries, part) ==
    [i \in DOMAIN rows |->
        LET given == {n \in DOMAIN entries : entries[n].id = i}
            last  == CHOOSE n \in given : \A m \in given : m <= n
        IN  IF given = {} THEN rows[i] ELSE [body |-> entries[last].body, part |-> part]]

Repeats(batch) == \E m, n \in DOMAIN batch : m # n /\ batch[m].id = batch[n].id

\* The statement refuses to touch a row twice.  OSV's leaves alone a row that
\* is what it should become (WHERE ... IS DISTINCT FROM).
Refused ==
    \E m, n \in DOMAIN load.batch :
        LET e == load.batch[m]
        IN  /\ m < n /\ load.batch[n].id = e.id
            /\ source = "osv" => row[e.id] # [body |-> e.body, part |-> load.part]

Outcomes == {"stored", "failed", "unanswered"}

\* Mutant: the rows are written one by one, without a transaction.
UpsertsOneByOne(outcome) ==
    /\ load.at = "upsert"
    /\ outcome # "stored" => flaws < MaxFaults
    /\ flaws' = IF outcome = "stored" THEN flaws ELSE flaws + 1
    /\ row' = Overlaid(row, IF outcome # "stored" \/ Refused THEN SubSeq(load.batch, 1, 1)
                            ELSE load.batch, load.part)
    /\ load' = IF outcome # "stored" \/ Refused
               THEN Broken([load EXCEPT !.hurt = @ \/ outcome # "stored"])
               ELSE IF source \in {"kev", "cwe"} THEN Ended(load)
               ELSE [load EXCEPT !.at = "parse", !.batch = <<>>]
    /\ UNCHANGED <<source, feed, published>>

\* upsert, upsertBatch: staging table, INSERT ... SELECT, COMMIT, or nothing;
\* unless COMMIT took effect and its answer is lost, which is an error as well.
Upsert(outcome) ==
    /\ load.at = "upsert"
    /\ outcome # "stored" => flaws < MaxFaults
    /\ flaws' = IF outcome = "stored" THEN flaws ELSE flaws + 1
    /\ \/ /\ outcome = "failed" \/ Refused
          /\ outcome # "unanswered"
          /\ load' = Broken([load EXCEPT !.hurt = @ \/ outcome = "failed"])
          /\ UNCHANGED row
       \/ /\ outcome = "unanswered" /\ ~Refused
          /\ load' = Broken([load EXCEPT !.hurt = TRUE, !.lost = TRUE])
          /\ row' = Overlaid(row, load.batch, load.part)
       \/ /\ outcome = "stored" /\ ~Refused
          /\ load' = IF source \in {"kev", "cwe"} THEN Ended(load)
                     ELSE [load EXCEPT !.at = "parse", !.batch = <<>>]
          /\ row' = Overlaid(row, load.batch, load.part)
    /\ UNCHANGED <<source, feed, published>>

UpsertKev(outcome) == source = "kev" /\ Upsert(outcome)
UpsertCwe(outcome) == source = "cwe" /\ Upsert(outcome)
UpsertBdu(outcome) == source = "bdu" /\ Upsert(outcome)
UpsertOsv(outcome) == source = "osv" /\ Upsert(outcome)

\* The run is cancelled after four hours or at shutdown, or the process stops.
Interrupt ==
    /\ ~Idle /\ flaws < MaxFaults
    /\ flaws' = flaws + 1
    /\ load' = [load EXCEPT !.at = "error", !.hurt = TRUE]
    /\ UNCHANGED <<source, feed, row, published>>

CataloguesNext ==
    \/ \E p \in Parts, a \in Archives : Publish(p, a)
    \/ Begin
    \/ DownloadKev \/ DownloadCwe \/ DownloadBdu \/ DownloadOsv
    \/ \E transient \in BOOLEAN : DownloadFails(transient)
    \/ ParseKev \/ ParseCwe \/ ParseVul \/ ParseAdvisory \/ ParseFails
    \/ \E outcome \in Outcomes :
          UpsertKev(outcome) \/ UpsertCwe(outcome) \/ UpsertBdu(outcome) \/ UpsertOsv(outcome)
    \/ Interrupt

-----------------------------------------------------------------------------
(* Properties *)

\* The rows that the archives of this run could have left for identifier i.
Offered(i) ==
    UNION {{[body |-> e.body, part |-> p] : e \in {f \in Range(load.taken[p]) : f.id = i /\ f.body > 0}}
           : p \in DOMAIN load.taken}

(* sync_status says success only of a load that has stored every valid entry  *)
(* of the archives it read, none of them as it was in an older one, also when *)
(* the last batch is not full.  An OSV run is a success although ecosystems    *)
(* failed; and since a row has one ecosystem, an advisory of two of them is   *)
(* found under the one loaded last (the fallback of enrich.go looks for the   *)
(* ecosystem), while one of a single ecosystem is found there.                *)
SuccessIsComplete ==
    load.at = "success" =>
        /\ source # "osv" => load.whole = Parts
        /\ \A p \in load.whole : \A e \in Range(load.taken[p]) :
              e.body > 0 => row[e.id] \in Offered(e.id)

\* What one transaction of KEV or CWE stores.
Replacement == IF source = "kev" THEN KevRecords(Entries) ELSE CweRecords(Entries)

(* A load that fails leaves what a reader can live with: KEV and CWE as they  *)
(* were, or, when it failed only because COMMIT was not answered, replaced as *)
(* a whole; BDU with a number of whole batches of the new archive, in its     *)
(* order.                                                                     *)
FailedLoadIsPrefix ==
    load.at = "error" =>
        /\ source \in {"kev", "cwe"} =>
              row = IF load.lost THEN Overlaid(load.before, Replacement, 1) ELSE load.before
        /\ source = "bdu" =>
              LET valid == IF load.taken = <<>> THEN <<>> ELSE Valid(Entries)
              IN  \E n \in 0..Len(valid) :
                     /\ n = Len(valid) \/ \E batches \in 0..n : n = batches * BatchSize
                     /\ row = Overlaid(load.before, SubSeq(valid, 1, n), 1)

(* A load in which nothing failed is refused only for what is in the archive: *)
(* nothing valid at all, or, since CWE and BDU do not remove duplicates as    *)
(* KEV does, an identifier twice in one transaction.                          *)
OnlyContentFails ==
    load.at = "error" /\ ~load.hurt =>
        \/ source \in {"kev", "cwe"} /\ Valid(Entries) = <<>>
        \/ source \in {"cwe", "bdu"} /\ Repeats(load.batch)

(* What the row of sync_status says of a load is what the catalogue shows of  *)
(* it: all of the archive after a success, whole transactions after a         *)
(* failure, and a failure only for a reason.                                  *)
ResultIsTrue == SuccessIsComplete /\ FailedLoadIsPrefix /\ OnlyContentFails
-----------------------------------------------------------------------------
CataloguesSpec == CataloguesInit /\ [][CataloguesNext]_catalogueVars
=============================================================================
