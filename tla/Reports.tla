------------------------------ MODULE Reports ------------------------------
(***************************************************************************)
(* The reports of the API: the metrics of a job and of the engine, the     *)
(* paged lists and the CSV exports.  Each is put together from several     *)
(* statements, without a transaction, while workers go on writing.         *)
(*                                                                         *)
(* A behaviour answers one request.  Metrics read the candidates, which    *)
(* are a WorkQueue; lists and exports read one of the resource tables,     *)
(* whose rows are inserted and updated in place, and never deleted.        *)
(***************************************************************************)
EXTENDS WorkQueue, Integers, Sequences, FiniteSets

CONSTANTS
  MaxRows,    \* bound: rows of the resource table, and places in its order
  PageSize,   \* rows of a page of an export (200), and the longest page asked
  DefaultPer, \* rows of a page for which no valid length is asked (50)
  MaxPage     \* the greatest int; page numbers go up to it

ASSUME ReportSizes ==
  /\ MaxRows \in Nat /\ PageSize \in Nat \ {0} /\ MaxPage \in Nat \ {0}
  /\ MaxRows <= MaxPage
  /\ DefaultPer \in 1..PageSize

VARIABLES
  report,  \* the request
  table,   \* the resource table; key is a row's place in the query's order
  step,    \* the statement the request is at, "done" or "failed"
  at,      \* metrics: the number of the count that is next
  counts,  \* the rows that each count has counted
  missed,  \* ghost: what may make the metrics miss a row has happened
  per, page, total, items,   \* a list: its parameters and its answer
  off, file, lines,          \* an export: its offset, the rows in the file,
                             \* and how many lines those are
  first    \* ghost: the rows there were when the request began

metricVars == <<at, counts, missed>>
listVars == <<per, page, total, items>>
exportVars == <<off, file, lines>>
vars == <<queue, report, table, step, metricVars, listVars, exportVars, first>>

Reported == {"job_metrics", "engine_metrics", "list", "export", "errors"}

(* The statements of each report, in their order. *)
Classes == [all |-> ItemState \ {"absent"}, queued |-> {"queued"},
            processing |-> {"working"}, retryable |-> {"retryable"},
            completed |-> {"completed"}, failed |-> {"failed", "dead"},
            dead |-> {"dead"}]

(* Deviation: the settled rows are counted before those in progress. *)
JobMetricsSettledFirst ==
  <<"all", "completed", "failed", "queued", "processing", "retryable">>
JobMetrics ==
  <<"all", "queued", "processing", "retryable", "completed", "failed">>
EngineMetrics == <<"all", "queued", "processing", "retryable", "dead">>

Statements == IF report = "job_metrics" THEN JobMetrics ELSE EngineMetrics
Counting == report \in {"job_metrics", "engine_metrics"}

(* Deviation: the rows of every project. *)
JoinAll(rows) == rows

(* Rows of the job's project (errors: of the job): the tables hold the     *)
(* rows of every project, and a list those of all jobs of the project.    *)
JoinDomain(rows) == {r \in rows : r.mine}

(* The number of a row in the answer of a query without LIMIT. *)
Rank(r, rows) == Cardinality({s \in rows : s.key <= r.key})

(* ORDER BY ... LIMIT limit OFFSET offset. *)
ResourceQuery(rows, limit, offset) ==
  LET sel == JoinDomain(rows)
  IN  {r \in sel : Rank(r, sel) \in (offset + 1)..(offset + limit)}

Keys == {r.key : r \in table}

Init ==
  /\ QueueInit
  /\ report \in Reported
  /\ table = {} /\ step = "before" /\ at = 1
  /\ counts = [k \in DOMAIN Classes |-> {}] /\ missed = FALSE
  /\ per = 0 /\ page = 0 /\ total = 0 /\ items = {}
  /\ off = 0 /\ file = {} /\ lines = 0 /\ first = {}

-----------------------------------------------------------------------------
(* The workers. *)

Answering == step \notin {"done", "failed"}

(* A row that waited for its retry is claimed between two statements: it  *)
(* moves against the order in which the classes are counted.              *)
Work ==
  /\ Counting /\ Answering
  /\ QueueNext
  /\ missed' = (missed \/ /\ step # "before"
                          /\ \E c \in Items : state[c] = "retryable"
                                              /\ state'[c] = "working")
  /\ UNCHANGED <<report, table, step, at, counts, listVars, exportVars, first>>

(* A row of any project is stored.  Ids are random, so it may come at any *)
(* place in the order by id; an error is the newest, and comes first.     *)
Store ==
  /\ ~Counting /\ Answering
  /\ \E k \in (1..MaxRows) \ Keys, mine \in BOOLEAN :
       /\ report = "errors" => \A r \in table : k < r.key
       /\ table' = table \cup {[key |-> k, mine |-> mine]}
  /\ UNCHANGED <<queue, report, step, metricVars, listVars, exportVars, first>>

-----------------------------------------------------------------------------
(* GetJobRuntimeMetrics and metrics. *)

Existing == {c \in Items : state[c] # "absent"}

BeginMetrics ==
  /\ Counting /\ step = "before"
  /\ step' = "count" /\ first' = Existing
  /\ UNCHANGED <<queue, report, table, metricVars, listVars, exportVars>>

(* One count.  When it fails the metrics of a job are left out of the  *)
(* answer, while those of the engine show a zero.                         *)
Count ==
  /\ step = "count"
  /\ LET k == Statements[at]
         next == IF at = Len(Statements) THEN "done" ELSE "count"
     IN  \/ /\ counts' = [counts EXCEPT
                 ![k] = {c \in Items : state[c] \in Classes[k]}]
            /\ step' = next /\ UNCHANGED missed
         \/ /\ step' = IF report = "job_metrics" THEN "failed" ELSE next
            /\ missed' = TRUE /\ UNCHANGED counts
  /\ at' = at + 1
  /\ UNCHANGED <<queue, report, table, listVars, exportVars, first>>

-----------------------------------------------------------------------------
(* job: one page of a list.  ListJobResource and CandidatesPage.          *)

(* Go's int wraps around; a negative offset is replaced by zero. *)
Wrap(n) == ((n + MaxPage + 1) % (2 * (MaxPage + 1))) - (MaxPage + 1)

NotNegative(n) == IF n < 0 THEN 0 ELSE n

(* Deviation: pages counted from zero. *)
OffsetFromZero == NotNegative(Wrap(page * per))
Offset == NotNegative(Wrap((page - 1) * per))

Ask ==
  /\ report = "list" /\ step = "before"
  /\ page' \in 1..MaxPage
  /\ \E v \in 0..(PageSize + 1) :
       per' = IF v \in 1..PageSize THEN v ELSE DefaultPer
  /\ step' = "total"
  /\ UNCHANGED <<queue, report, table, metricVars, total, items, exportVars,
                 first>>

ListTotal ==
  /\ report = "list" /\ step = "total"
  /\ total' = Cardinality(JoinDomain(table))
  /\ step' = "rows"
  /\ UNCHANGED <<queue, report, table, metricVars, per, page, items,
                 exportVars, first>>

ListRows ==
  /\ report = "list" /\ step = "rows"
  /\ items' = ResourceQuery(table, per, Offset)
  /\ step' = "done"
  /\ UNCHANGED <<queue, report, table, metricVars, per, page, total,
                 exportVars, first>>

-----------------------------------------------------------------------------
(* exportResource. *)

Exporting == report \in {"export", "errors"}

BeginExport ==
  /\ Exporting /\ step = "before"
  /\ step' = "page"
  /\ first' = JoinDomain(table)
  /\ UNCHANGED <<queue, report, table, metricVars, listVars, exportVars>>

(* Deviations: the next page starts one row late, or one row early. *)
NextOffsetLate == off + PageSize + 1
NextOffsetEarly == off + PageSize - 1
NextOffset == off + PageSize

(* One page is read and written; a page that is not full is the last. *)
ExportPage ==
  /\ Exporting /\ step = "page"
  /\ LET rows == ResourceQuery(table, PageSize, off)
     IN  /\ file' = file \cup rows
         /\ lines' = lines + Cardinality(rows)
         /\ IF Cardinality(rows) < PageSize
              THEN step' = "done" /\ UNCHANGED off
              ELSE UNCHANGED step /\ off' = NextOffset
  /\ UNCHANGED <<queue, report, table, metricVars, listVars, first>>

(* A query fails: an error is written into the file that has begun, or    *)
(* answered instead of a list.                                            *)
QueryFails ==
  /\ ~Counting /\ step \in {"total", "rows", "page"}
  /\ step' = "failed"
  /\ UNCHANGED <<queue, report, table, metricVars, listVars, exportVars, first>>

-----------------------------------------------------------------------------

Read ==
  \/ BeginMetrics \/ Count \/ Ask \/ ListTotal \/ ListRows
  \/ BeginExport \/ ExportPage \/ QueryFails

Next == Work \/ Store \/ Read

Spec == Init /\ [][Next]_vars

-----------------------------------------------------------------------------
(* Properties. *)

(* Every variable has its type, no two rows share a place, and a list or a *)
(* file shows no row of a project other than the job's.                   *)
TypeOK ==
  /\ state \in [Items -> ItemState] /\ tries \in [Items -> 0..MaxClaims]
  /\ report \in Reported
  /\ table \subseteq [key : 1..MaxRows, mine : BOOLEAN]
  /\ \A r, s \in table : r.key = s.key => r = s
  /\ step \in {"before", "count", "total", "rows", "page", "done", "failed"}
  /\ at \in Nat
  /\ counts \in [DOMAIN Classes -> SUBSET Items] /\ missed \in BOOLEAN
  /\ per \in 0..PageSize /\ page \in 0..MaxPage /\ total \in 0..MaxRows
  /\ off \in Nat /\ lines \in Nat
  /\ items \cup file \subseteq [key : 1..MaxRows, mine : {TRUE}]

Counted == UNION {counts[k] : k \in DOMAIN Classes \ {"all"}}
Countable ==
  UNION {Classes[Statements[i]] : i \in DOMAIN Statements \ {1}}

(* No candidate slips through the metrics: one that was there when the    *)
(* first count ran is counted in the class of a later one, wherever the   *)
(* workers move it meanwhile, if it ends in a class that is counted at    *)
(* all.  The order of the counts ensures it, except when a retry is       *)
(* claimed between two of them or a count fails.  Candidates move as in   *)
(* WorkQueue, which they do while leases cover the work: a worker past    *)
(* its lease that reopens an ended row is one more way to miss it.        *)
MetricsMissNothing ==
  (Counting /\ step = "done" /\ ~missed) =>
    {c \in first : state[c] \in Countable} \subseteq Counted

(* The total of a list is never more than its pages show: a page that is  *)
(* not full reaches up to the total, since the rows are counted before    *)
(* they are read, also when the offset has wrapped around.                *)
TotalIsReached ==
  (report = "list" /\ step = "done" /\ Cardinality(items) < per) =>
    (page - 1) * per + Cardinality(items) >= total

(* A file that was exported without an error holds every row that was in  *)
(* the table when the export began, although rows that are stored during  *)
(* it move others across the border of two pages; and it has as many      *)
(* lines as the table had rows when its last page was read: each row that *)
(* is written twice stands for one that was stored too late to be written. *)
ExportComplete ==
  [][(Exporting /\ step' = "done") =>
       /\ first \subseteq file'
       /\ lines' = Cardinality(JoinDomain(table))]_vars

=============================================================================
