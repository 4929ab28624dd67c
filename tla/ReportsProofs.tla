--------------------------- MODULE ReportsProofs ---------------------------
(***************************************************************************)
(* Proofs about Reports for every set of candidates, every size of the     *)
(* tables and of a page, and every greatest int.                           *)
(***************************************************************************)
EXTENDS Reports, FiniteSetTheorems, TLAPS

(* A table: finitely many rows, no two at the same place. *)
Ordered(rows) ==
  /\ rows \subseteq [key : 1..MaxRows, mine : BOOLEAN]
  /\ \A r, s \in rows : r.key = s.key => r = s
  /\ IsFiniteSet(rows)

-----------------------------------------------------------------------------
(* Ranks and pages. *)

(* The rows that a query selects are a table again, and not more than the *)
(* places there are.                                                       *)
LEMMA Selected ==
  ASSUME NEW rows, Ordered(rows)
  PROVE  /\ Ordered(JoinDomain(rows))
         /\ Cardinality(JoinDomain(rows)) \in 0..MaxRows
<1> DEFINE sel == JoinDomain(rows)
<1>1. sel \in SUBSET rows /\ IsFiniteSet(sel)
  BY FS_Subset DEF JoinDomain, Ordered
<1>2. Ordered(sel)
  BY <1>1 DEF Ordered
<1> DEFINE f == [r \in sel |-> r.key]
<1>3. f \in Injection(sel, 1..MaxRows)
  BY <1>2 DEF Injection, IsInjective, Ordered
<1>4. IsFiniteSet(1..MaxRows) /\ Cardinality(1..MaxRows) = MaxRows
  BY FS_Interval, ReportSizes
<1>5. Cardinality(sel) <= MaxRows /\ Cardinality(sel) \in Nat
  BY <1>1, <1>3, <1>4, FS_Injection, FS_CardinalityType
<1> QED
  BY <1>2, <1>5, ReportSizes

(* A row's rank is a number of the rows, and follows the order. *)
LEMMA RankOrder ==
  ASSUME NEW rows, Ordered(rows)
  PROVE  /\ Cardinality(rows) \in Nat
         /\ \A r \in rows : Rank(r, rows) \in 1..Cardinality(rows)
         /\ \A r, s \in rows : r.key < s.key => Rank(r, rows) < Rank(s, rows)
<1> DEFINE upto(r) == {s \in rows : s.key <= r.key}
<1>0. IsFiniteSet(rows) /\ Cardinality(rows) \in Nat /\ \A r \in rows : r.key \in Nat
  BY FS_CardinalityType DEF Ordered
<1>1. ASSUME NEW r \in rows
      PROVE  /\ IsFiniteSet(upto(r)) /\ upto(r) \in SUBSET rows
             /\ Cardinality(upto(r)) \in 1..Cardinality(rows)
  <2>1. upto(r) \in SUBSET rows
    OBVIOUS
  <2>2. IsFiniteSet(upto(r)) /\ Cardinality(upto(r)) <= Cardinality(rows)
    BY <1>0, <2>1, FS_Subset
  <2>3. r \in upto(r)
    BY <1>0
  <2>4. Cardinality(upto(r)) \in Nat /\ Cardinality(upto(r)) # 0
    BY <2>2, <2>3, FS_CardinalityType, FS_EmptySet
  <2> QED
    BY <1>0, <2>1, <2>2, <2>4
<1>2. ASSUME NEW r \in rows, NEW s \in rows, r.key < s.key
      PROVE  Cardinality(upto(r)) < Cardinality(upto(s))
  <2>1. upto(r) \in SUBSET upto(s)
    BY <1>0, <1>2
  <2>2. s \in upto(s) /\ s \notin upto(r)
    BY <1>0, <1>2
  <2>3. /\ Cardinality(upto(r)) <= Cardinality(upto(s))
        /\ Cardinality(upto(s)) # Cardinality(upto(r))
    BY <1>1, <2>1, <2>2, FS_Subset
  <2>4. Cardinality(upto(r)) \in Int /\ Cardinality(upto(s)) \in Int
    <3> HIDE DEF upto
    <3> QED
      BY <1>0, <1>1
  <2> QED
    BY <2>3, <2>4
<1> QED
  BY <1>0, <1>1, <1>2 DEF Rank

(* Ranks number the rows without a gap. *)
LEMMA RankBijection ==
  ASSUME NEW rows, Ordered(rows)
  PROVE  [r \in rows |-> Rank(r, rows)] \in Bijection(rows, 1..Cardinality(rows))
<1> DEFINE f == [r \in rows |-> Rank(r, rows)]
           N == Cardinality(rows)
<1>1. N \in Nat /\ f \in [rows -> 1..N]
  BY RankOrder
<1>2. ASSUME NEW r \in rows, NEW s \in rows, f[r] = f[s] PROVE r = s
  <2>1. Rank(r, rows) \in Int /\ Rank(s, rows) \in Int /\ Rank(r, rows) = Rank(s, rows)
    BY <1>2, RankOrder
  <2>2. ~(r.key < s.key) /\ ~(s.key < r.key)
    BY <2>1, RankOrder
  <2>3. r.key \in Int /\ s.key \in Int
    BY DEF Ordered
  <2>4. r.key = s.key
    BY <2>2, <2>3
  <2> QED
    BY <2>4 DEF Ordered
<1>3. f \in Injection(rows, 1..N)
  BY <1>1, <1>2 DEF Injection, IsInjective
<1>4. IsFiniteSet(1..N) /\ Cardinality(1..N) = N
  BY <1>1, FS_Interval
<1>5. f \in Surjection(rows, 1..N)
  BY <1>3, <1>4, FS_Injection
<1> QED
  BY <1>3, <1>5 DEF Bijection

(* A page is as long as was asked, or as long as what is left. *)
LEMMA PageLength ==
  ASSUME NEW rows, Ordered(rows), NEW limit \in Nat, NEW offset \in Nat
  PROVE  LET n == Cardinality(JoinDomain(rows))
             p == ResourceQuery(rows, limit, offset)
         IN  /\ IsFiniteSet(p) /\ Cardinality(p) \in 0..limit
             /\ offset + limit <= n => Cardinality(p) = limit
             /\ offset <= n /\ n < offset + limit => Cardinality(p) = n - offset
             /\ offset >= n => Cardinality(p) = 0
<1> DEFINE sel == JoinDomain(rows)
           n == Cardinality(sel)
           p == ResourceQuery(rows, limit, offset)
           f == [r \in sel |-> Rank(r, sel)]
           to == IF n < offset + limit THEN n ELSE offset + limit
           g == [r \in p |-> Rank(r, sel)]
<1>1. Ordered(sel) /\ n \in Nat
  BY Selected
<1>2. f \in Bijection(sel, 1..n)
  BY <1>1, RankBijection
<1>3. p = {r \in sel : Rank(r, sel) \in (offset + 1)..(offset + limit)}
  BY DEF ResourceQuery
<1>4. /\ p \in SUBSET sel /\ \A r \in p : f[r] = Rank(r, sel) /\ g[r] = f[r]
      /\ \A r \in p : f[r] \in (offset + 1)..to
  <2>1. \A r \in sel : f[r] \in 1..n
    BY <1>2 DEF Bijection, Injection
  <2> QED
    BY <1>1, <1>3, <2>1
<1>5. g \in Injection(p, (offset + 1)..to)
  BY <1>2, <1>4 DEF Bijection, Injection, IsInjective
<1>6. ASSUME NEW k \in (offset + 1)..to PROVE \E r \in p : g[r] = k
  <2>1. k \in 1..n /\ k \in (offset + 1)..(offset + limit)
    BY <1>1
  <2>2. PICK r \in sel : f[r] = k
    BY <1>2, <2>1 DEF Bijection, Surjection
  <2>3. r \in p
    BY <1>3, <2>1, <2>2
  <2> QED
    BY <1>4, <2>2, <2>3
<1>7. g \in Bijection(p, (offset + 1)..to)
  BY <1>5, <1>6 DEF Bijection, Injection, Surjection
<1>8. IsFiniteSet(p)
  BY <1>1, <1>4, FS_Subset DEF Ordered
<1>9. Cardinality((offset + 1)..to) = Cardinality(p)
  BY <1>7, <1>8, FS_Bijection DEF ExistsBijection
<1>10. Cardinality((offset + 1)..to) = IF offset + 1 > to THEN 0 ELSE to - offset
  <2>1. offset + 1 \in Int /\ to \in Int
    BY <1>1
  <2>2. Cardinality((offset + 1)..to)
          = IF offset + 1 > to THEN 0 ELSE to - (offset + 1) + 1
    BY <2>1, FS_Interval
  <2> QED
    BY <2>1, <2>2
<1> HIDE DEF p, n
<1>11. /\ Cardinality(p) \in 0..limit
       /\ offset + limit <= n => Cardinality(p) = limit
       /\ offset <= n /\ n < offset + limit => Cardinality(p) = n - offset
       /\ offset >= n => Cardinality(p) = 0
  BY <1>1, <1>9, <1>10
<1> QED
  BY <1>8, <1>11 DEF p, n

(* A row that is stored moves no other forward. *)
LEMMA RankGrows ==
  ASSUME NEW rows, NEW more, Ordered(rows), Ordered(more), rows \subseteq more,
         NEW r \in rows
  PROVE  Rank(r, rows) \in Nat /\ Rank(r, more) \in Nat /\ Rank(r, rows) <= Rank(r, more)
<1> DEFINE upto(S) == {s \in S : s.key <= r.key}
<1>1. upto(rows) \in SUBSET upto(more) /\ upto(more) \in SUBSET more
  OBVIOUS
<1>2. IsFiniteSet(upto(more)) /\ IsFiniteSet(upto(rows))
  BY <1>1, FS_Subset DEF Ordered
<1>3. Cardinality(upto(rows)) <= Cardinality(upto(more))
  BY <1>1, <1>2, FS_Subset
<1> QED
  BY <1>2, <1>3, FS_CardinalityType DEF Rank

-----------------------------------------------------------------------------
(* Numbers: remainders, and the offset of a page. *)

LEMMA SmallRemainder ==
  ASSUME NEW a \in Nat, NEW b \in Nat \ {0}, a < b
  PROVE  a % b = a
  OBVIOUS

LEMMA RemainderType ==
  ASSUME NEW a \in Int, NEW b \in Nat \ {0}
  PROVE  a % b \in 0..(b - 1)
  OBVIOUS

LEMMA WrapFacts ==
  ASSUME NEW x \in Nat
  PROVE  /\ NotNegative(Wrap(x)) \in Nat
         /\ x <= MaxPage => NotNegative(Wrap(x)) = x
<1> DEFINE b == 2 * (MaxPage + 1)
           a == x + MaxPage + 1
<1>1. b \in Nat \ {0} /\ a \in Nat /\ a \in Int /\ b = MaxPage + 1 + MaxPage + 1
  BY ReportSizes
<1>2. Wrap(x) = (a % b) - (MaxPage + 1)
  BY DEF Wrap
<1>3. a % b \in Int
  <2> HIDE DEF a, b
  <2> QED
    BY <1>1, RemainderType
<1>4. x <= MaxPage => a % b = a
  <2> SUFFICES ASSUME x <= MaxPage PROVE a % b = a
    OBVIOUS
  <2>1. a < b
    BY <1>1, ReportSizes
  <2> HIDE DEF a, b
  <2> QED
    BY <1>1, <2>1, SmallRemainder
<1> DEFINE m == a % b
<1>5. m \in Int /\ (x <= MaxPage => m = x + MaxPage + 1) /\ Wrap(x) = m - (MaxPage + 1)
  BY <1>2, <1>3, <1>4
<1> HIDE DEF m
<1> QED
  BY <1>5, ReportSizes DEF NotNegative

(* The number of rows before a page, before it wraps around. *)
LEMMA ProductType ==
  ASSUME NEW p \in Nat \ {0}, NEW q \in Nat
  PROVE  (p - 1) * q \in Nat
  OBVIOUS

-----------------------------------------------------------------------------
(* The inductive invariant. *)

(* An export that is under way has written as many lines as its offset     *)
(* says, and each row that it began with is written or still lies ahead.   *)
ExportInv ==
  Exporting =>
    LET sel == JoinDomain(table)
    IN  /\ step \in {"before", "page", "done", "failed"}
        /\ step = "before" => off = 0 /\ lines = 0
        /\ step = "page" =>
             /\ first \subseteq sel
             /\ \A r \in first : r \in file \/ Rank(r, sel) > off
             /\ lines = off /\ off <= Cardinality(sel)
        /\ step = "done" => first \subseteq file

(* A list has asked for a page of at least one row, and rows only come. *)
ListInv ==
  report = "list" =>
    /\ step \in {"before", "total", "rows", "done", "failed"}
    /\ step # "before" => page \in 1..MaxPage /\ per \in 1..PageSize
    /\ step = "rows" => total <= Cardinality(JoinDomain(table))
    /\ TotalIsReached

TableInv == TypeOK /\ IsFiniteSet(table)

(* In which count a state is counted; 0 when in none. *)
Place ==
  [absent |-> 0, queued |-> 2, working |-> 3, retryable |-> 4,
   completed |-> IF report = "job_metrics" THEN 5 ELSE 0,
   failed |-> IF report = "job_metrics" THEN 6 ELSE 0,
   dead |-> IF report = "job_metrics" THEN 6 ELSE 5]

(* While nothing has gone wrong, a candidate that the metrics began with   *)
(* has been counted or is in a class whose count is still to come; those   *)
(* counts are still empty.                                                 *)
MetricsInv ==
  Counting =>
    /\ step \in {"before", "count", "done", "failed"}
    /\ step = "before" => first = {} /\ at = 1
    /\ step = "count" => at \in 1..Len(Statements)
    /\ step = "done" => at = Len(Statements) + 1
    /\ first \subseteq Existing
    /\ \A i \in DOMAIN Statements : i >= at => counts[Statements[i]] = {}
    /\ step \in {"count", "done"} /\ ~missed =>
         \A c \in first : Place[state[c]] # 0 =>
           c \in Counted \/ Place[state[c]] >= at

IInv == TableInv /\ ExportInv /\ ListInv /\ MetricsInv

LEMMA TableOrdered == TableInv => Ordered(table)
  BY DEF TableInv, TypeOK, Ordered

(* A query selects rows of the job's project. *)
LEMMA OwnRows == TypeOK => JoinDomain(table) \subseteq [key : 1..MaxRows, mine : {TRUE}]
  BY DEF TypeOK, JoinDomain

LEMMA InitInv == Init => IInv
<1> SUFFICES ASSUME Init PROVE IInv
  OBVIOUS
<1> USE DEF Init, QueueInit
<1>1. TypeOK
  <2>1. state \in [Items -> ItemState] /\ tries \in [Items -> 0..MaxClaims]
    BY QueueLimits DEF ItemState
  <2>2. counts \in [DOMAIN Classes -> SUBSET Items] /\ missed \in BOOLEAN
    OBVIOUS
  <2>3. per \in 0..PageSize /\ page \in 0..MaxPage /\ total \in 0..MaxRows
    BY ReportSizes
  <2> QED
    BY <2>1, <2>2, <2>3 DEF TypeOK
<1>2. IsFiniteSet(table)
  BY FS_EmptySet
<1>3. ExportInv /\ ListInv
  BY DEF ExportInv, ListInv, TotalIsReached
<1>4. MetricsInv
  BY DEF MetricsInv, Classes, Statements, JobMetrics, EngineMetrics
<1> QED
  BY <1>1, <1>2, <1>3, <1>4 DEF IInv, TableInv

(* A row that is stored keeps the table a table. *)
LEMMA StoreTable ==
  ASSUME TableInv, Store
  PROVE  /\ table' \subseteq [key : 1..MaxRows, mine : BOOLEAN]
         /\ \A r, s \in table' : r.key = s.key => r = s
         /\ IsFiniteSet(table') /\ table \subseteq table'
         /\ Ordered(table') /\ Ordered(table)
<1>1. PICK k \in (1..MaxRows) \ Keys, mine \in BOOLEAN :
        table' = table \cup {[key |-> k, mine |-> mine]}
  BY DEF Store
<1>2. /\ table \subseteq [key : 1..MaxRows, mine : BOOLEAN]
      /\ \A r, s \in table : r.key = s.key => r = s
      /\ IsFiniteSet(table) /\ \A r \in table : r.key # k
  BY DEF TableInv, TypeOK, Keys
<1>3. IsFiniteSet(table')
  BY <1>1, <1>2, FS_AddElement
<1>4. table' \subseteq [key : 1..MaxRows, mine : BOOLEAN]
  BY <1>1, <1>2
<1>5. \A r, s \in table' : r.key = s.key => r = s
  BY <1>1, <1>2
<1> QED
  BY <1>1, <1>2, <1>3, <1>4, <1>5 DEF Ordered

(* Every step keeps the types and the finite table. *)
LEMMA TypeStep == TableInv /\ [Next]_vars => TableInv'
<1> SUFFICES ASSUME TableInv, [Next]_vars PROVE TableInv'
  OBVIOUS
<1> USE ReportSizes, QueueLimits
        DEF TableInv, TypeOK, metricVars, listVars, exportVars, queue
<1>1. CASE UNCHANGED vars
  BY <1>1 DEF vars
<1>2. CASE Work
  <2>1. PICK c \in Items : Insert(c) \/ Claim(c) \/ Retry(c) \/ Settle(c)
    BY <1>2 DEF Work, QueueNext
  <2>2. state' \in [Items -> ItemState] /\ tries' \in [Items -> 0..MaxClaims]
    BY <2>1 DEF Insert, Claim, Retry, Settle, ItemState, Ended
  <2> QED
    BY <1>2, <2>2 DEF Work
<1>3. CASE Store
  BY <1>3, StoreTable DEF Store
<1>4. CASE BeginMetrics
  BY <1>4 DEF BeginMetrics
<1>5. CASE Count
  <2>1. counts' \in [DOMAIN Classes -> SUBSET Items]
    BY <1>5 DEF Count
  <2>2. step' \in {"count", "done", "failed"}
    BY <1>5 DEF Count
  <2>3. missed' \in BOOLEAN
    BY <1>5 DEF Count
  <2>4. at' \in Nat
    BY <1>5 DEF Count
  <2>5. UNCHANGED <<state, tries, report, table, listVars, exportVars>>
    BY <1>5 DEF Count
  <2> QED
    BY <2>1, <2>2, <2>3, <2>4, <2>5
<1>6. CASE Ask
  <2>1. page' \in 0..MaxPage /\ per' \in 0..PageSize
    BY <1>6 DEF Ask
  <2> QED
    BY <1>6, <2>1 DEF Ask
<1>7. CASE ListTotal
  BY <1>7, Selected, TableOrdered DEF ListTotal
<1>8. CASE ListRows
  <2>1. ResourceQuery(table, per, Offset) \subseteq JoinDomain(table)
    BY DEF ResourceQuery
  <2>2. items' \subseteq [key : 1..MaxRows, mine : {TRUE}]
    BY <1>8, <2>1, OwnRows DEF ListRows
  <2> QED
    BY <1>8, <2>2 DEF ListRows
<1>9. CASE BeginExport
  BY <1>9 DEF BeginExport
<1>10. CASE ExportPage
  <2> DEFINE rows == ResourceQuery(table, PageSize, off)
  <2>1. rows \subseteq JoinDomain(table)
    BY DEF ResourceQuery
  <2>2. file' \subseteq [key : 1..MaxRows, mine : {TRUE}]
    BY <1>10, <2>1, OwnRows DEF ExportPage
  <2>3. IsFiniteSet(rows) /\ Cardinality(rows) \in Nat
    BY PageLength, TableOrdered, FS_CardinalityType
  <2>4. lines' \in Nat /\ off' \in Nat /\ step' \in {"page", "done"}
    BY <1>10, <2>3 DEF ExportPage, NextOffset
  <2> QED
    BY <1>10, <2>2, <2>4 DEF ExportPage
<1>11. CASE QueryFails
  BY <1>11 DEF QueryFails
<1> QED
  BY <1>1, <1>2, <1>3, <1>4, <1>5, <1>6, <1>7, <1>8, <1>9, <1>10, <1>11
     DEF Next, Read

-----------------------------------------------------------------------------
(* Exports. *)

LEMMA ExportStep == TableInv /\ ExportInv /\ [Next]_vars => ExportInv'
<1> SUFFICES ASSUME TableInv, ExportInv, [Next]_vars, Exporting' PROVE ExportInv'
  BY DEF ExportInv
<1> USE DEF metricVars, listVars, exportVars
<1> DEFINE sel == JoinDomain(table)
<1>0. /\ Ordered(table) /\ Ordered(sel) /\ Cardinality(sel) \in Nat
      /\ off \in Nat /\ lines \in Nat /\ PageSize \in Nat \ {0}
  <2>1. Ordered(table)
    BY TableOrdered
  <2>2. Ordered(sel) /\ Cardinality(sel) \in 0..MaxRows
    BY <2>1, Selected
  <2> QED
    BY <2>1, <2>2, ReportSizes DEF TableInv, TypeOK
<1>1. report' = report
  BY DEF Next, Read, vars, Work, Store, BeginMetrics, Count, Ask, ListTotal, ListRows,
         BeginExport, ExportPage, QueryFails
<1>2. Exporting /\ ~Counting /\ report # "list"
  BY <1>1 DEF Exporting, Counting
<1>3. CASE UNCHANGED vars
  BY <1>3 DEF vars, ExportInv, Exporting
<1>4. CASE Store
  <2>1. Ordered(table') /\ table \subseteq table'
    BY <1>4, StoreTable
  <2>2. /\ Ordered(JoinDomain(table')) /\ sel \subseteq JoinDomain(table')
        /\ IsFiniteSet(JoinDomain(table')) /\ sel \in SUBSET JoinDomain(table')
    BY <2>1, Selected DEF JoinDomain, Ordered
  <2>3. /\ Cardinality(sel) <= Cardinality(JoinDomain(table'))
        /\ Cardinality(JoinDomain(table')) \in Nat
    BY <2>2, FS_Subset, FS_CardinalityType
  <2>4. \A r \in sel : /\ Rank(r, sel) <= Rank(r, JoinDomain(table'))
                       /\ Rank(r, sel) \in Nat /\ Rank(r, JoinDomain(table')) \in Nat
    BY <1>0, <2>2, RankGrows
  <2>5. UNCHANGED <<step, off, lines, file, first>>
    BY <1>4 DEF Store
  <2>6. CASE step = "page"
    <3>1. first \subseteq JoinDomain(table')
      BY <1>2, <2>2, <2>6 DEF ExportInv
    <3>2. ASSUME NEW r \in first PROVE r \in file \/ Rank(r, JoinDomain(table')) > off
      BY <1>0, <1>2, <2>4, <2>6 DEF ExportInv
    <3>3. lines = off /\ off <= Cardinality(JoinDomain(table'))
      BY <1>0, <1>2, <2>3, <2>6 DEF ExportInv
    <3> QED
      BY <2>5, <2>6, <3>1, <3>2, <3>3 DEF ExportInv
  <2>7. CASE step # "page"
    BY <1>2, <2>5, <2>7 DEF ExportInv
  <2> QED
    BY <2>6, <2>7
<1>5. CASE BeginExport
  <2>1. \A r \in sel : Rank(r, sel) > 0
    BY <1>0, RankOrder
  <2> QED
    BY <1>0, <1>2, <1>5, <2>1 DEF BeginExport, ExportInv
<1>6. CASE ExportPage
  <2> DEFINE rows == ResourceQuery(table, PageSize, off)
             n == Cardinality(sel)
  <2>1. /\ step = "page" /\ file' = file \cup rows
        /\ lines' = lines + Cardinality(rows)
        /\ UNCHANGED <<table, first>>
        /\ IF Cardinality(rows) < PageSize
             THEN step' = "done" /\ UNCHANGED off
             ELSE UNCHANGED step /\ off' = off + PageSize
    BY <1>6 DEF ExportPage, NextOffset
  <2>2. /\ first \subseteq sel
        /\ \A r \in first : r \in file \/ Rank(r, sel) > off
        /\ lines = off /\ off <= n
    BY <1>2, <2>1 DEF ExportInv
  <2>3. /\ Cardinality(rows) \in 0..PageSize
        /\ off + PageSize <= n => Cardinality(rows) = PageSize
        /\ n < off + PageSize => Cardinality(rows) = n - off
    BY <1>0, <2>2, PageLength
  <2>4. \A r \in sel : Rank(r, sel) \in 1..n
    BY <1>0, RankOrder
  <2>5. \A r \in first : r \in file' \/ Rank(r, sel) > off + PageSize
    BY <1>0, <2>1, <2>2, <2>4 DEF ResourceQuery
  <2>6. CASE Cardinality(rows) < PageSize
    <3>1. n < off + PageSize
      BY <1>0, <2>3, <2>6
    <3>2. first \subseteq file'
      BY <1>0, <2>2, <2>4, <2>5, <3>1
    <3> QED
      BY <2>1, <2>6, <3>2 DEF ExportInv
  <2>7. CASE ~(Cardinality(rows) < PageSize)
    <3>1. Cardinality(rows) = PageSize /\ off + PageSize <= n
      BY <1>0, <2>3, <2>7
    <3> QED
      BY <1>0, <2>1, <2>2, <2>5, <2>7, <3>1 DEF ExportInv
  <2> QED
    BY <2>6, <2>7
<1>7. CASE QueryFails
  BY <1>7 DEF QueryFails, ExportInv
<1>8. CASE Count
  BY <1>2, <1>8 DEF Count, ExportInv
<1> QED
  BY <1>2, <1>3, <1>4, <1>5, <1>6, <1>7, <1>8
     DEF Next, Read, Work, BeginMetrics, Ask, ListTotal, ListRows

-----------------------------------------------------------------------------
(* Lists. *)

(* A page that is not full reaches the total, also when its offset has     *)
(* wrapped around: no table has more rows than an int can count.           *)
LEMMA PageReachesTotal ==
  ASSUME TableInv, page \in 1..MaxPage, per \in 1..PageSize,
         total <= Cardinality(JoinDomain(table)),
         Cardinality(ResourceQuery(table, per, Offset)) < per
  PROVE  (page - 1) * per + Cardinality(ResourceQuery(table, per, Offset)) >= total
<1> DEFINE x == (page - 1) * per
           n == Cardinality(JoinDomain(table))
           c == Cardinality(ResourceQuery(table, per, Offset))
<1>1. /\ page \in Nat \ {0} /\ per \in Nat /\ total \in Nat
      /\ MaxPage \in Nat /\ MaxRows <= MaxPage /\ MaxRows \in Nat
  BY ReportSizes DEF TableInv, TypeOK
<1>2. x \in Nat
  BY <1>1, ProductType
<1>3. Ordered(table) /\ n \in 0..MaxRows
  BY TableOrdered, Selected
<1>4. Offset \in Nat /\ (x <= MaxPage => Offset = x)
  <2> HIDE DEF x
  <2>1. Offset = NotNegative(Wrap(x))
    BY DEF Offset, x
  <2> QED
    BY <1>2, <2>1, WrapFacts
<1>5. /\ c \in 0..per
      /\ Offset + per <= n => c = per
      /\ Offset <= n /\ n < Offset + per => c = n - Offset
      /\ Offset >= n => c = 0
  BY <1>1, <1>3, <1>4, PageLength
<1> HIDE DEF x, n, c
<1>6. x + c >= total
  BY <1>1, <1>2, <1>3, <1>4, <1>5 DEF n, c
<1> QED
  BY <1>6 DEF x, c

LEMMA ListStep == TableInv /\ ListInv /\ [Next]_vars => ListInv'
<1> SUFFICES ASSUME TableInv, ListInv, [Next]_vars, report' = "list" PROVE ListInv'
  BY DEF ListInv
<1> USE DEF metricVars, listVars, exportVars
<1>1. report' = report /\ report = "list"
  BY DEF Next, Read, vars, Work, Store, BeginMetrics, Count, Ask, ListTotal, ListRows,
         BeginExport, ExportPage, QueryFails
<1>2. ~Counting /\ ~Exporting
  BY <1>1 DEF Exporting, Counting
<1>3. CASE UNCHANGED vars
  BY <1>3 DEF vars, ListInv, TotalIsReached
<1>4. CASE Store
  <2>1. Ordered(table') /\ table \subseteq table'
    BY <1>4, StoreTable
  <2>2. /\ JoinDomain(table) \in SUBSET JoinDomain(table')
        /\ IsFiniteSet(JoinDomain(table'))
    BY <2>1, Selected DEF JoinDomain, Ordered
  <2>3. /\ Cardinality(JoinDomain(table)) <= Cardinality(JoinDomain(table'))
        /\ Cardinality(JoinDomain(table)) \in Nat
        /\ Cardinality(JoinDomain(table')) \in Nat
    BY <2>2, FS_Subset, FS_CardinalityType
  <2>4. total \in Nat
    BY ReportSizes DEF TableInv, TypeOK
  <2>5. UNCHANGED <<step, per, page, total, items>>
    BY <1>4 DEF Store
  <2>6. TotalIsReached'
    BY <1>1, <2>5 DEF ListInv, TotalIsReached
  <2> QED
    BY <1>1, <2>3, <2>4, <2>5, <2>6 DEF ListInv
<1>5. CASE Ask
  <2>1. page' \in 1..MaxPage /\ per' \in 1..PageSize /\ step' = "total"
    BY <1>5, ReportSizes DEF Ask
  <2> QED
    BY <2>1 DEF ListInv, TotalIsReached
<1>6. CASE ListTotal
  <2>1. total' = Cardinality(JoinDomain(table')) /\ step' = "rows" /\ UNCHANGED <<page, per>>
    BY <1>6 DEF ListTotal
  <2>2. total' \in Nat
    BY <1>6, TableOrdered, Selected, ReportSizes DEF ListTotal
  <2>3. page \in 1..MaxPage /\ per \in 1..PageSize
    BY <1>1, <1>6 DEF ListInv, ListTotal
  <2> QED
    BY <2>1, <2>2, <2>3 DEF ListInv, TotalIsReached
<1>7. CASE ListRows
  <2>1. /\ page \in 1..MaxPage /\ per \in 1..PageSize
        /\ total <= Cardinality(JoinDomain(table))
    BY <1>1, <1>7 DEF ListInv, ListRows
  <2>2. /\ items' = ResourceQuery(table, per, Offset) /\ step' = "done"
        /\ UNCHANGED <<page, per, total>>
    BY <1>7 DEF ListRows
  <2>3. TotalIsReached'
    BY <2>1, <2>2, PageReachesTotal DEF TotalIsReached
  <2> QED
    BY <2>1, <2>2, <2>3 DEF ListInv
<1>8. CASE QueryFails
  BY <1>1, <1>8 DEF QueryFails, ListInv, TotalIsReached
<1>9. CASE Count
  BY <1>1, <1>9 DEF Count, ListInv
<1> QED
  BY <1>1, <1>2, <1>3, <1>4, <1>5, <1>6, <1>7, <1>8, <1>9
     DEF Next, Read, Work, BeginMetrics, BeginExport, ExportPage

-----------------------------------------------------------------------------
(* Metrics. *)

(* The states that a report counts, and the count that each is in. *)
LEMMA PlacesOf ==
  ASSUME Counting
  PROVE  /\ Len(Statements) \in Nat /\ DOMAIN Statements = 1..Len(Statements)
         /\ \A i \in 2..Len(Statements) :
              /\ Statements[i] \in DOMAIN Classes \ {"all"}
              /\ \A s \in ItemState : Place[s] = i <=> s \in Classes[Statements[i]]
         /\ \A i, j \in 1..Len(Statements) : Statements[i] = Statements[j] => i = j
         /\ \A s \in ItemState : Place[s] = 0 \/ Place[s] \in 2..Len(Statements)
         /\ Statements[1] = "all"
<1>0. /\ DOMAIN Classes = {"all", "queued", "processing", "retryable", "completed",
                           "failed", "dead"}
      /\ Classes["queued"] = {"queued"} /\ Classes["processing"] = {"working"}
      /\ Classes["retryable"] = {"retryable"} /\ Classes["completed"] = {"completed"}
      /\ Classes["failed"] = {"failed", "dead"} /\ Classes["dead"] = {"dead"}
  BY DEF Classes
<1> USE DEF ItemState, Ended
<1>1. CASE report = "job_metrics"
  <2>1. /\ Len(Statements) = 6 /\ DOMAIN Statements = 1..6
        /\ Statements[1] = "all" /\ Statements[2] = "queued"
        /\ Statements[3] = "processing" /\ Statements[4] = "retryable"
        /\ Statements[5] = "completed" /\ Statements[6] = "failed"
    BY <1>1 DEF Statements, JobMetrics
  <2>2. /\ Place["absent"] = 0 /\ Place["queued"] = 2 /\ Place["working"] = 3
        /\ Place["retryable"] = 4 /\ Place["completed"] = 5 /\ Place["failed"] = 6
        /\ Place["dead"] = 6
    BY <1>1 DEF Place
  <2>3. \A s \in ItemState : Place[s] = 0 \/ Place[s] \in 2..6
    BY <2>2
  <2>4. ASSUME NEW i \in 2..6
        PROVE  /\ Statements[i] \in DOMAIN Classes \ {"all"}
               /\ \A s \in ItemState : Place[s] = i <=> s \in Classes[Statements[i]]
    <3>1. i = 2 \/ i = 3 \/ i = 4 \/ i = 5 \/ i = 6
      OBVIOUS
    <3> QED
      BY <1>0, <2>1, <2>2, <3>1
  <2>5. \A i, j \in 1..6 : Statements[i] = Statements[j] => i = j
    BY <2>1
  <2> QED
    BY <2>1, <2>3, <2>4, <2>5
<1>2. CASE report = "engine_metrics"
  <2>1. /\ Len(Statements) = 5 /\ DOMAIN Statements = 1..5
        /\ Statements[1] = "all" /\ Statements[2] = "queued"
        /\ Statements[3] = "processing" /\ Statements[4] = "retryable"
        /\ Statements[5] = "dead"
    BY <1>2 DEF Statements, EngineMetrics
  <2>2. /\ Place["absent"] = 0 /\ Place["queued"] = 2 /\ Place["working"] = 3
        /\ Place["retryable"] = 4 /\ Place["completed"] = 0 /\ Place["failed"] = 0
        /\ Place["dead"] = 5
    BY <1>2 DEF Place
  <2>3. \A s \in ItemState : Place[s] = 0 \/ Place[s] \in 2..5
    BY <2>2
  <2>4. ASSUME NEW i \in 2..5
        PROVE  /\ Statements[i] \in DOMAIN Classes \ {"all"}
               /\ \A s \in ItemState : Place[s] = i <=> s \in Classes[Statements[i]]
    <3>1. i = 2 \/ i = 3 \/ i = 4 \/ i = 5
      OBVIOUS
    <3> QED
      BY <1>0, <2>1, <2>2, <3>1
  <2>5. \A i, j \in 1..5 : Statements[i] = Statements[j] => i = j
    BY <2>1
  <2> QED
    BY <2>1, <2>3, <2>4, <2>5
<1> QED
  BY <1>1, <1>2 DEF Counting

(* A candidate moves along the order of the counts, into a state that is   *)
(* not counted or, what the metrics call missed, back from a retry.        *)
LEMMA WorkMoves ==
  ASSUME TypeOK, Counting, QueueNext, NEW c \in Items, state[c] # "absent"
  PROVE  /\ state'[c] \in ItemState \ {"absent"}
         /\ \/ state[c] = "retryable" /\ state'[c] = "working"
            \/ Place[state'[c]] = 0
            \/ Place[state[c]] # 0 /\ Place[state'[c]] >= Place[state[c]]
<1>1. PICK d \in Items : Insert(d) \/ Claim(d) \/ Retry(d) \/ Settle(d)
  BY DEF QueueNext
<1>2. \/ state'[c] = state[c]
      \/ state[c] \in {"queued", "retryable", "working"} /\ state'[c] = "working"
      \/ state[c] = "working" /\ state'[c] \in {"retryable"} \cup Ended
  BY <1>1 DEF TypeOK, Insert, Claim, Retry, Settle
<1>3. state[c] \in ItemState
  BY DEF TypeOK
<1> QED
  BY <1>2, <1>3 DEF ItemState, Ended, Place, Counting

LEMMA MetricsStep == TableInv /\ MetricsInv /\ [Next]_vars => MetricsInv'
<1> SUFFICES ASSUME TableInv, MetricsInv, [Next]_vars, Counting' PROVE MetricsInv'
  BY DEF MetricsInv
<1> USE DEF metricVars, listVars, exportVars
<1>1. report' = report
  BY DEF Next, Read, vars, Work, Store, BeginMetrics, Count, Ask, ListTotal, ListRows,
         BeginExport, ExportPage, QueryFails
<1>2. Counting /\ report # "list" /\ ~Exporting
  BY <1>1 DEF Exporting, Counting
<1>3. /\ Statements' = Statements /\ Place' = Place /\ TypeOK /\ at \in Nat
      /\ \A c \in Items : state[c] \in ItemState
      /\ counts \in [DOMAIN Classes -> SUBSET Items]
  BY <1>1 DEF Statements, Place, TableInv, TypeOK
<1>4. CASE UNCHANGED vars
  BY <1>1, <1>3, <1>4 DEF vars, queue, MetricsInv, Existing, Counted, Counting
<1>5. CASE Work
  <2>1. /\ UNCHANGED <<step, at, counts, first>> /\ QueueNext /\ Answering
        /\ missed' = (missed \/ /\ step # "before"
                                /\ \E c \in Items : state[c] = "retryable"
                                                    /\ state'[c] = "working")
    BY <1>5 DEF Work
  <2>2. Counted' = Counted
    BY <2>1 DEF Counted
  <2>3. ASSUME NEW c \in first PROVE c \in Items /\ state[c] # "absent"
    BY <1>2 DEF MetricsInv, Existing
  <2>4. (first \subseteq Existing)'
    BY <1>2, <1>3, <2>1, <2>3, WorkMoves DEF Existing
  <2>5. ASSUME step = "count", ~missed', NEW c \in first, Place[state'[c]] # 0
        PROVE  c \in Counted \/ Place[state'[c]] >= at
    <3>1. ~missed /\ ~(state[c] = "retryable" /\ state'[c] = "working")
      BY <2>1, <2>3, <2>5
    <3>2. Place[state[c]] # 0 /\ Place[state'[c]] >= Place[state[c]]
      BY <1>2, <1>3, <2>1, <2>3, <2>5, <3>1, WorkMoves
    <3>3. c \in Counted \/ Place[state[c]] >= at
      BY <1>2, <2>5, <3>1, <3>2 DEF MetricsInv
    <3>4. Place[state[c]] \in Int /\ Place[state'[c]] \in Int
      BY <1>2, <1>3, <2>1, <2>3, PlacesOf, WorkMoves
    <3> QED
      BY <1>3, <3>2, <3>3, <3>4
  <2>6. step # "done" /\ step # "failed"
    BY <2>1 DEF Answering
  <2> QED
    BY <1>2, <1>3, <2>1, <2>2, <2>4, <2>5, <2>6 DEF MetricsInv
<1>6. CASE BeginMetrics
  <2>1. /\ step = "before" /\ step' = "count" /\ first' = Existing
        /\ UNCHANGED <<state, at, counts, missed>>
    BY <1>6 DEF BeginMetrics, queue
  <2>2. at = 1 /\ \A i \in DOMAIN Statements : i >= at => counts[Statements[i]] = {}
    BY <1>2, <2>1 DEF MetricsInv
  <2>3. 1 \in 1..Len(Statements)
    BY <1>2 DEF Counting, Statements, JobMetrics, EngineMetrics
  <2>4. ASSUME NEW c \in Existing, Place[state[c]] # 0 PROVE Place[state[c]] >= 1
    BY <1>2, <1>3, <2>4, PlacesOf DEF Existing
  <2>5. Existing' = Existing
    BY <2>1 DEF Existing
  <2> QED
    BY <1>3, <2>1, <2>2, <2>3, <2>4, <2>5 DEF MetricsInv
<1>7. CASE Count
  <2> DEFINE k == Statements[at]
             rows == {c \in Items : state[c] \in Classes[k]}
  <2>1. /\ step = "count" /\ at' = at + 1 /\ UNCHANGED <<state, first>>
        /\ at \in 1..Len(Statements)
    BY <1>2, <1>7 DEF Count, queue, MetricsInv
  <2>2. /\ step' \in {"count", "done", "failed"}
        /\ step' = "done" => at = Len(Statements)
        /\ step' = "count" => at # Len(Statements)
    BY <1>7 DEF Count
  <2>3. /\ step' = "count" => at' \in 1..Len(Statements)
        /\ step' = "done" => at' = Len(Statements) + 1
    <3>1. Len(Statements) \in Nat
      BY <1>2, PlacesOf
    <3>2. step' = "done" => at' = Len(Statements) + 1
      BY <2>1, <2>2
    <3>3. step' = "count" => at' \in 1..Len(Statements)
      BY <2>1, <2>2, <3>1
    <3> QED
      BY <3>2, <3>3
  <2>4. (first \subseteq Existing)'
    BY <1>2, <2>1 DEF MetricsInv, Existing
  <2>5. counts' = counts \/ counts' = [counts EXCEPT ![k] = rows]
    BY <1>7 DEF Count
  <2>6. ASSUME NEW i \in DOMAIN Statements, i >= at' PROVE counts'[Statements[i]] = {}
    <3>1. i \in 1..Len(Statements) /\ i > at /\ i >= at
      BY <1>2, <1>3, <2>1, <2>6, PlacesOf
    <3>2. Statements[i] # k /\ counts[Statements[i]] = {}
      BY <1>2, <2>1, <3>1, PlacesOf DEF MetricsInv
    <3>3. Statements[i] \in DOMAIN Classes
      BY <1>2, <2>1, <3>1, PlacesOf
    <3> QED
      BY <1>3, <2>5, <3>2, <3>3
  <2>7. ASSUME ~missed', NEW c \in first, Place[state[c]] # 0
        PROVE  c \in Counted' \/ Place[state[c]] >= at'
    <3>1. counts' = [counts EXCEPT ![k] = rows] /\ ~missed
      BY <1>7, <2>7 DEF Count
    <3>2. c \in Items /\ state[c] \in ItemState /\ (c \in Counted \/ Place[state[c]] >= at)
      BY <1>2, <1>3, <2>1, <2>7, <3>1 DEF MetricsInv, Existing
    <3>3. CASE c \in Counted
      <4>1. PICK m \in DOMAIN Classes \ {"all"} : c \in counts[m]
        BY <3>3 DEF Counted
      <4>2. counts[k] = {}
        BY <1>2, <1>3, <2>1, PlacesOf DEF MetricsInv
      <4>3. c \in counts'[m]
        BY <1>3, <3>1, <4>1, <4>2
      <4> QED
        BY <4>1, <4>3 DEF Counted
    <3>4. CASE Place[state[c]] = at
      <4>1. at \in 2..Len(Statements)
        BY <1>2, <2>1, <2>7, <3>2, <3>4, PlacesOf
      <4>2. k \in DOMAIN Classes \ {"all"} /\ c \in rows
        BY <1>2, <3>2, <3>4, <4>1, PlacesOf
      <4>3. c \in counts'[k]
        BY <1>3, <3>1, <4>2
      <4> QED
        BY <4>2, <4>3 DEF Counted
    <3>5. CASE Place[state[c]] >= at /\ Place[state[c]] # at
      <4>1. Place[state[c]] \in Int
        BY <1>2, <3>2, PlacesOf
      <4> QED
        BY <1>3, <2>1, <3>5, <4>1
    <3> QED
      BY <3>2, <3>3, <3>4, <3>5
  <2> QED
    BY <1>2, <1>3, <2>1, <2>2, <2>3, <2>4, <2>6, <2>7 DEF MetricsInv
<1> QED
  BY <1>2, <1>4, <1>5, <1>6, <1>7
     DEF Next, Read, Store, Ask, ListTotal, ListRows, BeginExport, ExportPage, QueryFails

(* Once the counts are over, the invariant is what the metrics promise. *)
LEMMA MetricsDone == TypeOK /\ MetricsInv => MetricsMissNothing
<1> SUFFICES ASSUME TypeOK, MetricsInv, Counting, step = "done", ~missed,
                    NEW c \in first, state[c] \in Countable
             PROVE  c \in Counted
  BY DEF MetricsMissNothing
<1>1. c \in Items /\ state[c] \in ItemState /\ at = Len(Statements) + 1
  BY DEF MetricsInv, Existing, TypeOK
<1>2. PICK i \in DOMAIN Statements \ {1} : state[c] \in Classes[Statements[i]]
  BY DEF Countable
<1>3. i \in 2..Len(Statements) /\ Place[state[c]] = i /\ Len(Statements) \in Nat
  BY <1>1, <1>2, PlacesOf
<1>4. Place[state[c]] # 0 /\ ~(Place[state[c]] >= at)
  BY <1>1, <1>3
<1> QED
  BY <1>4 DEF MetricsInv

-----------------------------------------------------------------------------
(* The invariant holds in every reachable state. *)
THEOREM Invariance == Spec => []IInv
<1>1. IInv /\ [Next]_vars => IInv'
  BY TypeStep, ExportStep, ListStep, MetricsStep DEF IInv
<1> QED
  BY <1>1, InitInv, PTL DEF Spec

(* A report never shows a row of another project, and no two rows share a  *)
(* place in the order that the pages follow: resourceQuery and its joins.  *)
THEOREM ReportsTyped == Spec => []TypeOK
<1>1. IInv => TypeOK
  BY DEF IInv, TableInv
<1> QED
  BY <1>1, Invariance, PTL

(* No candidate slips through GetJobRuntimeMetrics and metrics, however    *)
(* many there are and however the workers move them between the counts.    *)
THEOREM MetricsComplete == Spec => []MetricsMissNothing
<1>1. IInv => MetricsMissNothing
  BY MetricsDone DEF IInv, TableInv
<1> QED
  BY <1>1, Invariance, PTL

(* The total of a list is reached by its pages, for every page number,     *)
(* every length of a page and every width of an int that can count a table.*)
THEOREM PagesReachTotal == Spec => []TotalIsReached
<1>1. IInv => TotalIsReached
  BY DEF IInv, ListInv, TotalIsReached
<1> QED
  BY <1>1, Invariance, PTL

(* exportResource writes every row that was there when it began, wherever  *)
(* rows are stored meanwhile and however long its pages are, and as many   *)
(* lines as the table has rows at the last page.                           *)
THEOREM ExportsComplete == Spec => ExportComplete
<1>1. ASSUME IInv, IInv', [Next]_vars
      PROVE  [(Exporting /\ step' = "done") =>
                /\ first \subseteq file'
                /\ lines' = Cardinality(JoinDomain(table))]_vars
  <2> SUFFICES ASSUME Next, Exporting, step' = "done"
               PROVE  \/ UNCHANGED vars
                      \/ /\ first \subseteq file'
                         /\ lines' = Cardinality(JoinDomain(table))
    BY <1>1
  <2>1. ~Counting /\ report # "list"
    BY DEF Exporting, Counting
  <2>2. CASE ExportPage
    <3> DEFINE rows == ResourceQuery(table, PageSize, off)
               n == Cardinality(JoinDomain(table))
    <3>1. Ordered(table) /\ n \in 0..MaxRows /\ off \in Nat /\ PageSize \in Nat /\ MaxRows \in Nat
      BY <1>1, TableOrdered, Selected, ReportSizes DEF IInv, TableInv, TypeOK
    <3>2. step = "page" /\ Cardinality(rows) < PageSize /\ lines' = lines + Cardinality(rows)
      BY <2>2 DEF ExportPage
    <3>3. lines = off /\ off <= n
      BY <1>1, <3>2 DEF IInv, ExportInv
    <3>4. /\ off + PageSize <= n => Cardinality(rows) = PageSize
          /\ off <= n /\ n < off + PageSize => Cardinality(rows) = n - off
      BY <3>1, PageLength
    <3> HIDE DEF rows, n
    <3>5. lines' = n
      BY <3>1, <3>2, <3>3, <3>4
    <3>6. first' = first /\ Exporting'
      BY <2>2 DEF ExportPage, Exporting
    <3>7. first' \subseteq file'
      BY <1>1, <3>6 DEF IInv, ExportInv
    <3> QED
      BY <3>5, <3>6, <3>7 DEF n
  <2>3. CASE Store
    BY <2>3 DEF Store, Answering
  <2>4. CASE Count
    BY <1>1, <2>4 DEF Count, IInv, ExportInv
  <2> QED
    BY <2>1, <2>2, <2>3, <2>4
       DEF Next, Read, Work, BeginMetrics, Ask, ListTotal, ListRows, BeginExport, QueryFails
<1> QED
  BY <1>1, Invariance, PTL DEF Spec, ExportComplete

=============================================================================
