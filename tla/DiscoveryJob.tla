---------------------------- MODULE DiscoveryJob ----------------------------
(***************************************************************************)
(* One discovery job of the engine: its row in discovery_jobs, its rows in *)
(* candidates and candidate_dead_letters, the goroutines that execute      *)
(* worker.Run on it, the goroutine runDiscovery that starts them, and the  *)
(* API requests pause, resume, cancel and CSV import.                      *)
(*                                                                         *)
(* One step is one statement or one transaction of the store, because      *)
(* every store method commits before it returns.  The code between two     *)
(* store calls is local to its goroutine and belongs to the step before.   *)
(***************************************************************************)
EXTENDS Integers, FiniteSets

CONSTANTS
  Workers,              \* the goroutines that execute worker.Run on the job
  Candidates,           \* normalised URLs: the keys of the candidate rows
  NoCandidate,          \* a worker that holds no candidate
  Seeds,                \* the URLs createJob inserts
  Discoverable,         \* the URLs search, sitemap and robots may return
  CsvURLs,              \* the URLs a client may import as CSV
  Links,                \* the links of each page
  MaxPages, MaxURLs,    \* the job's budgets, clamped by createJob ...
  MaxDepth,
  MaxCandidatesPerPage,
  EngineMaxPages,       \* ... to the engine's own limits
  EngineMaxURLs,
  MaxFaults,            \* bound: how many store calls may fail
  LeaseCoversWork,      \* no candidate takes its live worker over 60 s
  MayCrash              \* the engine process may die during the run

ASSUME WorkersFinite == IsFiniteSet(Workers)
ASSUME CandidateSets ==
  /\ NoCandidate \notin Candidates
  /\ Seeds \subseteq Candidates
  /\ Discoverable \subseteq Candidates
  /\ CsvURLs \subseteq Candidates
  /\ Links \in [Candidates -> SUBSET Candidates]
ASSUME Limits ==
  /\ MaxPages \in Nat \ {0} /\ MaxURLs \in Nat \ {0}
  /\ MaxDepth \in Nat /\ MaxCandidatesPerPage \in Nat \ {0}
  /\ EngineMaxPages \in Nat /\ EngineMaxPages >= MaxPages
  /\ EngineMaxURLs \in Nat /\ EngineMaxURLs >= MaxURLs
  /\ MaxFaults \in Nat
ASSUME Environment == LeaseCoversWork \in BOOLEAN /\ MayCrash \in BOOLEAN

VARIABLES
  job,        \* discovery_jobs.status
  urls,       \* discovery_jobs.processed_urls
  pgs,        \* discovery_jobs.processed_pages
  status,     \* candidates.status, "absent" while there is no row
  attempts,   \* candidates.attempt_count
  depth,      \* candidates.depth
  ripe,       \* the rows with next_attempt_at (when processing, lease_until) past
  dead,       \* candidate_dead_letters.attempts, 0 while there is no row
  pc,         \* the store call each worker makes next
  cand,       \* the candidate id each worker works on
  seen,       \* the attempt_count its ScheduleRetry has read
  todo,       \* the links it still has to insert
  pages,      \* its local counter pages
  claims,     \* its local counter processed
  known,      \* the workers that have read the job's limits
  disp,       \* progress of createJob and runDiscovery
  ctxDone,    \* the job's context is cancelled
  cancelling, \* a cancel request is between cancel() and SetJobStatus
  asking,     \* the status a pause or resume, its check passed, will set
  faults      \* store calls that have failed

jobVars == <<job, urls, pgs>>
rowVars == <<status, attempts, depth, ripe, dead>>
runVars == <<pc, cand, seen, todo, pages, claims, known>>
ctlVars == <<disp, ctxDone, cancelling, asking>>
vars == <<jobVars, rowVars, runVars, ctlVars, faults>>

(* ScheduleRetry gives up on the third attempt. *)
MaxAttempts == 3

Terminal == {"completed", "failed", "cancelled"}
JobStatus == {"absent", "queued", "running", "paused"} \cup Terminal
Open == {"new", "processing", "failed_retryable"}
Final == {"completed", "failed_final"}
CandidateStatus == {"absent"} \cup Open \cup Final

(* The worker holds a claimed candidate while it is at one of these calls. *)
HoldingPC == {"url_budget", "refuse", "rate_limit", "job_info", "probe",
              "page_budget", "fetch", "save_page", "complete", "fail",
              "retry_read", "retry_write"}
PC == {"idle", "loop", "claim", "links", "finish", "mark", "done"}
        \cup HoldingPC
Disp == {"none", "seeding", "spawned", "sources", "running", "over", "lost"}

Init ==
  /\ job = "absent" /\ urls = 0 /\ pgs = 0
  /\ status = [c \in Candidates |-> "absent"]
  /\ attempts = [c \in Candidates |-> 0]
  /\ depth = [c \in Candidates |-> 0]
  /\ ripe = {}
  /\ dead = [c \in Candidates |-> 0]
  /\ pc = [w \in Workers |-> "idle"]
  /\ cand = [w \in Workers |-> NoCandidate]
  /\ seen = [w \in Workers |-> 0]
  /\ todo = [w \in Workers |-> {}]
  /\ pages = [w \in Workers |-> 0]
  /\ claims = [w \in Workers |-> 0]
  /\ known = {}
  /\ disp = "none" /\ ctxDone = FALSE /\ cancelling = FALSE
  /\ asking = "none"
  /\ faults = 0

-----------------------------------------------------------------------------
(* Statements of the store. *)

(* Deviation: the update is not guarded by the current status. *)
SetJobStatusUnguarded(s) == job' = s

(* A terminal job status is never overwritten. *)
SetJobStatus(s) == job' = IF job \in Terminal THEN job ELSE s

(* Deviation: ON CONFLICT DO UPDATE puts a known URL back in the queue. *)
UpsertCandidateRequeues(c, d) ==
  /\ status' = [status EXCEPT ![c] = "new"]
  /\ depth' = [depth EXCEPT ![c] = d]
  /\ ripe' = ripe \cup {c}
  /\ UNCHANGED <<attempts, dead>>

(* INSERT ... ON CONFLICT DO NOTHING: a known URL keeps its row. *)
UpsertCandidateDepth(c, d) ==
  /\ IF status[c] = "absent"
       THEN /\ status' = [status EXCEPT ![c] = "new"]
            /\ depth' = [depth EXCEPT ![c] = d]
            /\ ripe' = ripe \cup {c}
       ELSE UNCHANGED <<status, depth, ripe>>
  /\ UNCHANGED <<attempts, dead>>

(* Deviation: the claim query does not look at the lease. *)
ClaimableAnyLease(c) ==
  status[c] \in Open /\ (c \in ripe \/ status[c] = "processing")

(* The rows the claim query selects from.  No code writes 'queued'. *)
Claimable(c) == status[c] \in Open /\ c \in ripe

(* ORDER BY priority DESC: a link has priority 50, every other source a  *)
(* higher one and depth 0.  Rows of one class are taken in any order.    *)
FirstClaimable(c) ==
  /\ Claimable(c)
  /\ depth[c] > 0 => \A d \in Candidates : Claimable(d) => depth[d] > 0

TakeRow(c) ==
  /\ status' = [status EXCEPT ![c] = "processing"]
  /\ attempts' = [attempts EXCEPT ![c] = @ + 1]
  /\ ripe' = ripe \ {c}
  /\ UNCHANGED <<depth, dead>>

(* The update is keyed by the row id alone: neither the row's status nor *)
(* its lease is compared with the caller's claim.                        *)
SetCandidateStatus(c, s) ==
  /\ status' = [status EXCEPT ![c] = s]
  /\ UNCHANGED <<attempts, depth, ripe, dead>>

(* Deviation: the third attempt is still retried. *)
ScheduleRetryOnceMore(c, n) ==
  /\ IF n > MaxAttempts
       THEN /\ status' = [status EXCEPT ![c] = "failed_final"]
            /\ dead' = [dead EXCEPT ![c] = n]
            /\ UNCHANGED ripe
       ELSE /\ status' = [status EXCEPT ![c] = "failed_retryable"]
            /\ ripe' = ripe \ {c}
            /\ UNCHANGED dead
  /\ UNCHANGED <<attempts, depth>>

(* The second half of ScheduleRetry and ScheduleRetryAfter, after both    *)
(* have read attempt_count = n.  A delay of zero is a row whose delay     *)
(* elapses at once.                                                       *)
ScheduleRetryWrite(c, n) ==
  /\ IF n >= MaxAttempts
       THEN /\ status' = [status EXCEPT ![c] = "failed_final"]
            /\ dead' = [dead EXCEPT ![c] = n]
            /\ UNCHANGED ripe
       ELSE /\ status' = [status EXCEPT ![c] = "failed_retryable"]
            /\ ripe' = ripe \ {c}
            /\ UNCHANGED dead
  /\ UNCHANGED <<attempts, depth>>

(* Deviations: a budget tested with <=, or without the job's status. *)
URLBudgetOneMore == urls <= MaxURLs /\ job \notin Terminal
PageBudgetAnyStatus == pgs < MaxPages

(* The WHERE clauses of ConsumeURLBudget and ConsumePageBudget. *)
URLBudgetLeft == urls < MaxURLs /\ job \notin Terminal
PageBudgetLeft == pgs < MaxPages /\ job \notin Terminal

(* Deviation: a row that waits for its retry is not counted. *)
OpenRowsButRetries == {c \in Candidates : status[c] \in {"new", "processing"}}

(* What FinishJobIfEmpty counts. *)
OpenRows == {c \in Candidates : status[c] \in Open}

-----------------------------------------------------------------------------
(* worker.Run.  With a cancelled context every store call fails, so each  *)
(* step below needs a live one; Abort is what a cancelled one leads to.   *)

At(w, l) == pc[w] = l /\ ~ctxDone
Goto(w, l) == pc' = [pc EXCEPT ![w] = l]

Holds(w, c) == pc[w] \in HoldingPC /\ cand[w] = c

(* The worker lets go of its candidate, in whatever state the row is. *)
Drop(w) ==
  /\ cand' = [cand EXCEPT ![w] = NoCandidate]
  /\ seen' = [seen EXCEPT ![w] = 0]

(* Deviation: the loop condition admits one round too many. *)
LimitExceeded(w) ==
  \/ pages[w] > (IF w \in known THEN MaxPages ELSE EngineMaxPages)
  \/ claims[w] > (IF w \in known THEN MaxURLs ELSE EngineMaxURLs)

(* The loop condition, negated.  Until the worker has read the job's      *)
(* limits it compares with the engine's.                                  *)
LimitReached(w) ==
  \/ pages[w] >= (IF w \in known THEN MaxPages ELSE EngineMaxPages)
  \/ claims[w] >= (IF w \in known THEN MaxURLs ELSE EngineMaxURLs)

(* The head of the loop.  A paused job keeps the worker here. *)
Loop(w) ==
  /\ At(w, "loop")
  /\ LimitReached(w) \/ job # "paused"
  /\ Goto(w, IF LimitReached(w) THEN "finish"
             ELSE IF job \in Terminal THEN "done" ELSE "claim")
  /\ UNCHANGED <<jobVars, rowVars, cand, seen, todo, pages, claims,
                 known, ctlVars, faults>>

ClaimCandidate(w) ==
  /\ At(w, "claim")
  /\ \E c \in Candidates :
       /\ FirstClaimable(c)
       /\ TakeRow(c)
       /\ cand' = [cand EXCEPT ![w] = c]
  /\ claims' = [claims EXCEPT ![w] = @ + 1]
  /\ Goto(w, "url_budget")
  /\ UNCHANGED <<jobVars, seen, todo, pages, known, ctlVars, faults>>

(* Deviations: a worker without a row to claim polls for one, or returns  *)
(* without FinishJobIfEmpty.                                              *)
ClaimNothingPolls(w) ==
  /\ At(w, "claim")
  /\ \A c \in Candidates : ~Claimable(c)
  /\ Goto(w, "loop")
  /\ UNCHANGED <<jobVars, rowVars, cand, seen, todo, pages, claims, known,
                 ctlVars, faults>>
ClaimNothingReturns(w) ==
  /\ At(w, "claim")
  /\ \A c \in Candidates : ~Claimable(c)
  /\ Goto(w, "done")
  /\ UNCHANGED <<jobVars, rowVars, cand, seen, todo, pages, claims, known,
                 ctlVars, faults>>

(* No row to claim is an error of ClaimCandidate, and ends the run. *)
ClaimNothing(w) ==
  /\ At(w, "claim")
  /\ \A c \in Candidates : ~Claimable(c)
  /\ Goto(w, "finish")
  /\ UNCHANGED <<jobVars, rowVars, cand, seen, todo, pages, claims,
                 known, ctlVars, faults>>

ConsumeURLBudget(w) ==
  /\ At(w, "url_budget")
  /\ IF URLBudgetLeft THEN urls' = urls + 1 /\ Goto(w, "rate_limit")
                      ELSE UNCHANGED urls /\ Goto(w, "refuse")
  /\ UNCHANGED <<job, pgs, rowVars, cand, seen, todo, pages, claims,
                 known, ctlVars, faults>>

(* A call that leaves the tables of this module alone: the rate limiter   *)
(* has let the worker through, the job's limits are read, or the page is  *)
(* stored.                                                                *)
PassThrough(w) ==
  /\ ~ctxDone
  /\ \/ pc[w] = "rate_limit" /\ Goto(w, "job_info") /\ UNCHANGED known
     \/ /\ pc[w] = "job_info" /\ Goto(w, "probe")
        /\ known' = known \cup {w}
     \/ pc[w] = "save_page" /\ Goto(w, "complete") /\ UNCHANGED known
  /\ UNCHANGED <<jobVars, rowVars, cand, seen, todo, pages, claims,
                 ctlVars, faults>>

(* EnsureDomain, EnsureHost, ProbeFresh, Probe and UpsertProbe.  A host   *)
(* that is inactive, a probe that fails, or active_probe switched off     *)
(* completes the candidate.                                               *)
ProbeHost(w) ==
  /\ At(w, "probe")
  /\ Goto(w, "page_budget") \/ Goto(w, "complete")
  /\ UNCHANGED <<jobVars, rowVars, cand, seen, todo, pages, claims,
                 known, ctlVars, faults>>

(* The crawl_pages test of the domain row counts the pages of every job   *)
(* of the project, so it may refuse whatever this job has used.           *)
ConsumePageBudget(w) ==
  /\ At(w, "page_budget")
  /\ \/ PageBudgetLeft /\ pgs' = pgs + 1 /\ Goto(w, "fetch")
     \/ UNCHANGED pgs /\ Goto(w, "fail")
  /\ UNCHANGED <<job, urls, rowVars, cand, seen, todo, pages, claims,
                 known, ctlVars, faults>>

(* Deviation: the depth test is off by one. *)
PageLinksTooDeep(c) ==
  {found \in SUBSET Links[c] :
     /\ Cardinality(found) <= MaxCandidatesPerPage
     /\ depth[c] > MaxDepth => found = {}}

(* The links to insert are the first MaxCandidatesPerPage of the page,    *)
(* those in scope, and none when the target does not match, the routing   *)
(* does not deep-crawl or the page is at the maximal depth.               *)
PageLinks(c) ==
  {found \in SUBSET Links[c] :
     /\ Cardinality(found) <= MaxCandidatesPerPage
     /\ depth[c] >= MaxDepth => found = {}}

(* The crawler, with the browser for a page that needs scripts and for an *)
(* error.  Fetch reports an HTTP status as an error only when it is 429   *)
(* or 5xx, and Decide retries those, as Run does every other error: its   *)
(* branch for a permanent HTTP error is never taken.                      *)
Fetch(w) ==
  /\ At(w, "fetch")
  /\ \/ /\ Goto(w, "save_page")
        /\ pages' = [pages EXCEPT ![w] = @ + 1]
        /\ \E found \in PageLinks(cand[w]) :
             todo' = [todo EXCEPT ![w] = found]
     \/ /\ Goto(w, "retry_read")
        /\ UNCHANGED <<pages, todo>>
  /\ UNCHANGED <<jobVars, rowVars, cand, seen, claims, known, ctlVars,
                 faults>>

(* The candidate is completed before its links are inserted. *)
AfterComplete(w) ==
  IF todo[w] = {} THEN Goto(w, "loop") /\ Drop(w)
                  ELSE Goto(w, "links") /\ UNCHANGED <<cand, seen>>

Complete(w) ==
  /\ At(w, "complete")
  /\ SetCandidateStatus(cand[w], "completed")
  /\ AfterComplete(w)
  /\ UNCHANGED <<jobVars, todo, pages, claims, known, ctlVars, faults>>

(* One link is dealt with; after the last one the loop starts again. *)
LinkDone(w, c) ==
  /\ todo' = [todo EXCEPT ![w] = @ \ {c}]
  /\ IF todo[w] = {c} THEN Goto(w, "loop") /\ Drop(w)
                      ELSE UNCHANGED <<pc, cand, seen>>

InsertLink(w) ==
  /\ At(w, "links")
  /\ \E c \in todo[w] :
       UpsertCandidateDepth(c, depth[cand[w]] + 1) /\ LinkDone(w, c)
  /\ UNCHANGED <<jobVars, pages, claims, known, ctlVars, faults>>

(* An exhausted page budget fails the candidate and the loop goes on; an  *)
(* exhausted URL budget ends the run.                                     *)
Fail(w) ==
  /\ ~ctxDone /\ pc[w] \in {"fail", "refuse"}
  /\ SetCandidateStatus(cand[w], "failed_final")
  /\ Goto(w, IF pc[w] = "fail" THEN "loop" ELSE "finish")
  /\ Drop(w)
  /\ UNCHANGED <<jobVars, todo, pages, claims, known, ctlVars, faults>>

ScheduleRetryRead(w) ==
  /\ At(w, "retry_read")
  /\ seen' = [seen EXCEPT ![w] = attempts[cand[w]]]
  /\ Goto(w, "retry_write")
  /\ UNCHANGED <<jobVars, rowVars, cand, todo, pages, claims, known,
                 ctlVars, faults>>

ScheduleRetry(w) ==
  /\ At(w, "retry_write")
  /\ ScheduleRetryWrite(cand[w], seen[w])
  /\ Goto(w, "loop")
  /\ Drop(w)
  /\ UNCHANGED <<jobVars, todo, pages, claims, known, ctlVars, faults>>

(* FinishJobIfEmpty counts the open rows ... *)
FinishCount(w) ==
  /\ At(w, "finish")
  /\ Goto(w, IF OpenRows = {} THEN "mark" ELSE "done")
  /\ UNCHANGED <<jobVars, rowVars, cand, seen, todo, pages, claims,
                 known, ctlVars, faults>>

(* ... and, in a statement of its own, completes the job. *)
FinishMark(w) ==
  /\ At(w, "mark")
  /\ SetJobStatus("completed")
  /\ Goto(w, "done")
  /\ UNCHANGED <<urls, pgs, rowVars, cand, seen, todo, pages, claims,
                 known, ctlVars, faults>>

(* Deviation: the loop goes on after an error of the context. *)
AbortContinues(w) ==
  /\ ctxDone /\ pc[w] \notin {"idle", "done"}
  /\ Goto(w, "loop")
  /\ Drop(w)
  /\ todo' = [todo EXCEPT ![w] = {}]
  /\ UNCHANGED <<jobVars, rowVars, pages, claims, known, ctlVars, faults>>

(* Every error of a cancelled context ends the run, the row untouched. *)
Abort(w) ==
  /\ ctxDone /\ pc[w] \notin {"idle", "done"}
  /\ Goto(w, "done")
  /\ Drop(w)
  /\ todo' = [todo EXCEPT ![w] = {}]
  /\ UNCHANGED <<jobVars, rowVars, pages, claims, known, ctlVars, faults>>

-----------------------------------------------------------------------------
(* Store calls that fail.                                                 *)

UseFault == faults < MaxFaults /\ faults' = faults + 1

(* Where Run goes when its next store call fails without effect.  The     *)
(* errors of the calls that settle a candidate, and of an insert of a     *)
(* link, are ignored.                                                     *)
OnError(l) ==
  CASE l \in {"loop", "url_budget", "rate_limit", "finish", "mark"} -> "done"
    [] l \in {"claim", "refuse"} -> "finish"
    [] l \in {"job_info", "probe", "page_budget", "save_page"} -> "retry_read"
    [] l \in {"fail", "retry_read", "retry_write"} -> "loop"

CallFails(w) ==
  /\ ~ctxDone /\ UseFault
  /\ \/ pc[w] = "complete" /\ AfterComplete(w) /\ UNCHANGED todo
     \/ pc[w] = "links" /\ \E c \in todo[w] : LinkDone(w, c)
     \/ /\ pc[w] \notin {"idle", "done", "fetch", "complete", "links"}
        /\ Goto(w, OnError(pc[w]))
        /\ IF OnError(pc[w]) = "retry_read" THEN UNCHANGED <<cand, seen>>
                                            ELSE Drop(w)
        /\ todo' = [todo EXCEPT ![w] = {}]
  /\ UNCHANGED <<jobVars, rowVars, pages, claims, known, ctlVars>>

(* The transaction committed and its answer was lost: the worker takes    *)
(* the error path although the claim, or the unit of budget, is taken.    *)
AnswerLost(w) ==
  /\ ~ctxDone /\ UseFault
  /\ \/ /\ pc[w] = "claim"
        /\ \E c \in Candidates : FirstClaimable(c) /\ TakeRow(c)
        /\ Goto(w, "finish")
        /\ UNCHANGED <<jobVars, cand, seen>>
     \/ /\ pc[w] = "url_budget" /\ URLBudgetLeft
        /\ urls' = urls + 1
        /\ Goto(w, "done") /\ Drop(w)
        /\ UNCHANGED <<job, pgs, rowVars>>
     \/ /\ pc[w] = "page_budget" /\ PageBudgetLeft
        /\ pgs' = pgs + 1
        /\ Goto(w, "retry_read")
        /\ UNCHANGED <<job, urls, rowVars, cand, seen>>
  /\ UNCHANGED <<todo, pages, claims, known, ctlVars>>

-----------------------------------------------------------------------------
(* createJob and runDiscovery. *)

CreateDiscoveryJob ==
  /\ disp = "none"
  /\ job' = "queued" /\ disp' = "seeding"
  /\ UNCHANGED <<urls, pgs, rowVars, runVars, ctxDone, cancelling, asking,
                 faults>>

Seed(c) ==
  /\ disp = "seeding" /\ c \in Seeds /\ status[c] = "absent"
  /\ UpsertCandidateDepth(c, 0)
  /\ UNCHANGED <<jobVars, runVars, ctlVars, faults>>

(* An invalid seed, or one that cannot be stored, fails the job.  When    *)
(* the request's context is gone that update fails too.                   *)
SeedRejected ==
  /\ disp = "seeding" /\ Seeds # {}
  /\ disp' = "over"
  /\ \/ SetJobStatus("failed") /\ UNCHANGED faults
     \/ UseFault /\ UNCHANGED job
  /\ UNCHANGED <<urls, pgs, rowVars, runVars, ctxDone, cancelling, asking>>

(* The cancel function is registered, the goroutine started and the job   *)
(* id answered: from here on a client can name the job.                   *)
Spawn ==
  /\ disp = "seeding"
  /\ \A c \in Seeds : status[c] # "absent"
  /\ disp' = "spawned"
  /\ UNCHANGED <<jobVars, rowVars, runVars, ctxDone, cancelling, asking,
                 faults>>

(* runDiscovery sets 'running' whatever the status is, and ignores an error. *)
StartRunning ==
  /\ disp = "spawned"
  /\ disp' = "sources"
  /\ \/ ~ctxDone /\ SetJobStatus("running") /\ UNCHANGED faults
     \/ ctxDone /\ UNCHANGED <<job, faults>>
     \/ UseFault /\ UNCHANGED job
  /\ UNCHANGED <<urls, pgs, rowVars, runVars, ctxDone, cancelling, asking>>

Discover(c) ==
  /\ disp = "sources" /\ ~ctxDone /\ c \in Discoverable /\ status[c] = "absent"
  /\ UpsertCandidateDepth(c, 0)
  /\ UNCHANGED <<jobVars, runVars, ctlVars, faults>>

RunWorkers ==
  /\ disp = "sources"
  /\ disp' = "running"
  /\ pc' = [w \in Workers |-> "loop"]
  /\ UNCHANGED <<jobVars, rowVars, cand, seen, todo, pages, claims,
                 known, ctxDone, cancelling, asking,
                 faults>>

-----------------------------------------------------------------------------
(* API requests on a job whose id the client knows, a crash, and time.    *)

IdKnown == disp \in {"spawned", "sources", "running", "lost"}

(* pause and resume read the status, and set it in a statement of their   *)
(* own.  Bound: one such request at a time.                               *)
AskPause ==
  /\ IdKnown /\ asking = "none" /\ job \notin Terminal
  /\ asking' = "paused"
  /\ UNCHANGED <<jobVars, rowVars, runVars, disp, ctxDone, cancelling, faults>>

AskResume ==
  /\ IdKnown /\ asking = "none" /\ job = "paused"
  /\ asking' = "running"
  /\ UNCHANGED <<jobVars, rowVars, runVars, disp, ctxDone, cancelling, faults>>

SetAsked ==
  /\ asking # "none"
  /\ asking' = "none"
  /\ SetJobStatus(asking)
  /\ UNCHANGED <<urls, pgs, rowVars, runVars, disp, ctxDone, cancelling, faults>>

(* cancel() of the registered context; after a crash none is registered.  *)
CancelContext ==
  /\ IdKnown /\ ~cancelling
  /\ cancelling' = TRUE
  /\ IF disp = "lost" THEN UNCHANGED ctxDone ELSE ctxDone' = TRUE
  /\ UNCHANGED <<jobVars, rowVars, runVars, disp, asking, faults>>

CancelStatus ==
  /\ cancelling
  /\ cancelling' = FALSE
  /\ SetJobStatus("cancelled")
  /\ UNCHANGED <<urls, pgs, rowVars, runVars, disp, ctxDone, asking, faults>>

(* The client that asked is gone: the context is cancelled, the status    *)
(* stays.                                                                 *)
CancelFails ==
  /\ cancelling /\ UseFault
  /\ cancelling' = FALSE
  /\ UNCHANGED <<jobVars, rowVars, runVars, disp, ctxDone, asking>>

(* No test of the job's status: a finished job accepts rows, too. *)
ImportCSV(c) ==
  /\ IdKnown /\ c \in CsvURLs /\ status[c] = "absent"
  /\ UpsertCandidateDepth(c, 0)
  /\ UNCHANGED <<jobVars, runVars, ctlVars, faults>>

(* The engine process dies (SIGTERM ends it as abruptly: the job's        *)
(* context is not derived from the signal's).  A new process serves the   *)
(* API again, and starts no worker for a job of the old one.              *)
Crash ==
  /\ MayCrash /\ disp \in {"seeding", "spawned", "sources", "running"}
  /\ disp' = IF IdKnown THEN "lost" ELSE "over"
  /\ cancelling' = FALSE /\ asking' = "none"
  /\ pc' = [w \in Workers |-> "done"]
  /\ cand' = [w \in Workers |-> NoCandidate]
  /\ seen' = [w \in Workers |-> 0]
  /\ todo' = [w \in Workers |-> {}]
  /\ UNCHANGED <<jobVars, rowVars, pages, claims, known, ctxDone, faults>>

(* The backoff of a row, or the lease on it, runs out. *)
Elapse(c) ==
  /\ status[c] \in {"failed_retryable", "processing"} /\ c \notin ripe
  /\ (LeaseCoversWork /\ status[c] = "processing")
        => \A w \in Workers : ~Holds(w, c)
  /\ ripe' = ripe \cup {c}
  /\ UNCHANGED <<jobVars, status, attempts, depth, dead, runVars, ctlVars,
                 faults>>

-----------------------------------------------------------------------------

(* What a worker does while its store answers. *)
Progress(w) ==
  \/ Loop(w) \/ ClaimCandidate(w) \/ ClaimNothing(w)
  \/ ConsumeURLBudget(w) \/ PassThrough(w) \/ ProbeHost(w)
  \/ ConsumePageBudget(w) \/ Fetch(w)
  \/ Complete(w) \/ InsertLink(w) \/ Fail(w)
  \/ ScheduleRetryRead(w) \/ ScheduleRetry(w)
  \/ FinishCount(w) \/ FinishMark(w) \/ Abort(w)

Faulty(w) == CallFails(w) \/ AnswerLost(w)

Dispatch ==
  \/ CreateDiscoveryJob \/ SeedRejected \/ Spawn \/ StartRunning
  \/ RunWorkers
  \/ \E c \in Candidates : Seed(c) \/ Discover(c)

Request ==
  \/ AskPause \/ AskResume \/ SetAsked \/ CancelContext \/ CancelStatus \/ CancelFails
  \/ \E c \in Candidates : ImportCSV(c)

Next ==
  \/ \E w \in Workers : Progress(w) \/ Faulty(w)
  \/ Dispatch
  \/ Request
  \/ Crash
  \/ \E c \in Candidates : Elapse(c)

Spec == Init /\ [][Next]_vars

(* A goroutine is scheduled, a request handler returns and time passes.   *)
(* Nothing makes a client send a request or a store call fail.            *)
Fairness ==
  /\ \A w \in Workers : WF_vars(Progress(w))
  /\ WF_vars(Dispatch)
  /\ WF_vars(CancelStatus) /\ WF_vars(SetAsked)
  /\ \A c \in Candidates : WF_vars(Elapse(c))

FairSpec == Spec /\ Fairness

-----------------------------------------------------------------------------
(* Properties. *)

(* Every variable has its type, and the local counters of worker.Run never *)
(* pass the limits its loop condition compares them with.                  *)
TypeOK ==
  /\ job \in JobStatus /\ urls \in Nat /\ pgs \in Nat
  /\ status \in [Candidates -> CandidateStatus]
  /\ attempts \in [Candidates -> Nat]
  /\ depth \in [Candidates -> Nat]
  /\ ripe \subseteq Candidates
  /\ dead \in [Candidates -> Nat]
  /\ pc \in [Workers -> PC]
  /\ cand \in [Workers -> Candidates \cup {NoCandidate}]
  /\ seen \in [Workers -> Nat]
  /\ todo \in [Workers -> SUBSET Candidates]
  /\ pages \in [Workers -> 0..EngineMaxPages]
  /\ claims \in [Workers -> 0..EngineMaxURLs]
  /\ known \subseteq Workers
  /\ disp \in Disp /\ ctxDone \in BOOLEAN /\ cancelling \in BOOLEAN
  /\ asking \in {"none", "paused", "running"}
  /\ faults \in 0..MaxFaults

(* No candidate lies deeper than max_depth, by whichever path of links it  *)
(* was first found, and what a worker has still to insert will not either. *)
DepthBounded ==
  /\ \A c \in Candidates : depth[c] <= MaxDepth
  /\ \A w \in Workers : todo[w] # {} => depth[cand[w]] < MaxDepth

(* However many workers race for it, the job's budget is never overdrawn,  *)
(* no page is paid for without a URL (ConsumeURLBudget and                 *)
(* ConsumePageBudget are conditional updates), and the limit of its depth  *)
(* holds as well.                                                          *)
BudgetsKept ==
  urls <= MaxURLs /\ pgs <= MaxPages /\ pgs <= urls /\ DepthBounded

(* completed, failed and cancelled are final: neither the start of         *)
(* runDiscovery, a late FinishJobIfEmpty nor a racing pause, resume or     *)
(* cancel revives a job (SetJobStatus).                                    *)
JobStatusFinal == [][(job \in Terminal) => job' = job]_vars

(* Once the job has ended, workers that are still on their way spend no    *)
(* more of its budget, hence fetch no page they have not paid for.         *)
NoSpendAfterEnd ==
  [][(job \in Terminal) => urls' = urls /\ pgs' = pgs]_vars

(* If no candidate takes its worker longer than the lease, a claimed       *)
(* candidate belongs to one worker and its row is processing until that    *)
(* worker settles it (FOR UPDATE SKIP LOCKED, lease_until).                *)
OneHolder ==
  LeaseCoversWork =>
    \A w \in Workers, c \in Candidates : Holds(w, c) =>
       /\ status[c] = "processing"
       /\ \A v \in Workers : Holds(v, c) => v = w

(* If no candidate takes its worker longer than the lease, completed and   *)
(* failed_final are final: no retry, re-discovery, CSV import or second    *)
(* worker puts the row back (SetCandidateStatus, UpsertCandidateDepth).    *)
SettledIsFinal ==
  [][LeaseCoversWork =>
       \A c \in Candidates : status[c] \in Final => status'[c] = status[c]]_vars

(* If no candidate takes its worker longer than the lease, a row waits for *)
(* a retry only before its third attempt, its dead letter records exactly  *)
(* the attempts of a row that failed for good, and every attempt beyond    *)
(* the third is owed to a store call that failed.                          *)
RetriesBounded ==
  LeaseCoversWork =>
    \A c \in Candidates :
      /\ status[c] = "failed_retryable" => attempts[c] < MaxAttempts
      /\ dead[c] # 0 => /\ status[c] = "failed_final"
                        /\ dead[c] = attempts[c] /\ dead[c] >= MaxAttempts
      /\ attempts[c] <= MaxAttempts + faults

(* The answer to a cancel is not taken back: once it has been given, the   *)
(* job has ended, whatever pause, resume, runDiscovery or FinishJobIfEmpty *)
(* does before or after; only a store call that failed, or a crash, leaves *)
(* a job whose context is cancelled without its final status.              *)
CancelRecorded ==
  (ctxDone /\ ~cancelling) => job \in Terminal \/ faults > 0 \/ disp = "lost"

(* What a client sees of a row, in the terms of WorkQueue: a row of        *)
(* candidates together with its row in candidate_dead_letters.             *)
Shown(c) ==
  CASE status[c] = "new" -> "queued"
    [] status[c] = "processing" -> "working"
    [] status[c] = "failed_retryable" -> "retryable"
    [] status[c] = "failed_final" -> IF dead[c] = 0 THEN "failed" ELSE "dead"
    [] OTHER -> status[c]

Queue == INSTANCE WorkQueue WITH
  Items <- Candidates,
  MaxClaims <- MaxAttempts + MaxFaults,
  state <- [c \in Candidates |-> Shown(c)],
  tries <- attempts

(* If no candidate takes its worker longer than the lease, the rows of the *)
(* job behave as a work queue: claims by several workers, retries in two   *)
(* statements, failing calls, a crash and a cancel are steps of WorkQueue  *)
(* on one item, or change nothing that a client sees.                      *)
RowsAreAQueue == Queue!QueueSpec

(* With one worker and no CSV import, a completed job has no open row,     *)
(* although FinishJobIfEmpty counts and completes in two statements.       *)
DrainedWhenCompleted ==
  job = "completed" => \A c \in Candidates : status[c] \notin Open

(* With one worker and no CSV import, a run that was not cancelled leaves  *)
(* its job unfinished only after a failed store call, with a row that      *)
(* waits for its retry, or with a limit used up.                           *)
AbandonedOnlyFor ==
  (/\ disp = "running" /\ ~ctxDone /\ job \notin Terminal
   /\ \A w \in Workers : pc[w] = "done")
  => \/ faults > 0
     \/ \E c \in Candidates : status[c] = "failed_retryable"
     \/ \E w \in Workers : LimitReached(w)

(* A worker that has entered its loop leaves it, unless the job is paused: *)
(* retries, new links and re-claimed leases cannot keep it going.          *)
RunEnds ==
  \A w \in Workers : pc[w] = "loop" ~> (pc[w] = "done" \/ job = "paused")

(* A cancelled context ends every worker, a paused one and one that        *)
(* runDiscovery has yet to start included.                                 *)
CancelStops == ctxDone ~> \A w \in Workers : pc[w] = "done"

(* A row that waits for its retry is claimed again, or its job has ended   *)
(* or is paused.                                                           *)
RetryHappens ==
  \A c \in Candidates :
    status[c] = "failed_retryable" ~>
      (status[c] # "failed_retryable" \/ job \in Terminal \cup {"paused"})

(* A row does not stay processing for ever once the worker that claimed it *)
(* is gone.                                                                *)
NotStuckProcessing ==
  \A c \in Candidates :
    status[c] = "processing" ~>
      (status[c] # "processing" \/ job \in Terminal \cup {"paused"})

(* completed is final, however long a candidate takes its worker.          *)
CompletedIsFinal ==
  [][\A c \in Candidates :
       status[c] = "completed" => status'[c] = "completed"]_vars

=============================================================================
