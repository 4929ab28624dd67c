------------------------- MODULE DiscoveryJobProofs -------------------------
(***************************************************************************)
(* Theorems about DiscoveryJob, for every number of workers, candidates,   *)
(* budgets and failing store calls.                                        *)
(***************************************************************************)
EXTENDS DiscoveryJob, FiniteSetTheorems, TLAPS

(* From the claim on and until the page is fetched, the local counter      *)
(* pages is still below the limit that let the worker into the loop.       *)
BeforePage == {"claim", "url_budget", "refuse", "rate_limit", "job_info",
               "probe", "page_budget", "fetch"}

(* What a worker's position says about its local variables. *)
LocalOK ==
  \A w \in Workers :
    /\ pc[w] \in HoldingPC \cup {"links"} => cand[w] \in Candidates
    /\ pc[w] = "claim" => claims[w] < EngineMaxURLs
    /\ pc[w] \in BeforePage => pages[w] < EngineMaxPages

TypeInv == TypeOK /\ LocalOK

(* Each step of a worker preserves the type invariant. *)
LEMMA TypeOfProgress ==
  ASSUME TypeInv, NEW w \in Workers, Progress(w)
  PROVE  TypeInv'
<1> USE Limits, CandidateSets
        DEF TypeInv, TypeOK, LocalOK, PC, HoldingPC, BeforePage, At, Goto,
            Drop, jobVars, rowVars, ctlVars
<1>1. CASE Loop(w)
  BY <1>1 DEF Loop, LimitReached
<1>2. CASE ClaimCandidate(w)
  BY <1>2 DEF ClaimCandidate, TakeRow, CandidateStatus, Open
<1>3. CASE ClaimNothing(w)
  BY <1>3 DEF ClaimNothing
<1>4. CASE ConsumeURLBudget(w)
  BY <1>4 DEF ConsumeURLBudget
<1>5. CASE PassThrough(w)
  BY <1>5 DEF PassThrough
<1>6. CASE ProbeHost(w)
  BY <1>6 DEF ProbeHost
<1>7. CASE ConsumePageBudget(w)
  BY <1>7 DEF ConsumePageBudget
<1>8. CASE Fetch(w)
  BY <1>8 DEF Fetch, PageLinks
<1>9. CASE Complete(w)
  BY <1>9 DEF Complete, AfterComplete, SetCandidateStatus, CandidateStatus, Final
<1>10. CASE InsertLink(w)
  BY <1>10 DEF InsertLink, LinkDone, UpsertCandidateDepth, CandidateStatus, Open
<1>11. CASE Fail(w)
  BY <1>11 DEF Fail, SetCandidateStatus, CandidateStatus, Final
<1>12. CASE ScheduleRetryRead(w)
  BY <1>12 DEF ScheduleRetryRead
<1>13. CASE ScheduleRetry(w)
  <2>1. CASE seen[w] >= MaxAttempts
    BY <1>13, <2>1 DEF ScheduleRetry, ScheduleRetryWrite, CandidateStatus, Final
  <2>2. CASE ~(seen[w] >= MaxAttempts)
    BY <1>13, <2>2 DEF ScheduleRetry, ScheduleRetryWrite, CandidateStatus, Open
  <2> QED
    BY <2>1, <2>2
<1>14. CASE FinishCount(w)
  BY <1>14 DEF FinishCount
<1>15. CASE FinishMark(w)
  BY <1>15 DEF FinishMark, SetJobStatus, JobStatus, Terminal
<1>16. CASE Abort(w)
  BY <1>16 DEF Abort
<1> QED
  BY <1>1, <1>2, <1>3, <1>4, <1>5, <1>6, <1>7, <1>8, <1>9, <1>10, <1>11,
     <1>12, <1>13, <1>14, <1>15, <1>16 DEF Progress

(* So does a store call that fails. *)
LEMMA TypeOfFaulty ==
  ASSUME TypeInv, NEW w \in Workers, Faulty(w)
  PROVE  TypeInv'
<1> USE Limits, CandidateSets
        DEF TypeInv, TypeOK, LocalOK, PC, HoldingPC, BeforePage, Goto,
            Drop, UseFault, jobVars, rowVars, ctlVars
<1>1. CASE CallFails(w)
  <2>1. CASE pc[w] \in {"complete", "links"}
    BY <1>1, <2>1 DEF CallFails, AfterComplete, LinkDone
  <2>2. CASE pc[w] \notin {"complete", "links"}
    <3>1. OnError(pc[w]) \in {"done", "finish", "retry_read", "loop"}
      BY <1>1, <2>2 DEF CallFails, OnError
    <3>2. OnError(pc[w]) = "retry_read" => cand[w] \in Candidates
      BY <1>1, <2>2 DEF CallFails, OnError
    <3> QED
      BY <1>1, <2>2, <3>1, <3>2 DEF CallFails
  <2> QED
    BY <2>1, <2>2
<1>2. CASE AnswerLost(w)
  <2>1. CASE pc[w] = "claim"
    BY <1>2, <2>1 DEF AnswerLost, TakeRow, CandidateStatus, Open
  <2>2. CASE pc[w] # "claim"
    BY <1>2, <2>2 DEF AnswerLost
  <2> QED
    BY <2>1, <2>2
<1> QED
  BY <1>1, <1>2 DEF Faulty

(* So do createJob, runDiscovery, the API requests, a crash and time. *)
LEMMA TypeOfOthers ==
  ASSUME TypeInv, \/ Dispatch \/ Request \/ Crash
                  \/ \E c \in Candidates : Elapse(c)
  PROVE  TypeInv'
<1> USE Limits, CandidateSets
        DEF TypeInv, TypeOK, LocalOK, PC, HoldingPC, BeforePage, UseFault,
            jobVars, rowVars, runVars, ctlVars
<1>1. CASE Dispatch
  <2>1. CASE \E c \in Candidates : Seed(c) \/ Discover(c)
    BY <2>1 DEF Seed, Discover, UpsertCandidateDepth, CandidateStatus, Open
  <2>2. CASE CreateDiscoveryJob \/ SeedRejected \/ Spawn \/ StartRunning
    BY <2>2 DEF CreateDiscoveryJob, SeedRejected, Spawn, StartRunning,
                SetJobStatus, JobStatus, Terminal, Disp
  <2>3. CASE RunWorkers
    BY <2>3 DEF RunWorkers, Disp
  <2> QED
    BY <1>1, <2>1, <2>2, <2>3 DEF Dispatch
<1>2. CASE Request
  <2>1. CASE \E c \in Candidates : ImportCSV(c)
    BY <2>1 DEF ImportCSV, UpsertCandidateDepth, CandidateStatus, Open
  <2>2. CASE AskPause \/ AskResume \/ SetAsked \/ CancelStatus
    BY <2>2 DEF AskPause, AskResume, SetAsked, CancelStatus, SetJobStatus,
                JobStatus, Terminal
  <2>3. CASE CancelContext
    BY <2>3 DEF CancelContext
  <2>4. CASE CancelFails
    <3>1. cancelling' \in BOOLEAN
      BY <2>4, Zenon DEF CancelFails
    <3>2. faults' \in 0..MaxFaults
      BY <2>4 DEF CancelFails
    <3> QED
      BY <2>4, <3>1, <3>2 DEF CancelFails
  <2> QED
    BY <1>2, <2>1, <2>2, <2>3, <2>4 DEF Request
<1>3. CASE Crash
  BY <1>3 DEF Crash, Disp
<1>4. CASE \E c \in Candidates : Elapse(c)
  BY <1>4 DEF Elapse
<1> QED
  BY <1>1, <1>2, <1>3, <1>4

LEMMA TypeOfInit == Init => TypeInv
<1> SUFFICES ASSUME Init PROVE TypeInv
  OBVIOUS
<1> USE Limits, CandidateSets DEF Init
<1>1. ctxDone \in BOOLEAN /\ cancelling \in BOOLEAN
  BY Zenon
<1>2. TypeOK
  BY <1>1 DEF TypeOK, PC, JobStatus, CandidateStatus, Disp
<1>3. LocalOK
  BY DEF LocalOK, HoldingPC, BeforePage
<1> QED
  BY <1>2, <1>3 DEF TypeInv

LEMMA TypeOfStep == TypeInv /\ [Next]_vars => TypeInv'
<1> SUFFICES ASSUME TypeInv, [Next]_vars PROVE TypeInv'
  OBVIOUS
<1>1. CASE Next
  BY <1>1, TypeOfProgress, TypeOfFaulty, TypeOfOthers DEF Next
<1>2. CASE UNCHANGED vars
  BY <1>2 DEF vars, jobVars, rowVars, runVars, ctlVars, TypeInv, TypeOK, LocalOK
<1> QED
  BY <1>1, <1>2

(* Type correctness, with the bounds on the local counters of worker.Run. *)
THEOREM TypeCorrect == Spec => []TypeOK
<1>1. Spec => []TypeInv
  BY TypeOfInit, TypeOfStep, PTL DEF Spec
<1>2. TypeInv => TypeOK
  BY DEF TypeInv
<1> QED
  BY <1>1, <1>2, PTL

-----------------------------------------------------------------------------
(* Budgets. *)

(* The workers that have spent a URL, and not yet a page, on their candidate. *)
PaidPC == {"rate_limit", "job_info", "probe", "page_budget"}
Paid == {w \in Workers : pc[w] \in PaidPC}

(* What one step may do to the budgets. *)
KeepsBudgets == urls' = urls /\ pgs' = pgs /\ Paid' \subseteq Paid
SpendsURL ==
  /\ URLBudgetLeft /\ urls' = urls + 1 /\ pgs' = pgs
  /\ \E w \in Workers : Paid' \subseteq Paid \cup {w}
SpendsPage ==
  /\ PageBudgetLeft /\ urls' = urls /\ pgs' = pgs + 1
  /\ \E w \in Paid : Paid' = Paid \ {w}

(* Only the two conditional updates of the store touch the budgets, each   *)
(* for one worker, and they move that worker in or out of Paid.            *)
LEMMA Spending ==
  ASSUME TypeInv, [Next]_vars
  PROVE  KeepsBudgets \/ SpendsURL \/ SpendsPage
<1> USE DEF TypeInv, TypeOK, PC, HoldingPC, Paid, PaidPC, At, Goto, jobVars, ctlVars
<1>1. ASSUME NEW w \in Workers, Progress(w)
      PROVE  KeepsBudgets \/ SpendsURL \/ SpendsPage
  <2>1. CASE ConsumeURLBudget(w)
    BY <2>1 DEF ConsumeURLBudget, KeepsBudgets, SpendsURL
  <2>2. CASE ConsumePageBudget(w)
    BY <2>2 DEF ConsumePageBudget, KeepsBudgets, SpendsPage
  <2>3. CASE PassThrough(w)
    BY <2>3 DEF PassThrough, KeepsBudgets
  <2>4. CASE Loop(w) \/ ClaimCandidate(w) \/ ClaimNothing(w) \/ ProbeHost(w)
             \/ Fetch(w) \/ FinishCount(w) \/ FinishMark(w) \/ Abort(w)
    BY <2>4 DEF Loop, ClaimCandidate, ClaimNothing, ProbeHost, Fetch,
                FinishCount, FinishMark, Abort, KeepsBudgets
  <2>5. CASE Complete(w) \/ InsertLink(w) \/ Fail(w)
             \/ ScheduleRetryRead(w) \/ ScheduleRetry(w)
    BY <2>5 DEF Complete, AfterComplete, InsertLink, LinkDone, Fail,
                ScheduleRetryRead, ScheduleRetry, KeepsBudgets
  <2> QED
    BY <1>1, <2>1, <2>2, <2>3, <2>4, <2>5 DEF Progress
<1>2. ASSUME NEW w \in Workers, Faulty(w)
      PROVE  KeepsBudgets \/ SpendsURL \/ SpendsPage
  <2>1. CASE CallFails(w)
    BY <2>1 DEF CallFails, AfterComplete, LinkDone, OnError, KeepsBudgets
  <2>2. CASE AnswerLost(w)
    BY <2>2 DEF AnswerLost, KeepsBudgets, SpendsURL, SpendsPage
  <2> QED
    BY <1>2, <2>1, <2>2 DEF Faulty
<1>3. CASE Dispatch
  BY <1>3 DEF Dispatch, CreateDiscoveryJob, SeedRejected, Spawn, StartRunning,
              RunWorkers, Seed, Discover, runVars, KeepsBudgets
<1>4. CASE Request
  BY <1>4 DEF Request, AskPause, AskResume, SetAsked, CancelContext,
              CancelStatus, CancelFails,
              ImportCSV, runVars, KeepsBudgets
<1>5. CASE Crash \/ \E c \in Candidates : Elapse(c)
  BY <1>5 DEF Crash, Elapse, runVars, KeepsBudgets
<1>6. CASE UNCHANGED vars
  BY <1>6 DEF vars, runVars, KeepsBudgets
<1> QED
  BY <1>1, <1>2, <1>3, <1>4, <1>5, <1>6 DEF Next

(* BudgetsKept is not inductive: that a page is spent only after a URL is  *)
(* a matter of counting the workers in between.                            *)
BudgetInv ==
  urls <= MaxURLs /\ pgs <= MaxPages /\ pgs + Cardinality(Paid) <= urls

LEMMA BudgetStep == TypeInv /\ BudgetInv /\ [Next]_vars => BudgetInv'
<1> SUFFICES ASSUME TypeInv, BudgetInv, [Next]_vars PROVE BudgetInv'
  OBVIOUS
<1>1. IsFiniteSet(Paid) /\ Cardinality(Paid) \in Nat
  BY WorkersFinite, FS_Subset, FS_CardinalityType DEF Paid
<1>2. Paid' \subseteq Workers /\ IsFiniteSet(Paid')
  BY WorkersFinite, FS_Subset DEF Paid
<1>3. Cardinality(Paid') \in Nat
  BY <1>2, FS_CardinalityType
<1> USE Limits DEF BudgetInv, TypeInv, TypeOK
<1>4. CASE KeepsBudgets
  <2>1. Cardinality(Paid') <= Cardinality(Paid)
    BY <1>1, <1>4, FS_Subset DEF KeepsBudgets
  <2> QED
    BY <1>1, <1>3, <1>4, <2>1 DEF KeepsBudgets
<1>5. CASE SpendsURL
  <2>1. PICK w \in Workers : Paid' \subseteq Paid \cup {w}
    BY <1>5 DEF SpendsURL
  <2>2. /\ IsFiniteSet(Paid \cup {w})
        /\ Cardinality(Paid \cup {w}) \in {Cardinality(Paid), Cardinality(Paid) + 1}
    BY <1>1, FS_AddElement
  <2>3. Cardinality(Paid') <= Cardinality(Paid \cup {w})
    BY <2>1, <2>2, FS_Subset
  <2> QED
    BY <1>1, <1>3, <1>5, <2>2, <2>3 DEF SpendsURL, URLBudgetLeft
<1>6. CASE SpendsPage
  <2>1. PICK w \in Paid : Paid' = Paid \ {w}
    BY <1>6 DEF SpendsPage
  <2>2. Cardinality(Paid') = Cardinality(Paid) - 1
    BY <1>1, <2>1, FS_RemoveElement
  <2> QED
    BY <1>1, <1>3, <1>6, <2>2 DEF SpendsPage, PageBudgetLeft
<1> QED
  BY <1>4, <1>5, <1>6, Spending

(* The counters of a job stay within its budgets. *)
SpendingBounded == urls <= MaxURLs /\ pgs <= MaxPages /\ pgs <= urls

LEMMA BoundedSpending == Spec => []SpendingBounded
<1>1. Init => BudgetInv
  <2> SUFFICES ASSUME Init PROVE BudgetInv
    OBVIOUS
  <2>1. Paid = {}
    BY DEF Init, Paid, PaidPC
  <2> QED
    BY <2>1, Limits, FS_EmptySet DEF Init, BudgetInv
<1>2. TypeInv /\ BudgetInv => SpendingBounded
  <2>1. Cardinality(Paid) \in Nat
    BY WorkersFinite, FS_Subset, FS_CardinalityType DEF Paid
  <2> QED
    BY <2>1, Limits DEF BudgetInv, SpendingBounded, TypeInv, TypeOK
<1> QED
  BY <1>1, <1>2, TypeOfInit, TypeOfStep, BudgetStep, PTL DEF Spec

(* A job that has ended spends nothing any more. *)
THEOREM EndedJobSpendsNothing == Spec => NoSpendAfterEnd
<1>1. TypeInv /\ [Next]_vars =>
        [(job \in Terminal) => urls' = urls /\ pgs' = pgs]_vars
  BY Spending DEF KeepsBudgets, SpendsURL, SpendsPage, URLBudgetLeft, PageBudgetLeft
<1> QED
  BY <1>1, TypeOfInit, TypeOfStep, PTL DEF Spec, NoSpendAfterEnd

-----------------------------------------------------------------------------
(* The status of the job. *)

(* A worker that takes a step is in its loop, and leaves runDiscovery and  *)
(* the job's context as they are.                                          *)
LEMMA WorkerStep ==
  ASSUME NEW w \in Workers, Progress(w) \/ Faulty(w)
  PROVE  UNCHANGED ctlVars /\ pc[w] \notin {"idle", "done"}
<1> USE DEF At, ctlVars
<1>1. CASE Progress(w)
  BY <1>1 DEF Progress, Loop, ClaimCandidate, ClaimNothing, ConsumeURLBudget,
       PassThrough, ProbeHost, ConsumePageBudget, Fetch, Complete, InsertLink,
       Fail, ScheduleRetryRead, ScheduleRetry, FinishCount, FinishMark, Abort
<1>2. CASE Faulty(w)
  BY <1>2 DEF Faulty, CallFails, AnswerLost
<1> QED
  BY <1>1, <1>2

(* Workers run between RunWorkers and the end of the process, a request    *)
(* names a job that exists, and createJob creates one that does not.       *)
PhaseInv ==
  /\ disp = "none" => job = "absent" /\ ~cancelling /\ asking = "none"
  /\ \A w \in Workers : pc[w] \notin {"idle", "done"} => disp = "running"

LEMMA PhaseStep == TypeInv /\ PhaseInv /\ [Next]_vars => PhaseInv'
<1> SUFFICES ASSUME TypeInv, PhaseInv, [Next]_vars PROVE PhaseInv'
  OBVIOUS
<1> USE DEF PhaseInv, TypeInv, TypeOK, ctlVars, runVars, jobVars
<1>1. ASSUME NEW w \in Workers, Progress(w) \/ Faulty(w) PROVE PhaseInv'
  BY <1>1, WorkerStep
<1>2. CASE Dispatch
  <2>1. CASE RunWorkers
    BY <2>1 DEF RunWorkers
  <2>2. CASE CreateDiscoveryJob \/ SeedRejected \/ Spawn \/ StartRunning
    BY <2>2 DEF CreateDiscoveryJob, SeedRejected, Spawn, StartRunning
  <2>3. CASE \E c \in Candidates : Seed(c) \/ Discover(c)
    BY <2>3 DEF Seed, Discover
  <2> QED
    BY <1>2, <2>1, <2>2, <2>3 DEF Dispatch
<1>3. CASE Request
  BY <1>3 DEF Request, AskPause, AskResume, SetAsked, CancelContext,
              CancelStatus, CancelFails,
              ImportCSV, IdKnown, SetJobStatus, Terminal
<1>4. CASE Crash \/ \E c \in Candidates : Elapse(c)
  BY <1>4 DEF Crash, Elapse
<1>5. CASE UNCHANGED vars
  BY <1>5 DEF vars
<1> QED
  BY <1>1, <1>2, <1>3, <1>4, <1>5 DEF Next

LEMMA PhaseOfInit == Init => PhaseInv
BY DEF Init, PhaseInv

(* Whoever writes the status next, an ended job stays as it ended. *)
THEOREM EndedJobStaysEnded == Spec => JobStatusFinal
<1>1. ASSUME PhaseInv, [Next]_vars PROVE (job \in Terminal) => job' = job
  <2> USE DEF SetJobStatus, jobVars
  <2>1. ASSUME NEW w \in Workers, Progress(w)
        PROVE  (job \in Terminal) => job' = job
    BY <2>1 DEF Progress, Loop, ClaimCandidate, ClaimNothing, ConsumeURLBudget,
         PassThrough, ProbeHost, ConsumePageBudget, Fetch, Complete, InsertLink,
         Fail, ScheduleRetryRead, ScheduleRetry, FinishCount, FinishMark, Abort
  <2>2. ASSUME NEW w \in Workers, Faulty(w) PROVE job' = job
    BY <2>2 DEF Faulty, CallFails, AnswerLost
  <2>3. CASE Dispatch
    BY <1>1, <2>3 DEF PhaseInv, Terminal, Dispatch, CreateDiscoveryJob,
         SeedRejected, Spawn, StartRunning, RunWorkers, Seed, Discover
  <2>4. CASE Request \/ Crash \/ \E c \in Candidates : Elapse(c)
    BY <2>4 DEF Request, AskPause, AskResume, SetAsked, CancelContext, CancelStatus,
         CancelFails, ImportCSV, Crash, Elapse
  <2>5. CASE UNCHANGED vars
    BY <2>5 DEF vars
  <2> QED
    BY <1>1, <2>1, <2>2, <2>3, <2>4, <2>5 DEF Next
<1>2. PhaseInv /\ [Next]_vars => [(job \in Terminal) => job' = job]_vars
  BY <1>1
<1> QED
  BY <1>2, TypeOfInit, TypeOfStep, PhaseOfInit, PhaseStep, PTL
  DEF Spec, JobStatusFinal

-----------------------------------------------------------------------------
(* Claims and leases. *)

(* If the lease covers the work: the row of a held candidate is processing *)
(* and not claimable, nobody else holds it, and what a worker has read of  *)
(* its attempt_count is still true.                                        *)
HoldInv ==
  LeaseCoversWork =>
    \A w \in Workers : pc[w] \in HoldingPC =>
      /\ status[cand[w]] = "processing" /\ cand[w] \notin ripe
      /\ \A v \in Workers \ {w} : pc[v] \in HoldingPC => cand[v] # cand[w]
      /\ pc[w] = "retry_write" => seen[w] = attempts[cand[w]]

LEMMA HoldOfProgress ==
  ASSUME TypeInv, HoldInv, NEW w \in Workers, Progress(w)
  PROVE  HoldInv'
<1> USE CandidateSets
        DEF TypeInv, TypeOK, LocalOK, HoldInv, HoldingPC, At, Goto,
            Drop, jobVars, rowVars, ctlVars
<1>1. CASE Loop(w) \/ ClaimNothing(w) \/ FinishCount(w) \/ FinishMark(w)
           \/ Abort(w)
  BY <1>1 DEF Loop, ClaimNothing, FinishCount, FinishMark, Abort
<1>2. CASE ClaimCandidate(w)
  BY <1>2 DEF ClaimCandidate, FirstClaimable, Claimable, TakeRow
<1>3. CASE ConsumeURLBudget(w) \/ PassThrough(w) \/ ProbeHost(w)
           \/ ConsumePageBudget(w) \/ Fetch(w) \/ ScheduleRetryRead(w)
  BY <1>3 DEF ConsumeURLBudget, PassThrough, ProbeHost, ConsumePageBudget,
              Fetch, ScheduleRetryRead
<1>4. CASE Complete(w)
  BY <1>4 DEF Complete, AfterComplete, SetCandidateStatus
<1>5. CASE InsertLink(w)
  BY <1>5 DEF InsertLink, LinkDone, UpsertCandidateDepth
<1>6. CASE Fail(w)
  BY <1>6 DEF Fail, SetCandidateStatus
<1>7. CASE ScheduleRetry(w)
  <2>1. CASE seen[w] >= MaxAttempts
    BY <1>7, <2>1 DEF ScheduleRetry, ScheduleRetryWrite
  <2>2. CASE ~(seen[w] >= MaxAttempts)
    BY <1>7, <2>2 DEF ScheduleRetry, ScheduleRetryWrite
  <2> QED
    BY <2>1, <2>2
<1> QED
  BY <1>1, <1>2, <1>3, <1>4, <1>5, <1>6, <1>7 DEF Progress

LEMMA HoldOfFaulty ==
  ASSUME TypeInv, HoldInv, NEW w \in Workers, Faulty(w)
  PROVE  HoldInv'
<1> USE CandidateSets
        DEF TypeInv, TypeOK, LocalOK, HoldInv, HoldingPC, Goto,
            Drop, jobVars, rowVars, ctlVars
<1>1. CASE CallFails(w)
  <2>1. CASE pc[w] \in {"complete", "links"}
    BY <1>1, <2>1 DEF CallFails, AfterComplete, LinkDone
  <2>2. CASE pc[w] \notin {"complete", "links"}
    <3>1. /\ OnError(pc[w]) \in {"done", "finish", "retry_read", "loop"}
          /\ OnError(pc[w]) = "retry_read" => pc[w] \in HoldingPC
      BY <1>1, <2>2 DEF CallFails, OnError, PC
    <3>2. CASE OnError(pc[w]) = "retry_read"
      BY <1>1, <2>2, <3>1, <3>2 DEF CallFails
    <3>3. CASE OnError(pc[w]) # "retry_read"
      BY <1>1, <2>2, <3>1, <3>3 DEF CallFails
    <3> QED
      BY <3>2, <3>3
  <2> QED
    BY <2>1, <2>2
<1>2. CASE AnswerLost(w)
  BY <1>2 DEF AnswerLost, FirstClaimable, Claimable, TakeRow
<1> QED
  BY <1>1, <1>2 DEF Faulty

LEMMA HoldOfOthers ==
  ASSUME TypeInv, PhaseInv, HoldInv,
         \/ Dispatch \/ Request \/ Crash \/ \E c \in Candidates : Elapse(c)
  PROVE  HoldInv'
<1> USE CandidateSets
        DEF TypeInv, TypeOK, LocalOK, HoldInv, HoldingPC, rowVars, runVars, jobVars
<1>1. CASE Dispatch
  <2>1. CASE \E c \in Candidates : Seed(c) \/ Discover(c)
    BY <2>1 DEF Seed, Discover, UpsertCandidateDepth
  <2>2. CASE CreateDiscoveryJob \/ SeedRejected \/ Spawn \/ StartRunning
             \/ RunWorkers
    BY <2>2 DEF CreateDiscoveryJob, SeedRejected, Spawn, StartRunning, RunWorkers
  <2> QED
    BY <1>1, <2>1, <2>2 DEF Dispatch
<1>2. CASE Request
  <2>1. CASE \E c \in Candidates : ImportCSV(c)
    BY <2>1 DEF ImportCSV, UpsertCandidateDepth
  <2>2. CASE AskPause \/ AskResume \/ SetAsked \/ CancelContext
             \/ CancelStatus \/ CancelFails
    BY <2>2 DEF AskPause, AskResume, SetAsked, CancelContext, CancelStatus,
                CancelFails
  <2> QED
    BY <1>2, <2>1, <2>2 DEF Request
<1>3. CASE Crash
  BY <1>3 DEF Crash
<1>4. CASE \E c \in Candidates : Elapse(c)
  BY <1>4 DEF Elapse, Holds
<1> QED
  BY <1>1, <1>2, <1>3, <1>4

LEMMA HoldOfInit == Init => HoldInv
BY DEF Init, HoldInv, HoldingPC

LEMMA HoldStep == TypeInv /\ PhaseInv /\ HoldInv /\ [Next]_vars => HoldInv'
<1> SUFFICES ASSUME TypeInv, PhaseInv, HoldInv, [Next]_vars PROVE HoldInv'
  OBVIOUS
<1>1. CASE Next
  BY <1>1, HoldOfProgress, HoldOfFaulty, HoldOfOthers DEF Next
<1>2. CASE UNCHANGED vars
  BY <1>2 DEF vars, rowVars, runVars, HoldInv
<1> QED
  BY <1>1, <1>2

(* A candidate is in one pair of hands as long as leases cover the work. *)
THEOREM ExclusiveClaims == Spec => []OneHolder
<1>1. HoldInv => OneHolder
  BY DEF HoldInv, OneHolder, Holds
<1> QED
  BY <1>1, TypeOfInit, TypeOfStep, PhaseOfInit, PhaseStep, HoldOfInit, HoldStep,
     PTL DEF Spec

(* A step of a worker changes the status of no row but a claimable one, an *)
(* absent one and, while it holds one, its own.                            *)
LEMMA RowsOfWorker ==
  ASSUME TypeInv, NEW w \in Workers, Progress(w) \/ Faulty(w),
         NEW c \in Candidates, status[c] \in Final,
         ~(pc[w] \in HoldingPC /\ cand[w] = c)
  PROVE  status'[c] = status[c]
<1> USE DEF TypeInv, TypeOK, LocalOK, HoldingPC, At, rowVars, Final
<1>1. CASE Progress(w)
  <2>1. CASE ClaimCandidate(w)
    BY <2>1 DEF ClaimCandidate, FirstClaimable, Claimable, TakeRow, Open
  <2>2. CASE Complete(w) \/ Fail(w)
    BY <2>2 DEF Complete, Fail, SetCandidateStatus
  <2>3. CASE InsertLink(w)
    BY <2>3 DEF InsertLink, UpsertCandidateDepth
  <2>4. CASE ScheduleRetry(w)
    BY <2>4 DEF ScheduleRetry, ScheduleRetryWrite
  <2> QED
    BY <1>1, <2>1, <2>2, <2>3, <2>4 DEF Progress, Loop, ClaimNothing,
       ConsumeURLBudget, PassThrough, ProbeHost, ConsumePageBudget, Fetch,
       ScheduleRetryRead, FinishCount, FinishMark, Abort
<1>2. CASE Faulty(w)
  BY <1>2 DEF Faulty, CallFails, AnswerLost, FirstClaimable, Claimable,
              TakeRow, Open
<1> QED
  BY <1>1, <1>2

(* A settled candidate stays settled as long as leases cover the work. *)
THEOREM SettledStaysSettled == Spec => SettledIsFinal
<1>1. ASSUME TypeInv, HoldInv, [Next]_vars, LeaseCoversWork,
             NEW c \in Candidates, status[c] \in Final
      PROVE  status'[c] = status[c]
  <2>1. ASSUME NEW w \in Workers, Progress(w) \/ Faulty(w)
        PROVE  status'[c] = status[c]
    BY <1>1, <2>1, RowsOfWorker DEF HoldInv, Final
  <2>2. CASE Dispatch
    BY <1>1, <2>2 DEF Dispatch, CreateDiscoveryJob, SeedRejected, Spawn,
       StartRunning, RunWorkers, Seed, Discover, UpsertCandidateDepth, rowVars,
       Final, TypeInv, TypeOK
  <2>3. CASE Request
    BY <1>1, <2>3 DEF Request, AskPause, AskResume, SetAsked, CancelContext, CancelStatus,
       CancelFails, ImportCSV, UpsertCandidateDepth, rowVars, Final, TypeInv,
       TypeOK
  <2>4. CASE Crash \/ \E d \in Candidates : Elapse(d)
    BY <2>4 DEF Crash, Elapse, rowVars
  <2>5. CASE UNCHANGED vars
    BY <2>5 DEF vars, rowVars
  <2> QED
    BY <1>1, <2>1, <2>2, <2>3, <2>4, <2>5 DEF Next
<1>2. TypeInv /\ HoldInv /\ [Next]_vars =>
        [LeaseCoversWork => \A c \in Candidates :
           status[c] \in Final => status'[c] = status[c]]_vars
  BY <1>1
<1> QED
  BY <1>2, TypeOfInit, TypeOfStep, PhaseOfInit, PhaseStep, HoldOfInit, HoldStep,
     PTL DEF Spec, SettledIsFinal

-----------------------------------------------------------------------------
(* Retries. *)

(* A row that is processing although no worker holds it, while workers may *)
(* still claim it.                                                         *)
Orphan(c) ==
  /\ status[c] = "processing" /\ ~ctxDone /\ disp = "running"
  /\ \A w \in Workers : ~Holds(w, c)

(* RetriesBounded is not inductive: an expired lease gives an orphan one   *)
(* more attempt, so an orphan must be one attempt short of the bound.      *)
RetryInv ==
  LeaseCoversWork =>
    \A c \in Candidates :
      /\ disp \notin {"running", "lost", "over"} => status[c] \in {"absent", "new"}
      /\ status[c] \in {"absent", "new"} => attempts[c] = 0
      /\ status[c] = "failed_retryable" => attempts[c] < MaxAttempts
      /\ dead[c] # 0 => /\ status[c] = "failed_final"
                        /\ dead[c] = attempts[c] /\ dead[c] >= MaxAttempts
      /\ attempts[c] <= MaxAttempts + faults
      /\ Orphan(c) => attempts[c] < MaxAttempts + faults

LEMMA RetryOfProgress ==
  ASSUME TypeInv, PhaseInv, HoldInv, RetryInv, NEW w \in Workers, Progress(w)
  PROVE  RetryInv'
<1> USE CandidateSets, Limits
        DEF TypeInv, TypeOK, LocalOK, RetryInv, Orphan, Holds,
            HoldingPC, MaxAttempts, At, Goto, Drop, jobVars, rowVars, ctlVars
<1>0. disp = "running"
  BY WorkerStep DEF PhaseInv
<1>1. CASE Loop(w) \/ ClaimNothing(w) \/ FinishCount(w) \/ FinishMark(w)
           \/ Abort(w)
  BY <1>0, <1>1 DEF Loop, ClaimNothing, FinishCount, FinishMark, Abort
<1>2. CASE ClaimCandidate(w)
  BY <1>0, <1>2 DEF ClaimCandidate, FirstClaimable, Claimable, TakeRow, Open, HoldInv
<1>3. CASE ConsumeURLBudget(w) \/ PassThrough(w) \/ ProbeHost(w)
           \/ ConsumePageBudget(w) \/ Fetch(w) \/ ScheduleRetryRead(w)
  BY <1>0, <1>3 DEF ConsumeURLBudget, PassThrough, ProbeHost, ConsumePageBudget,
              Fetch, ScheduleRetryRead
<1>4. CASE Complete(w)
  BY <1>0, <1>4 DEF Complete, AfterComplete, SetCandidateStatus, HoldInv
<1>5. CASE InsertLink(w)
  BY <1>0, <1>5 DEF InsertLink, LinkDone, UpsertCandidateDepth
<1>6. CASE Fail(w)
  BY <1>0, <1>6 DEF Fail, SetCandidateStatus, HoldInv
<1>7. CASE ScheduleRetry(w)
  <2>1. CASE seen[w] >= MaxAttempts
    BY <1>0, <1>7, <2>1 DEF ScheduleRetry, ScheduleRetryWrite, HoldInv
  <2>2. CASE ~(seen[w] >= MaxAttempts)
    BY <1>0, <1>7, <2>2 DEF ScheduleRetry, ScheduleRetryWrite, HoldInv
  <2> QED
    BY <2>1, <2>2
<1> QED
  BY <1>1, <1>2, <1>3, <1>4, <1>5, <1>6, <1>7 DEF Progress

LEMMA RetryOfFaulty ==
  ASSUME TypeInv, PhaseInv, HoldInv, RetryInv, NEW w \in Workers, Faulty(w)
  PROVE  RetryInv'
<1> USE CandidateSets, Limits
        DEF TypeInv, TypeOK, LocalOK, RetryInv, Orphan, Holds, UseFault,
            HoldingPC, MaxAttempts, Goto, Drop, jobVars, rowVars, ctlVars
<1>0. disp = "running"
  BY WorkerStep DEF PhaseInv
<1>1. CASE CallFails(w)
  BY <1>0, <1>1 DEF CallFails
<1>2. CASE AnswerLost(w)
  <2>1. CASE pc[w] = "claim"
    BY <1>0, <1>2, <2>1 DEF AnswerLost, FirstClaimable, Claimable, TakeRow,
                            Open, HoldInv
  <2>2. CASE pc[w] # "claim"
    BY <1>0, <1>2, <2>2 DEF AnswerLost
  <2> QED
    BY <2>1, <2>2
<1> QED
  BY <1>1, <1>2 DEF Faulty

LEMMA RetryOfOthers ==
  ASSUME TypeInv, PhaseInv, RetryInv,
         \/ Dispatch \/ Request \/ Crash \/ \E c \in Candidates : Elapse(c)
  PROVE  RetryInv'
<1> USE CandidateSets, Limits
        DEF TypeInv, TypeOK, RetryInv, Orphan, Holds, UseFault,
            HoldingPC, MaxAttempts, jobVars, rowVars, ctlVars, runVars
<1>1. CASE Dispatch
  <2>1. CASE \E c \in Candidates : Seed(c) \/ Discover(c)
    BY <2>1 DEF Seed, Discover, UpsertCandidateDepth
  <2>2. CASE CreateDiscoveryJob \/ SeedRejected \/ Spawn \/ StartRunning
    BY <2>2 DEF CreateDiscoveryJob, SeedRejected, Spawn, StartRunning
  <2>3. CASE RunWorkers
    BY <2>3 DEF RunWorkers
  <2> QED
    BY <1>1, <2>1, <2>2, <2>3 DEF Dispatch
<1>2. CASE Request
  <2>1. CASE \E c \in Candidates : ImportCSV(c)
    BY <2>1 DEF ImportCSV, UpsertCandidateDepth
  <2>2. CASE AskPause \/ AskResume \/ SetAsked \/ CancelContext
             \/ CancelStatus \/ CancelFails
    BY <2>2 DEF AskPause, AskResume, SetAsked, CancelContext, CancelStatus,
                CancelFails
  <2> QED
    BY <1>2, <2>1, <2>2 DEF Request
<1>3. CASE Crash
  BY <1>3 DEF Crash, IdKnown
<1>4. CASE \E c \in Candidates : Elapse(c)
  BY <1>4 DEF Elapse
<1> QED
  BY <1>1, <1>2, <1>3, <1>4

LEMMA RetryStep ==
  TypeInv /\ PhaseInv /\ HoldInv /\ RetryInv /\ [Next]_vars => RetryInv'
<1> SUFFICES ASSUME TypeInv, PhaseInv, HoldInv, RetryInv, [Next]_vars
             PROVE  RetryInv'
  OBVIOUS
<1>1. CASE Next
  BY <1>1, RetryOfProgress, RetryOfFaulty, RetryOfOthers DEF Next
<1>2. CASE UNCHANGED vars
  BY <1>2 DEF vars, rowVars, runVars, ctlVars, RetryInv, Orphan, Holds
<1> QED
  BY <1>1, <1>2

(* Three attempts, one more for each failed store call, and dead letters   *)
(* that tell the truth, as long as leases cover the work.                  *)
THEOREM BoundedRetries == Spec => []RetriesBounded
<1>1. Init => RetryInv
  BY Limits DEF Init, RetryInv, Orphan, MaxAttempts
<1>2. RetryInv => RetriesBounded
  BY DEF RetryInv, RetriesBounded
<1> QED
  BY <1>1, <1>2, TypeOfInit, TypeOfStep, PhaseOfInit, PhaseStep, HoldOfInit,
     HoldStep, RetryStep, PTL DEF Spec

-----------------------------------------------------------------------------
(* Depth. *)

(* The row of a candidate a worker works on exists, so that its depth is   *)
(* the one the worker read when it claimed it; links are waiting only at   *)
(* the calls between the fetch and their insertion.                        *)
DepthInv ==
  /\ DepthBounded
  /\ \A w \in Workers :
       /\ pc[w] \in HoldingPC \cup {"links"} => status[cand[w]] # "absent"
       /\ todo[w] # {} => pc[w] \in {"save_page", "complete", "links"}

LEMMA DepthOfProgress ==
  ASSUME TypeInv, DepthInv, NEW w \in Workers, Progress(w)
  PROVE  DepthInv'
<1> USE CandidateSets, Limits
        DEF TypeInv, TypeOK, LocalOK, DepthInv, DepthBounded, HoldingPC, At,
            Goto, Drop, jobVars, rowVars, ctlVars
<1>1. CASE Loop(w) \/ ClaimNothing(w) \/ FinishCount(w) \/ FinishMark(w)
           \/ Abort(w)
  BY <1>1 DEF Loop, ClaimNothing, FinishCount, FinishMark, Abort
<1>2. CASE ClaimCandidate(w)
  BY <1>2 DEF ClaimCandidate, TakeRow
<1>3. CASE ConsumeURLBudget(w) \/ PassThrough(w) \/ ProbeHost(w)
           \/ ConsumePageBudget(w) \/ ScheduleRetryRead(w)
  BY <1>3 DEF ConsumeURLBudget, PassThrough, ProbeHost, ConsumePageBudget,
              ScheduleRetryRead
<1>4. CASE Fetch(w)
  BY <1>4 DEF Fetch, PageLinks
<1>5. CASE Complete(w)
  BY <1>5 DEF Complete, AfterComplete, SetCandidateStatus
<1>6. CASE InsertLink(w)
  BY <1>6 DEF InsertLink, LinkDone, UpsertCandidateDepth
<1>7. CASE Fail(w)
  BY <1>7 DEF Fail, SetCandidateStatus
<1>8. CASE ScheduleRetry(w)
  BY <1>8 DEF ScheduleRetry, ScheduleRetryWrite
<1> QED
  BY <1>1, <1>2, <1>3, <1>4, <1>5, <1>6, <1>7, <1>8 DEF Progress

LEMMA DepthStep == TypeInv /\ PhaseInv /\ DepthInv /\ [Next]_vars => DepthInv'
<1> SUFFICES ASSUME TypeInv, PhaseInv, DepthInv, [Next]_vars PROVE DepthInv'
  OBVIOUS
<1> USE CandidateSets, Limits
        DEF TypeInv, TypeOK, LocalOK, DepthInv, DepthBounded, HoldingPC,
            jobVars, rowVars, ctlVars, runVars
<1>1. ASSUME NEW w \in Workers, CallFails(w) PROVE DepthInv'
  <2>1. CASE pc[w] \in {"complete", "links"}
    BY <1>1, <2>1 DEF CallFails, AfterComplete, LinkDone, Goto, Drop
  <2>2. CASE pc[w] \notin {"complete", "links"}
    <3>1. /\ OnError(pc[w]) \in {"done", "finish", "retry_read", "loop"}
          /\ OnError(pc[w]) = "retry_read" => pc[w] \in HoldingPC
      BY <1>1, <2>2 DEF CallFails, OnError, PC
    <3> QED
      BY <1>1, <2>2, <3>1 DEF CallFails, Goto, Drop
  <2> QED
    BY <2>1, <2>2
<1>2. ASSUME NEW w \in Workers, AnswerLost(w) PROVE DepthInv'
  BY <1>2 DEF AnswerLost, TakeRow, Goto, Drop
<1>3. CASE Dispatch
  <2>1. CASE \E c \in Candidates : Seed(c) \/ Discover(c)
    BY <2>1 DEF Seed, Discover, UpsertCandidateDepth
  <2>2. CASE CreateDiscoveryJob \/ SeedRejected \/ Spawn \/ StartRunning
    BY <2>2 DEF CreateDiscoveryJob, SeedRejected, Spawn, StartRunning
  <2>3. CASE RunWorkers
    BY <2>3 DEF RunWorkers, PhaseInv
  <2> QED
    BY <1>3, <2>1, <2>2, <2>3 DEF Dispatch
<1>4. CASE Request
  BY <1>4 DEF Request, AskPause, AskResume, SetAsked, CancelContext,
              CancelStatus, CancelFails,
              ImportCSV, UpsertCandidateDepth
<1>5. CASE Crash
  BY <1>5 DEF Crash
<1>6. CASE \E c \in Candidates : Elapse(c)
  BY <1>6 DEF Elapse
<1>7. CASE UNCHANGED vars
  BY <1>7 DEF vars
<1> QED
  BY <1>1, <1>2, <1>3, <1>4, <1>5, <1>6, <1>7, DepthOfProgress DEF Next, Faulty

(* No path of links leads below max_depth. *)
LEMMA BoundedDepth == Spec => []DepthBounded
<1>1. Init => DepthInv
  BY Limits DEF Init, DepthInv, DepthBounded, HoldingPC
<1>2. DepthInv => DepthBounded
  BY DEF DepthInv
<1> QED
  BY <1>1, <1>2, TypeOfInit, TypeOfStep, PhaseOfInit, PhaseStep, DepthStep, PTL
  DEF Spec

(* The job's budgets are never overdrawn and its depth is never exceeded,  *)
(* whatever the number of workers and the links between the candidates.    *)
THEOREM BudgetSafety == Spec => []BudgetsKept
<1>1. SpendingBounded /\ DepthBounded => BudgetsKept
  BY DEF SpendingBounded, BudgetsKept
<1> QED
  BY <1>1, BoundedSpending, BoundedDepth, PTL

-----------------------------------------------------------------------------
(* Completion. *)

(* What FinishJobIfEmpty has counted is still true when it completes the   *)
(* job, and for ever after.                                                *)
DrainInv ==
  /\ job = "completed" => disp \notin {"none", "seeding", "spawned", "sources"}
  /\ job = "completed" \/ (\E w \in Workers : pc[w] = "mark") => OpenRows = {}
  /\ job = "completed" => \A w \in Workers : pc[w] \in {"idle", "done"}

(* With one worker and no CSV import, a completed job has no open row. *)
THEOREM SingleWorkerDrains ==
  ASSUME NEW w0, Workers = {w0}, CsvURLs = {}
  PROVE  Spec => []DrainedWhenCompleted
<1>1. Init => DrainInv
  BY DEF Init, DrainInv
<1>2. ASSUME TypeInv, PhaseInv, DrainInv, [Next]_vars PROVE DrainInv'
  <2> USE <1>2 DEF DrainInv, OpenRows, TypeInv, TypeOK, PhaseInv, jobVars,
                   rowVars, runVars, ctlVars
  <2>1. CASE Progress(w0)
    <3> USE DEF At, Goto
    <3>1. CASE FinishCount(w0)
      BY <3>1 DEF FinishCount
    <3>2. CASE FinishMark(w0)
      BY <3>2 DEF FinishMark, SetJobStatus
    <3>3. CASE Loop(w0) \/ ClaimCandidate(w0) \/ ClaimNothing(w0)
               \/ ConsumeURLBudget(w0) \/ PassThrough(w0) \/ ProbeHost(w0)
      BY <3>3 DEF Loop, ClaimCandidate, ClaimNothing, ConsumeURLBudget,
                  PassThrough, ProbeHost
    <3>4. CASE ConsumePageBudget(w0) \/ Fetch(w0) \/ Complete(w0)
               \/ InsertLink(w0) \/ Fail(w0)
      BY <3>4 DEF ConsumePageBudget, Fetch, Complete, AfterComplete,
                  InsertLink, LinkDone, Fail
    <3>5. CASE ScheduleRetryRead(w0) \/ ScheduleRetry(w0) \/ Abort(w0)
      BY <3>5 DEF ScheduleRetryRead, ScheduleRetry, Abort
    <3> QED
      BY <2>1, <3>1, <3>2, <3>3, <3>4, <3>5 DEF Progress
  <2>2. CASE Faulty(w0)
    <3>1. pc[w0] \notin {"idle", "done"} /\ job # "completed" /\ job' = job
      BY <2>2, WorkerStep DEF Faulty, CallFails, AnswerLost
    <3>2. pc'[w0] # "mark"
      BY <2>2, <3>1 DEF Faulty, CallFails, AfterComplete, LinkDone, OnError,
                        AnswerLost, Goto, PC, HoldingPC
    <3> QED
      BY <3>1, <3>2
  <2>3. CASE Dispatch
    BY <2>3 DEF Dispatch, CreateDiscoveryJob, SeedRejected, Spawn, StartRunning,
                RunWorkers, Seed, Discover, SetJobStatus, Terminal
  <2>4. CASE Request
    BY <2>4 DEF Request, AskPause, AskResume, SetAsked, CancelContext, CancelStatus,
                CancelFails, ImportCSV, IdKnown, SetJobStatus, Terminal
  <2>5. CASE Crash \/ \E c \in Candidates : Elapse(c)
    BY <2>5 DEF Crash, IdKnown, Elapse
  <2>6. CASE UNCHANGED vars
    BY <2>6 DEF vars
  <2> QED
    BY <2>1, <2>2, <2>3, <2>4, <2>5, <2>6 DEF Next
<1>3. DrainInv => DrainedWhenCompleted
  BY DEF DrainInv, DrainedWhenCompleted, OpenRows
<1>4. TypeInv /\ PhaseInv /\ DrainInv /\ [Next]_vars => DrainInv'
  BY <1>2
<1> QED
  BY <1>1, <1>3, <1>4, TypeOfInit, TypeOfStep, PhaseOfInit, PhaseStep, PTL
  DEF Spec

-----------------------------------------------------------------------------
(* The answer to a cancel. *)

(* No context is cancelled before the job can be named. *)
CancelInv ==
  /\ disp \in {"none", "seeding", "over"} => ~ctxDone /\ ~cancelling
  /\ CancelRecorded

(* No step revives a cancelled job or forgets a failed call. *)
LEMMA CancelStep ==
  TypeInv /\ PhaseInv /\ CancelInv /\ [Next]_vars => CancelInv'
<1> SUFFICES ASSUME TypeInv, PhaseInv, CancelInv, [Next]_vars PROVE CancelInv'
  OBVIOUS
<1> USE Limits DEF TypeInv, TypeOK, PhaseInv, CancelInv, CancelRecorded,
      SetJobStatus, Terminal, UseFault, ctlVars, jobVars, runVars
<1>1. ASSUME NEW w \in Workers, Progress(w) PROVE CancelInv'
  <2>1. UNCHANGED ctlVars /\ faults' = faults
    BY <1>1, WorkerStep DEF Progress, Loop, ClaimCandidate, ClaimNothing,
       ConsumeURLBudget, PassThrough, ProbeHost, ConsumePageBudget, Fetch,
       Complete, InsertLink, Fail, ScheduleRetryRead, ScheduleRetry,
       FinishCount, FinishMark, Abort
  <2>2. job' = job \/ job' = "completed"
    BY <1>1 DEF Progress, Loop, ClaimCandidate, ClaimNothing,
       ConsumeURLBudget, PassThrough, ProbeHost, ConsumePageBudget, Fetch,
       Complete, InsertLink, Fail, ScheduleRetryRead, ScheduleRetry,
       FinishCount, FinishMark, Abort
  <2> QED
    BY <2>1, <2>2
<1>2. ASSUME NEW w \in Workers, Faulty(w) PROVE CancelInv'
  <2>1. UNCHANGED ctlVars
    BY <1>2, WorkerStep
  <2>2. faults' > 0
    BY <1>2 DEF Faulty, CallFails, AnswerLost
  <2> QED
    BY <2>1, <2>2
<1>3. CASE Dispatch
  BY <1>3 DEF Dispatch, CreateDiscoveryJob, SeedRejected, Spawn, StartRunning,
     RunWorkers, Seed, Discover
<1>4. CASE Request
  BY <1>4 DEF Request, AskPause, AskResume, SetAsked, CancelContext,
     CancelStatus, CancelFails, ImportCSV, IdKnown
<1>5. CASE Crash \/ \E c \in Candidates : Elapse(c)
  BY <1>5 DEF Crash, Elapse, IdKnown
<1>6. CASE UNCHANGED vars
  BY <1>6 DEF vars
<1> QED
  BY <1>1, <1>2, <1>3, <1>4, <1>5, <1>6 DEF Next

(* A cancel that was answered is final: the job has ended, unless a store  *)
(* call failed or the engine crashed (cancel, pause, resume, runDiscovery).*)
THEOREM CancelsAreRecorded == Spec => []CancelRecorded
<1>1. Init => CancelInv
  BY DEF Init, CancelInv, CancelRecorded
<1>2. CancelInv => CancelRecorded
  BY DEF CancelInv
<1> QED
  BY <1>1, <1>2, TypeOfInit, TypeOfStep, PhaseOfInit, PhaseStep, CancelStep,
     PTL DEF Spec

-----------------------------------------------------------------------------
(* Jobs that are left unfinished. *)

(* Until a call fails, the context is cancelled or the process dies, the   *)
(* only worker w holds every processing row, has claimed a row for every   *)
(* URL it has paid for, and knows the job's limits from the first one on;  *)
(* where it gives up, it does so for one of the reasons.                   *)
AbandonInv(w) ==
  (faults = 0 /\ ~ctxDone /\ disp \notin {"lost", "over"}) =>
    /\ disp \in {"none", "seeding", "spawned", "sources"} =>
         /\ pc[w] = "idle" /\ urls = 0
         /\ \A c \in Candidates : status[c] \in {"absent", "new"}
    /\ \A c \in Candidates : status[c] = "new" => c \in ripe
    /\ disp = "running" =>
         \A c \in Candidates : status[c] = "processing" => Holds(w, c)
    /\ urls <= claims[w]
    /\ pc[w] \in {"url_budget", "refuse"} => urls < claims[w]
    /\ urls > 0 => w \in known \/ pc[w] \in {"rate_limit", "job_info"}
    /\ pc[w] = "refuse" => job \in Terminal \/ urls >= MaxURLs
    /\ pc[w] = "finish" =>
         \/ job \in Terminal \/ LimitReached(w)
         \/ \A c \in Candidates : status[c] \in Open => status[c] = "failed_retryable"
    /\ pc[w] = "done" =>
         \/ job \in Terminal \/ LimitReached(w)
         \/ \E c \in Candidates : status[c] = "failed_retryable"

(* Each step of the only worker keeps it. *)
LEMMA AbandonOfProgress ==
  ASSUME TypeInv, PhaseInv, NEW w \in Workers, Workers = {w},
         AbandonInv(w), Progress(w)
  PROVE  AbandonInv(w)'
<1> USE Limits, CandidateSets
        DEF TypeInv, TypeOK, LocalOK, AbandonInv, LimitReached, Holds, HoldingPC,
            At, Goto, Drop, jobVars, rowVars, ctlVars
<1>0. disp = "running" /\ UNCHANGED ctlVars
  BY WorkerStep DEF PhaseInv
<1>1. CASE Loop(w)
  BY <1>0, <1>1 DEF Loop
<1>2. CASE ClaimCandidate(w)
  BY <1>0, <1>2 DEF ClaimCandidate, TakeRow
<1>3. CASE ClaimNothing(w)
  BY <1>0, <1>3 DEF ClaimNothing, Claimable, Open
<1>4. CASE ConsumeURLBudget(w)
  BY <1>0, <1>4 DEF ConsumeURLBudget, URLBudgetLeft
<1>5. CASE PassThrough(w)
  BY <1>0, <1>5 DEF PassThrough
<1>6. CASE ProbeHost(w) \/ ConsumePageBudget(w) \/ ScheduleRetryRead(w)
  BY <1>0, <1>6 DEF ProbeHost, ConsumePageBudget, ScheduleRetryRead
<1>7. CASE Fetch(w)
  BY <1>0, <1>7 DEF Fetch
<1>8. CASE Complete(w)
  BY <1>0, <1>8 DEF Complete, AfterComplete, SetCandidateStatus
<1>9. CASE InsertLink(w)
  BY <1>0, <1>9 DEF InsertLink, LinkDone, UpsertCandidateDepth
<1>10. CASE Fail(w)
  BY <1>0, <1>10 DEF Fail, SetCandidateStatus
<1>11. CASE ScheduleRetry(w)
  <2>1. CASE seen[w] >= MaxAttempts
    BY <1>0, <1>11, <2>1 DEF ScheduleRetry, ScheduleRetryWrite
  <2>2. CASE ~(seen[w] >= MaxAttempts)
    BY <1>0, <1>11, <2>2 DEF ScheduleRetry, ScheduleRetryWrite
  <2> QED
    BY <2>1, <2>2
<1>12. CASE FinishCount(w)
  BY <1>0, <1>12 DEF FinishCount, OpenRows, Open
<1>13. CASE FinishMark(w)
  BY <1>0, <1>13 DEF FinishMark, SetJobStatus, Terminal
<1>14. CASE Abort(w)
  BY <1>0, <1>14 DEF Abort
<1> QED
  BY <1>1, <1>2, <1>3, <1>4, <1>5, <1>6, <1>7, <1>8, <1>9, <1>10, <1>11,
     <1>12, <1>13, <1>14 DEF Progress

(* So does every other step, when no rows are imported. *)
LEMMA AbandonOfOthers ==
  ASSUME TypeInv, PhaseInv, NEW w \in Workers, Workers = {w}, CsvURLs = {},
         AbandonInv(w),
         \/ Faulty(w) \/ Dispatch \/ Request \/ Crash
         \/ \E c \in Candidates : Elapse(c)
  PROVE  AbandonInv(w)'
<1> USE Limits, CandidateSets
        DEF TypeInv, TypeOK, AbandonInv, LimitReached, Holds, HoldingPC, PhaseInv,
            SetJobStatus, Terminal, UseFault, jobVars, rowVars, runVars, ctlVars
<1>1. CASE Faulty(w)
  <2>1. faults' > 0
    BY <1>1 DEF Faulty, CallFails, AnswerLost
  <2> QED
    BY <2>1
<1>2. CASE Dispatch
  <2>1. CASE \E c \in Candidates : Seed(c) \/ Discover(c)
    BY <2>1 DEF Seed, Discover, UpsertCandidateDepth
  <2>2. CASE CreateDiscoveryJob \/ SeedRejected \/ Spawn \/ StartRunning
    BY <2>2 DEF CreateDiscoveryJob, SeedRejected, Spawn, StartRunning
  <2>3. CASE RunWorkers
    BY <2>3 DEF RunWorkers
  <2> QED
    BY <1>2, <2>1, <2>2, <2>3 DEF Dispatch
<1>3. CASE Request
  BY <1>3 DEF Request, AskPause, AskResume, SetAsked, CancelContext,
     CancelStatus, CancelFails, ImportCSV, IdKnown
<1>4. CASE Crash
  BY <1>4 DEF Crash
<1>5. CASE \E c \in Candidates : Elapse(c)
  BY <1>5 DEF Elapse
<1> QED
  BY <1>1, <1>2, <1>3, <1>4, <1>5

(* With one worker and no CSV import, a run that ends although nothing has *)
(* failed and nobody has cancelled it leaves its job unfinished only with  *)
(* a row that waits for its retry or with a limit used up (worker.Run,     *)
(* FinishJobIfEmpty).                                                      *)
THEOREM UnfinishedOnlyFor ==
  ASSUME NEW w0, Workers = {w0}, CsvURLs = {}
  PROVE  Spec => []AbandonedOnlyFor
<1>0. w0 \in Workers
  OBVIOUS
<1>1. Init => AbandonInv(w0)
  BY <1>0 DEF Init, AbandonInv, Holds, HoldingPC
<1>2. TypeInv /\ PhaseInv /\ AbandonInv(w0) /\ [Next]_vars => AbandonInv(w0)'
  <2> SUFFICES ASSUME TypeInv, PhaseInv, AbandonInv(w0), [Next]_vars
               PROVE  AbandonInv(w0)'
    OBVIOUS
  <2>1. CASE Next
    BY <1>0, <2>1, AbandonOfProgress, AbandonOfOthers DEF Next
  <2>2. CASE UNCHANGED vars
    BY <2>2 DEF vars, jobVars, rowVars, runVars, ctlVars, AbandonInv, Holds,
                LimitReached
  <2> QED
    BY <2>1, <2>2
<1>3. TypeInv /\ AbandonInv(w0) => AbandonedOnlyFor
  BY <1>0 DEF AbandonInv, AbandonedOnlyFor, TypeInv, TypeOK
<1> QED
  BY <1>1, <1>2, <1>3, TypeOfInit, TypeOfStep, PhaseOfInit, PhaseStep, PTL
  DEF Spec

=============================================================================
