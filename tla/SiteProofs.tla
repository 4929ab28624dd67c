----------------------------- MODULE SiteProofs -----------------------------
(***************************************************************************)
(* Proofs about Site for every set of jobs, every budget, every number of  *)
(* browser slots and every lifetime of a probe.                            *)
(***************************************************************************)
EXTENDS Site, FiniteSetTheorems, TLAPS

(* Where a worker is tells what it has committed and what it has learnt:   *)
(* a transaction was begun within the job's budget, a page under way has   *)
(* been paid for but not stored, and a status at hand has been observed.   *)
WorkerInv ==
  \A j \in Jobs :
    /\ processed[j] <= MaxPages[j] /\ stored[j] <= processed[j]
    /\ j \in InTransaction => processed[j] < MaxPages[j]
    /\ pc[j] \in {"fetch", "slot", "prepare", "browse", "parse"}
         => stored[j] < processed[j]
    /\ pc[j] = "write" => IF held[j] = "active" THEN "active" \in seen
                                                ELSE seen \ {"active"} # {}

(* The domain's count is that of the pages paid for, a finite set. *)
CountInv == IsFiniteSet(PaidPages) /\ crawled = Cardinality(PaidPages)

IInv == /\ TypeOK /\ SlotsKept /\ PagesBounded /\ WorkerInv /\ CrawledIsProbed
        /\ CountInv

(* Facts about the sets of workers that are rendering or in a transaction. *)
LEMMA SubsetsOfJobs ==
  ASSUME NEW S \in SUBSET Jobs
  PROVE  /\ IsFiniteSet(S) /\ Cardinality(S) \in Nat
         /\ Cardinality(S) <= Cardinality(Jobs)
         /\ Cardinality(Jobs) \in Nat \ {0}
         /\ \A j \in S : /\ Cardinality(S) >= 1
                         /\ Cardinality(S \ {j}) = Cardinality(S) - 1
         /\ \A j \in Jobs \ S : Cardinality(S \cup {j}) = Cardinality(S) + 1
<1>1. IsFiniteSet(S) /\ Cardinality(S) <= Cardinality(Jobs)
  BY SiteLimits, FS_Subset
<1>2. Cardinality(S) \in Nat /\ Cardinality(Jobs) \in Nat
  BY <1>1, SiteLimits, FS_CardinalityType
<1>3. Cardinality(Jobs) # 0
  BY SiteLimits, FS_EmptySet
<1>4. ASSUME NEW j \in S
      PROVE  Cardinality(S) >= 1 /\ Cardinality(S \ {j}) = Cardinality(S) - 1
  <2>1. Cardinality(S \ {j}) = Cardinality(S) - 1 /\ IsFiniteSet(S \ {j})
    BY <1>1, FS_RemoveElement
  <2>2. Cardinality(S \ {j}) \in Nat
    BY <2>1, FS_CardinalityType
  <2> QED
    BY <1>2, <2>1, <2>2
<1>5. ASSUME NEW j \in Jobs \ S PROVE Cardinality(S \cup {j}) = Cardinality(S) + 1
  BY <1>1, FS_AddElement
<1> QED
  BY <1>1, <1>2, <1>3, <1>4, <1>5

-----------------------------------------------------------------------------
(* The invariant on types holds at first and is kept by every step. *)
LEMMA TypeOfInit == Init => TypeOK
  BY SiteLimits DEF Init, TypeOK, Statuses

LEMMA TypeStep == TypeOK /\ SlotsKept /\ [Next]_vars => TypeOK'
<1> SUFFICES ASSUME TypeOK, SlotsKept, [Next]_vars PROVE TypeOK'
  OBVIOUS
<1>0. \A j \in Rendering : slots - 1 \in Nat
  BY SubsetsOfJobs DEF SlotsKept, Rendering, TypeOK
<1> USE SiteLimits DEF TypeOK, probeVars, budgetVars, renderVars, Statuses, At
<1>1. CASE UNCHANGED vars
  BY <1>1 DEF vars
<1>2. CASE Tick
  BY <1>2 DEF Tick
<1>3. ASSUME NEW j \in Jobs, Turn(j) PROVE TypeOK'
  <2>1. CASE Begin(j)
    BY <2>1 DEF Begin
  <2>2. CASE ProbeFresh(j)
    BY <2>2 DEF ProbeFresh, Cached
  <2>3. CASE ProbeFreshFails(j)
    BY <2>3 DEF ProbeFreshFails
  <2>4. CASE Probe(j)
    BY <2>4 DEF Probe
  <2>5. CASE UpsertProbe(j)
    BY <2>5 DEF UpsertProbe
  <2>6. CASE CountJobPage(j)
    BY <2>6 DEF CountJobPage
  <2>7. CASE CountDomainPage(j)
    BY <2>7 DEF CountDomainPage
  <2>8. CASE Commit(j)
    BY <2>8 DEF Commit
  <2>9. CASE Rollback(j)
    BY <2>9 DEF Rollback
  <2>10. CASE Fetch(j)
    BY <2>10 DEF Fetch
  <2>11. CASE Expire(j)
    BY <2>11 DEF Expire
  <2>12. CASE TakeSlot(j)
    BY <2>12 DEF TakeSlot
  <2>13. CASE GiveUp(j)
    BY <2>13 DEF GiveUp
  <2>14. CASE StartBrowser(j)
    BY <2>14 DEF StartBrowser
  <2>15. CASE RenderFails(j)
    BY <1>0, <2>15 DEF RenderFails, Release, Rendering
  <2>16. CASE BrowserEnds(j)
    BY <1>0, <2>16 DEF BrowserEnds, Release, Rendering
  <2>17. CASE Settle(j)
    BY <2>17 DEF Settle
  <2> QED
    BY <1>3, <2>1, <2>2, <2>3, <2>4, <2>5, <2>6, <2>7, <2>8, <2>9, <2>10, <2>11,
       <2>12, <2>13, <2>14, <2>15, <2>16, <2>17 DEF Turn
<1> QED
  BY <1>1, <1>2, <1>3 DEF Next

-----------------------------------------------------------------------------
(* A step takes a slot for a worker that starts to render, gives it back   *)
(* for one that ends, or leaves slots and those who render alone.          *)
LEMMA SlotsStep == TypeOK /\ SlotsKept /\ [Next]_vars => SlotsKept'
<1> SUFFICES ASSUME TypeOK, SlotsKept, [Next]_vars PROVE SlotsKept'
  OBVIOUS
<1> DEFINE Browsing == {j \in Jobs : pc[j] = "browse"}
<1> USE DEF probeVars, budgetVars, renderVars, At
<1>1. ASSUME UNCHANGED <<slots, proxies>>, Rendering' = Rendering, Browsing' = Browsing
      PROVE  SlotsKept'
  BY <1>1 DEF SlotsKept
<1>2. ASSUME NEW j \in Jobs, Release(j), j \in Rendering, Rendering' = Rendering \ {j},
             Browsing' = Browsing \ {j}
      PROVE  SlotsKept'
  <2>1. slots' = Cardinality(Rendering')
    BY <1>2, SubsetsOfJobs DEF Release, SlotsKept, Rendering
  <2>2. slots' <= Slots
    BY <1>2, SiteLimits DEF Release, SlotsKept, TypeOK
  <2> QED
    BY <1>2, <2>1, <2>2 DEF Release, SlotsKept
<1>3. CASE UNCHANGED vars \/ Tick
  BY <1>1, <1>3 DEF vars, Tick, Rendering
<1>4. ASSUME NEW j \in Jobs, Turn(j) PROVE SlotsKept'
  <2>1. CASE TakeSlot(j)
    <3>1. j \in Jobs \ Rendering /\ Rendering' = Rendering \cup {j}
      BY <2>1 DEF TakeSlot, Rendering, TypeOK
    <3>2. slots' = Cardinality(Rendering')
      BY <2>1, <3>1, SubsetsOfJobs DEF TakeSlot, SlotsKept, Rendering
    <3>3. Browsing' = Browsing
      BY <2>1 DEF TakeSlot, TypeOK
    <3>4. slots' <= Slots
      BY <2>1, SiteLimits DEF TakeSlot, TypeOK
    <3> QED
      BY <2>1, <3>2, <3>3, <3>4 DEF TakeSlot, SlotsKept
  <2>2. CASE StartBrowser(j)
    <3>1. Rendering' = Rendering /\ Browsing' = Browsing \cup {j}
      BY <2>2 DEF StartBrowser, Rendering, TypeOK
    <3> QED
      BY <2>2, <3>1 DEF StartBrowser, SlotsKept
  <2>3. CASE RenderFails(j)
    BY <1>2, <2>3 DEF RenderFails, Rendering, TypeOK
  <2>4. CASE BrowserEnds(j)
    BY <1>2, <2>4 DEF BrowserEnds, Rendering, TypeOK
  <2>5. CASE Begin(j) \/ ProbeFresh(j) \/ ProbeFreshFails(j) \/ Probe(j) \/ UpsertProbe(j)
    BY <1>1, <2>5 DEF Begin, ProbeFresh, ProbeFreshFails, Probe, UpsertProbe,
                      Rendering, TypeOK
  <2>6. CASE CountJobPage(j) \/ CountDomainPage(j) \/ Commit(j)
    BY <1>1, <2>6 DEF CountJobPage, CountDomainPage, Commit, Rendering, TypeOK
  <2>7. CASE Rollback(j)
    BY <1>1, <2>7 DEF Rollback, InTransaction, Rendering, TypeOK
  <2>8. CASE Fetch(j) \/ Expire(j) \/ GiveUp(j) \/ Settle(j)
    BY <1>1, <2>8 DEF Fetch, Expire, GiveUp, Settle, Rendering, TypeOK
  <2> QED
    BY <1>4, <2>1, <2>2, <2>3, <2>4, <2>5, <2>6, <2>7, <2>8 DEF Turn
<1> QED
  BY <1>3, <1>4 DEF Next

(* The count of the domain and of the transactions under way grows only    *)
(* when a job finds the committed count below its own limit, and then each *)
(* of the jobs has at most one transaction under way.                      *)
LEMMA BoundStep == TypeOK /\ PagesBounded /\ [Next]_vars => PagesBounded'
<1> SUFFICES ASSUME TypeOK, PagesBounded, [Next]_vars PROVE PagesBounded'
  OBVIOUS
<1> USE DEF probeVars, budgetVars, renderVars, At
<1>0. /\ InTransaction \in SUBSET Jobs /\ InTransaction' \in SUBSET Jobs
      /\ crawled \in Nat /\ \A j \in Jobs : MaxPages[j] \in Nat
  BY SiteLimits DEF InTransaction, TypeOK
<1>1. ASSUME UNCHANGED crawled, InTransaction' = InTransaction PROVE PagesBounded'
  BY <1>1 DEF PagesBounded
<1>2. ASSUME NEW j \in InTransaction, InTransaction' = InTransaction \ {j},
             crawled' \in {crawled, crawled + 1}
      PROVE  PagesBounded'
  <2>1. Cardinality(InTransaction') = Cardinality(InTransaction) - 1
    BY <1>0, <1>2, SubsetsOfJobs
  <2>2. PICK k \in Jobs : crawled + Cardinality(InTransaction)
                             <= MaxPages[k] + Cardinality(Jobs) - 1
    BY DEF PagesBounded
  <2>3. crawled' + Cardinality(InTransaction') <= MaxPages[k] + Cardinality(Jobs) - 1
    BY <1>0, <1>2, <2>1, <2>2, SubsetsOfJobs
  <2> QED
    BY <2>3 DEF PagesBounded
<1>3. CASE UNCHANGED vars \/ Tick
  BY <1>1, <1>3 DEF vars, Tick, InTransaction
<1>4. ASSUME NEW j \in Jobs, Turn(j) PROVE PagesBounded'
  <2>1. CASE CountJobPage(j)
    <3>1. CASE BudgetLeft(j)
      <4>1. crawled' = crawled /\ crawled < MaxPages[j]
        BY <2>1, <3>1 DEF CountJobPage, BudgetLeft
      <4>2. crawled' + Cardinality(InTransaction') <= MaxPages[j] + Cardinality(Jobs) - 1
        BY <1>0, <4>1, SubsetsOfJobs
      <4> QED
        BY <4>2 DEF PagesBounded
    <3>2. CASE ~BudgetLeft(j)
      BY <1>1, <2>1, <3>2 DEF CountJobPage, InTransaction, TypeOK
    <3> QED
      BY <3>1, <3>2
  <2>2. CASE Commit(j)
    BY <1>2, <2>2 DEF Commit, InTransaction, TypeOK
  <2>3. CASE Rollback(j)
    BY <1>2, <2>3 DEF Rollback, InTransaction, TypeOK
  <2>4. CASE Begin(j) \/ ProbeFresh(j) \/ ProbeFreshFails(j) \/ Probe(j) \/ UpsertProbe(j)
    BY <1>1, <2>4 DEF Begin, ProbeFresh, ProbeFreshFails, Probe, UpsertProbe,
                      InTransaction, TypeOK
  <2>5. CASE CountDomainPage(j)
    BY <1>1, <2>5 DEF CountDomainPage, InTransaction, TypeOK
  <2>6. CASE Fetch(j) \/ Expire(j) \/ TakeSlot(j) \/ GiveUp(j) \/ Settle(j)
    BY <1>1, <2>6, SiteLimits DEF Fetch, Expire, TakeSlot, GiveUp, Settle,
                                  InTransaction, Rendering, TypeOK
  <2>7. CASE StartBrowser(j) \/ RenderFails(j) \/ BrowserEnds(j)
    BY <1>1, <2>7 DEF StartBrowser, RenderFails, BrowserEnds, Release,
                      InTransaction, TypeOK
  <2> QED
    BY <1>4, <2>1, <2>2, <2>3, <2>4, <2>5, <2>6, <2>7 DEF Turn
<1> QED
  BY <1>3, <1>4 DEF Next

(* A commit adds one page to those paid for, and one to the domain's count; *)
(* no other step touches either.                                            *)
LEMMA CountStep == TypeOK /\ CountInv /\ [Next]_vars => CountInv'
<1> SUFFICES ASSUME TypeOK, CountInv, [Next]_vars PROVE CountInv'
  OBVIOUS
<1> USE DEF probeVars, budgetVars, renderVars
<1>1. ASSUME UNCHANGED <<processed, crawled>> PROVE CountInv'
  BY <1>1 DEF CountInv, PaidPages
<1>2. ASSUME NEW j \in Jobs, Commit(j) PROVE CountInv'
  <2> DEFINE new == <<j, processed[j] + 1>>
  <2>1. processed[j] \in Nat
    BY DEF TypeOK
  <2>2. processed' = [processed EXCEPT ![j] = @ + 1] /\ crawled' = crawled + 1
    BY <1>2 DEF Commit
  <2>3. new \notin PaidPages
    BY <2>1 DEF PaidPages
  <2>4. PaidPages' = PaidPages \cup {new}
    <3>1. ASSUME NEW k \in Jobs, k # j PROVE processed'[k] = processed[k]
      BY <2>2, <3>1 DEF TypeOK
    <3>2. processed'[j] = processed[j] + 1
      BY <2>2 DEF TypeOK
    <3>3. 1..(processed[j] + 1) = (1..processed[j]) \cup {processed[j] + 1}
      BY <2>1
    <3> QED
      BY <3>1, <3>2, <3>3 DEF PaidPages
  <2> QED
    BY <2>2, <2>3, <2>4, FS_AddElement DEF CountInv
<1>3. CASE UNCHANGED vars \/ Tick
  BY <1>1, <1>3 DEF vars, Tick
<1>4. ASSUME NEW j \in Jobs, Turn(j) PROVE CountInv'
  <2>1. CASE Begin(j) \/ ProbeFresh(j) \/ ProbeFreshFails(j) \/ Probe(j) \/ UpsertProbe(j)
    BY <1>1, <2>1 DEF Begin, ProbeFresh, ProbeFreshFails, Probe, UpsertProbe
  <2>2. CASE CountJobPage(j) \/ CountDomainPage(j) \/ Rollback(j) \/ Settle(j)
    BY <1>1, <2>2 DEF CountJobPage, CountDomainPage, Rollback, Settle
  <2>3. CASE Fetch(j) \/ Expire(j) \/ TakeSlot(j) \/ GiveUp(j)
    BY <1>1, <2>3 DEF Fetch, Expire, TakeSlot, GiveUp
  <2>4. CASE StartBrowser(j) \/ RenderFails(j) \/ BrowserEnds(j)
    BY <1>1, <2>4 DEF StartBrowser, RenderFails, BrowserEnds
  <2> QED
    BY <1>2, <1>4, <2>1, <2>2, <2>3, <2>4 DEF Turn
<1> QED
  BY <1>3, <1>4 DEF Next

-----------------------------------------------------------------------------
(* What a worker has paid and learnt stays true through its own steps, and *)
(* the steps of the others leave its counts alone.                         *)
LEMMA WorkerStep ==
  TypeOK /\ WorkerInv /\ CrawledIsProbed /\ [Next]_vars
    => WorkerInv' /\ CrawledIsProbed'
<1> SUFFICES ASSUME TypeOK, WorkerInv, CrawledIsProbed, [Next]_vars
             PROVE  WorkerInv' /\ CrawledIsProbed'
  OBVIOUS
<1> USE SiteLimits DEF TypeOK, WorkerInv, CrawledIsProbed, Statuses, InTransaction, At,
                       probeVars, budgetVars, renderVars
<1>1. CASE UNCHANGED vars
  BY <1>1 DEF vars
<1>2. CASE Tick
  BY <1>2 DEF Tick
<1>3. ASSUME NEW j \in Jobs, Turn(j) PROVE WorkerInv' /\ CrawledIsProbed'
  <2>1. CASE Begin(j)
    BY <2>1 DEF Begin
  <2>2. CASE ProbeFresh(j)
    BY <2>2 DEF ProbeFresh, Cached
  <2>3. CASE ProbeFreshFails(j)
    BY <2>3 DEF ProbeFreshFails
  <2>4. CASE Probe(j)
    BY <2>4 DEF Probe
  <2>5. CASE UpsertProbe(j)
    BY <2>5 DEF UpsertProbe
  <2>6. CASE CountJobPage(j)
    BY <2>6 DEF CountJobPage, BudgetLeft
  <2>7. CASE CountDomainPage(j)
    BY <2>7 DEF CountDomainPage
  <2>8. CASE Commit(j)
    BY <2>8 DEF Commit
  <2>9. CASE Rollback(j)
    BY <2>9 DEF Rollback
  <2>10. CASE Fetch(j)
    BY <2>10 DEF Fetch
  <2>11. CASE Expire(j)
    BY <2>11 DEF Expire
  <2>12. CASE TakeSlot(j)
    BY <2>12 DEF TakeSlot
  <2>13. CASE GiveUp(j)
    BY <2>13 DEF GiveUp
  <2>14. CASE StartBrowser(j)
    BY <2>14 DEF StartBrowser
  <2>15. CASE RenderFails(j)
    BY <2>15 DEF RenderFails, Release
  <2>16. CASE BrowserEnds(j)
    BY <2>16 DEF BrowserEnds, Release
  <2>17. CASE Settle(j)
    BY <2>17 DEF Settle
  <2> QED
    BY <1>3, <2>1, <2>2, <2>3, <2>4, <2>5, <2>6, <2>7, <2>8, <2>9, <2>10, <2>11,
       <2>12, <2>13, <2>14, <2>15, <2>16, <2>17 DEF Turn
<1> QED
  BY <1>1, <1>2, <1>3 DEF Next

(* Initially nobody renders, nothing is counted and nothing is known. *)
LEMMA InvOfInit == Init => IInv
<1> SUFFICES ASSUME Init PROVE IInv
  OBVIOUS
<1>1. Rendering = {} /\ InTransaction = {}
  BY DEF Init, Rendering, InTransaction
<1>2. SlotsKept
  BY <1>1, SiteLimits, FS_EmptySet DEF Init, SlotsKept
<1>3. PagesBounded
  <2>1. PICK j \in Jobs : TRUE
    BY SiteLimits
  <2>2. Cardinality(InTransaction) = 0 /\ Cardinality(Jobs) \in Nat \ {0}
    BY <1>1, SubsetsOfJobs, FS_EmptySet
  <2>3. crawled + Cardinality(InTransaction) <= MaxPages[j] + Cardinality(Jobs) - 1
    BY <2>2, SiteLimits DEF Init
  <2> QED
    BY <2>3 DEF PagesBounded
<1>4. WorkerInv /\ CrawledIsProbed
  BY SiteLimits DEF Init, WorkerInv, CrawledIsProbed, InTransaction
<1>5. CountInv
  <2>1. PaidPages = {}
    BY DEF Init, PaidPages
  <2> QED
    BY <2>1, FS_EmptySet DEF Init, CountInv
<1> QED
  BY <1>2, <1>3, <1>4, <1>5, TypeOfInit DEF IInv

(* The inductive invariant, from which the theorems below follow. *)
LEMMA Invariant == Spec => []IInv
<1>1. IInv /\ [Next]_vars => IInv'
  BY TypeStep, SlotsStep, BoundStep, CountStep, WorkerStep DEF IInv
<1> QED
  BY InvOfInit, <1>1, PTL DEF Spec

-----------------------------------------------------------------------------
(* The state of the jobs on a host is well typed; the channel of slots is  *)
(* never drained below empty, which TypeOK says and SlotsKept shows.       *)
THEOREM TypesAreKept == Spec => []TypeOK
  BY Invariant, PTL DEF IInv

(* For every number of jobs and every budget, the unlocked comparison of   *)
(* ConsumePageBudget lets a domain exceed the greatest max_pages of its    *)
(* jobs by less than the number of jobs.                                   *)
THEOREM DomainPagesAreBounded == Spec => []PagesBounded
  BY Invariant, PTL DEF IInv

(* A job stores no page that it has not paid for and pays for no more than *)
(* its own max_pages, and domains.crawl_pages is exactly the number of     *)
(* pages that all jobs have paid for, whatever commits and rolls back.     *)
THEOREM JobPagesArePaid == Spec => []PagesPaid
<1>1. IInv => PagesPaid
  BY DEF IInv, WorkerInv, CountInv, PagesPaid
<1> QED
  BY <1>1, Invariant, PTL

(* Browsers never exceed the slots, and every return of Render gives the   *)
(* slot and the proxy back.                                                *)
THEOREM SlotsAreReturned == Spec => []SlotsKept
  BY Invariant, PTL DEF IInv

(* The cache of probes, shared and written back by every job, never makes  *)
(* up a status that no probe has observed.                                 *)
THEOREM ProbesAreObserved == Spec => []CrawledIsProbed
  BY Invariant, PTL DEF IInv

=============================================================================
