---------------------------- MODULE QueueProofs ----------------------------
(***************************************************************************)
(* The rows of a job implement WorkQueue, for every number of workers and  *)
(* candidates, as long as leases cover the work.                           *)
(*                                                                         *)
(* One lemma for each statement that changes a row; every other step of    *)
(* DiscoveryJob leaves what WorkQueue sees of the rows alone.              *)
(***************************************************************************)
EXTENDS DiscoveryJobProofs

(* What WorkQueue sees of the rows. *)
RowsKept == status' = status /\ attempts' = attempts /\ dead' = dead

(* Rows that stay as they are are a stuttering step of the queue. *)
LEMMA QueueStutters == ASSUME RowsKept PROVE UNCHANGED Queue!queue
  BY DEF RowsKept, Queue!queue, Shown

(* The insert of a URL is the queue's Insert, or changes nothing. *)
LEMMA QueueInserts ==
  ASSUME TypeOK, NEW c \in Candidates, NEW d, UpsertCandidateDepth(c, d)
  PROVE  Queue!QueueNext \/ UNCHANGED Queue!queue
<1>1. CASE status[c] = "absent"
  <2>1. Queue!Insert(c)
    BY <1>1 DEF TypeOK, UpsertCandidateDepth, Queue!Insert, Shown
  <2> QED
    BY <2>1 DEF Queue!QueueNext
<1>2. CASE status[c] # "absent"
  BY <1>2, QueueStutters DEF UpsertCandidateDepth, RowsKept
<1> QED
  BY <1>1, <1>2

(* A claim is the queue's Claim; the bound on the attempts after it is the *)
(* queue's bound on the claims before it.                                  *)
LEMMA QueueClaims ==
  ASSUME TypeOK, TypeOK', LeaseCoversWork, RetryInv, RetryInv',
         NEW c \in Candidates, FirstClaimable(c), TakeRow(c)
  PROVE  Queue!QueueNext
<1>1. Shown(c) \in {"queued", "retryable", "working"}
  BY DEF FirstClaimable, Claimable, Open, Shown
<1>2. attempts[c] < MaxAttempts + MaxFaults
  BY Limits DEF TypeOK, RetryInv, TakeRow, MaxAttempts
<1>3. Queue!Claim(c)
  BY <1>1, <1>2 DEF TypeOK, TakeRow, Queue!Claim, Shown
<1> QED
  BY <1>3 DEF Queue!QueueNext

(* Settling the row of a held candidate is the queue's Settle. *)
LEMMA QueueSettles ==
  ASSUME TypeOK, LeaseCoversWork, RetryInv, NEW c \in Candidates,
         status[c] = "processing", NEW s \in Final, SetCandidateStatus(c, s)
  PROVE  Queue!QueueNext
<1>1. dead[c] = 0
  BY DEF RetryInv
<1> DEFINE e == IF s = "failed_final" THEN "failed" ELSE s
<1>2. e \in Queue!Ended /\ e # "dead"
  BY DEF Final, Queue!Ended
<1>3. [d \in Candidates |-> Shown(d)]' =
        [[d \in Candidates |-> Shown(d)] EXCEPT ![c] = e]
  BY <1>1 DEF TypeOK, SetCandidateStatus, Final, Shown
<1>4. Queue!Settle(c)
  BY <1>2, <1>3 DEF SetCandidateStatus, Queue!Settle, Shown
<1> QED
  BY <1>4 DEF Queue!QueueNext

(* ScheduleRetry is the queue's Retry before the last attempt, and settles *)
(* the item as a dead letter after it.                                     *)
LEMMA QueueRetries ==
  ASSUME TypeOK, NEW c \in Candidates, status[c] = "processing",
         ScheduleRetryWrite(c, attempts[c])
  PROVE  Queue!QueueNext
<1> USE DEF MaxAttempts
<1>1. CASE attempts[c] >= MaxAttempts
  <2>1. [d \in Candidates |-> Shown(d)]' =
          [[d \in Candidates |-> Shown(d)] EXCEPT ![c] = "dead"]
    <3>1. dead'[c] # 0 /\ status'[c] = "failed_final"
      BY <1>1 DEF TypeOK, ScheduleRetryWrite
    <3>2. \A d \in Candidates \ {c} : Shown(d)' = Shown(d)
      BY <1>1 DEF TypeOK, ScheduleRetryWrite, Shown
    <3> QED
      BY <3>1, <3>2 DEF Shown
  <2>2. Queue!Settle(c)
    BY <1>1, <2>1 DEF ScheduleRetryWrite, Queue!Settle, Queue!Ended, Shown
  <2> QED
    BY <2>2 DEF Queue!QueueNext
<1>2. CASE ~(attempts[c] >= MaxAttempts)
  <2>1. [d \in Candidates |-> Shown(d)]' =
          [[d \in Candidates |-> Shown(d)] EXCEPT ![c] = "retryable"]
    BY <1>2 DEF TypeOK, ScheduleRetryWrite, Shown
  <2>2. Queue!Retry(c)
    BY <1>2, <2>1 DEF TypeOK, ScheduleRetryWrite, Queue!Retry, Shown
  <2> QED
    BY <2>2 DEF Queue!QueueNext
<1> QED
  BY <1>1, <1>2

(* Each step of DiscoveryJob is a step of the queue, or is not seen there. *)
LEMMA QueueStep ==
  ASSUME LeaseCoversWork, TypeInv, TypeInv', HoldInv, RetryInv, RetryInv',
         [Next]_vars
  PROVE  [Queue!QueueNext]_(Queue!queue)
<1> USE DEF TypeInv
<1> DEFINE Seen == Queue!QueueNext \/ UNCHANGED Queue!queue
<1>1. ASSUME NEW w \in Workers, Progress(w) PROVE Seen
  <2>1. CASE ClaimCandidate(w)
    BY <2>1, QueueClaims DEF ClaimCandidate
  <2>2. CASE Complete(w) \/ Fail(w)
    <3>1. cand[w] \in Candidates /\ status[cand[w]] = "processing"
      BY <2>2 DEF LocalOK, HoldInv, HoldingPC, Complete, Fail, At
    <3>2. \E s \in Final : SetCandidateStatus(cand[w], s)
      BY <2>2 DEF Complete, Fail, Final
    <3> QED
      BY <3>1, <3>2, QueueSettles
  <2>3. CASE ScheduleRetry(w)
    <3>1. /\ cand[w] \in Candidates /\ status[cand[w]] = "processing"
          /\ seen[w] = attempts[cand[w]]
      BY <2>3 DEF LocalOK, HoldInv, HoldingPC, ScheduleRetry, At
    <3> QED
      BY <2>3, <3>1, QueueRetries DEF ScheduleRetry
  <2>4. CASE InsertLink(w)
    <3>1. PICK c \in todo[w] : UpsertCandidateDepth(c, depth[cand[w]] + 1)
      BY <2>4 DEF InsertLink
    <3> QED
      BY <3>1, QueueInserts DEF TypeOK
  <2>5. CASE ~(ClaimCandidate(w) \/ Complete(w) \/ Fail(w) \/ ScheduleRetry(w)
               \/ InsertLink(w))
    <3>1. RowsKept
      BY <1>1, <2>5 DEF RowsKept, rowVars, Progress, Loop, ClaimNothing,
         ConsumeURLBudget, PassThrough, ProbeHost, ConsumePageBudget, Fetch,
         ScheduleRetryRead, FinishCount, FinishMark, Abort
    <3> QED
      BY <3>1, QueueStutters
  <2> QED
    BY <2>1, <2>2, <2>3, <2>4, <2>5
<1>2. ASSUME NEW w \in Workers, Faulty(w) PROVE Seen
  <2>1. CASE \E c \in Candidates : FirstClaimable(c) /\ TakeRow(c)
    BY <2>1, QueueClaims
  <2>2. CASE RowsKept
    BY <2>2, QueueStutters
  <2> QED
    BY <1>2, <2>1, <2>2 DEF Faulty, CallFails, AnswerLost, RowsKept, rowVars
<1>3. CASE \E c \in Candidates : Seed(c) \/ Discover(c) \/ ImportCSV(c)
  <2>1. PICK c \in Candidates : UpsertCandidateDepth(c, 0)
    BY <1>3 DEF Seed, Discover, ImportCSV
  <2> QED
    BY <2>1, QueueInserts
<1>4. CASE ~\E c \in Candidates : Seed(c) \/ Discover(c) \/ ImportCSV(c)
  <2>1. CASE Dispatch \/ Request \/ Crash \/ (\E c \in Candidates : Elapse(c))
             \/ UNCHANGED vars
    <3>1. RowsKept
      BY <1>4, <2>1 DEF RowsKept, rowVars, Dispatch, CreateDiscoveryJob,
         SeedRejected, Spawn, StartRunning, RunWorkers, Request, AskPause,
         AskResume, SetAsked, CancelContext, CancelStatus, CancelFails, Crash,
         Elapse, vars
    <3> QED
      BY <3>1, QueueStutters
  <2> QED
    BY <1>1, <1>2, <2>1 DEF Next
<1> QED
  BY <1>3, <1>4

(* As long as leases cover the work, the rows of a job are a work queue:   *)
(* however workers, failing calls, crashes and requests interleave, each   *)
(* URL enters once, ends once, and is retried and buried by its attempts   *)
(* (ClaimCandidate, ScheduleRetry, SetCandidateStatus, UpsertCandidate).   *)
THEOREM RowsImplementQueue == LeaseCoversWork => (Spec => RowsAreAQueue)
<1> SUFFICES ASSUME LeaseCoversWork PROVE Spec => RowsAreAQueue
  OBVIOUS
<1>1. Init => Queue!QueueInit
  BY DEF Init, Queue!QueueInit, Shown
<1>2. Init => RetryInv
  BY Limits DEF Init, RetryInv, Orphan, MaxAttempts
<1>3. TypeInv /\ TypeInv' /\ HoldInv /\ RetryInv /\ RetryInv' /\ [Next]_vars
        => [Queue!QueueNext]_(Queue!queue)
  BY QueueStep
<1> QED
  BY <1>1, <1>2, <1>3, TypeOfInit, TypeOfStep, PhaseOfInit, PhaseStep,
     HoldOfInit, HoldStep, RetryStep, PTL
  DEF Spec, RowsAreAQueue, Queue!QueueSpec

=============================================================================
