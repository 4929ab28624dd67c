----------------------------- MODULE WorkQueue -----------------------------
(***************************************************************************)
(* What a job's table of candidates promises, whoever works on it: an item *)
(* enters once, is worked on by one claim after another, is retried only   *)
(* before its last attempt, ends as a dead letter only after it, and an    *)
(* item that has ended stays ended.  One step concerns one item.           *)
(***************************************************************************)
EXTENDS Naturals

CONSTANTS
  Items,        \* the candidates
  MaxAttempts,  \* the attempt after which there is no retry
  MaxClaims     \* how often an item is claimed, lost claims included

ASSUME QueueLimits == MaxAttempts \in Nat /\ MaxClaims \in Nat

VARIABLES
  state,   \* where each item is
  tries    \* how often it has been claimed

queue == <<state, tries>>

Ended == {"completed", "failed", "dead"}
ItemState == {"absent", "queued", "working", "retryable"} \cup Ended

QueueInit ==
  /\ state = [c \in Items |-> "absent"]
  /\ tries = [c \in Items |-> 0]

Insert(c) ==
  /\ state[c] = "absent"
  /\ state' = [state EXCEPT ![c] = "queued"]
  /\ UNCHANGED tries

(* A working item is claimed again when its claim is lost. *)
Claim(c) ==
  /\ state[c] \in {"queued", "retryable", "working"} /\ tries[c] < MaxClaims
  /\ state' = [state EXCEPT ![c] = "working"]
  /\ tries' = [tries EXCEPT ![c] = @ + 1]

Retry(c) ==
  /\ state[c] = "working" /\ tries[c] < MaxAttempts
  /\ state' = [state EXCEPT ![c] = "retryable"]
  /\ UNCHANGED tries

Settle(c) ==
  /\ state[c] = "working"
  /\ \E s \in Ended :
       /\ s = "dead" => tries[c] >= MaxAttempts
       /\ state' = [state EXCEPT ![c] = s]
  /\ UNCHANGED tries

QueueNext == \E c \in Items : Insert(c) \/ Claim(c) \/ Retry(c) \/ Settle(c)

QueueSpec == QueueInit /\ [][QueueNext]_queue

=============================================================================
