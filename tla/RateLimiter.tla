---------------------------- MODULE RateLimiter ----------------------------
(***************************************************************************)
(* Store.AcquireDomainRateLimit: the callers, of whatever job, that share  *)
(* the domain_rate_limits row of one domain.  Rows of two domains have     *)
(* nothing in common.                                                      *)
(*                                                                         *)
(* Each round of the loop is one transaction.  Its first statement locks   *)
(* the row and reads last_started_at; the decision compares that with      *)
(* time.Now(); the update writes now(), which for PostgreSQL is the time   *)
(* at which the transaction began, before it waited for the lock.          *)
(***************************************************************************)
EXTENDS Integers

CONSTANTS
  Callers,    \* the goroutines that call AcquireDomainRateLimit
  Nobody,     \* the holder of a row that is not locked
  Interval,   \* DomainRateLimit, in ticks; zero would switch the limiter off
  MaxDelay,   \* a transaction ends within so many ticks of its begin
  MaxTime     \* bound: the clock stops here

ASSUME NobodyCalls == Nobody \notin Callers
ASSUME Times ==
  Interval \in Nat \ {0} /\ MaxDelay \in Nat /\ MaxTime \in Nat

VARIABLES
  now,        \* the clock the engine and its database share
  last,       \* last_started_at of the row, 0 for 'epoch'
  holder,     \* the transaction that has locked the row
  pc,         \* where in the loop each caller is
  begun,      \* when its transaction began
  wake,       \* when its timer fires
  lastGrant   \* history: when a caller was last let through

vars == <<now, last, holder, pc, begun, wake, lastGrant>>

InTx == {"queued", "decide", "write"}
HoldsRow == {"decide", "write"}
PC == {"out", "through", "sleep"} \cup InTx

(* 'epoch' lies more than an interval in the past. *)
Init ==
  /\ now = Interval /\ last = 0 /\ lastGrant = 0
  /\ holder = Nobody
  /\ pc = [c \in Callers |-> "out"]
  /\ begun = [c \in Callers |-> 0]
  /\ wake = [c \in Callers |-> 0]

Goto(c, l) == pc' = [pc EXCEPT ![c] = l]

(* A caller enters, or its timer fires and it goes round the loop again. *)
Begin(c) ==
  /\ pc[c] \in {"out", "through"} \/ (pc[c] = "sleep" /\ now >= wake[c])
  /\ Goto(c, "queued")
  /\ begun' = [begun EXCEPT ![c] = now]
  /\ wake' = [wake EXCEPT ![c] = 0]
  /\ UNCHANGED <<now, last, holder, lastGrant>>

(* Deviation: a statement that reads the row without locking it. *)
RowFreeAlways == TRUE

RowFree == holder = Nobody

(* INSERT ... ON CONFLICT DO UPDATE ... RETURNING last_started_at *)
LockRow(c) ==
  /\ pc[c] = "queued" /\ RowFree
  /\ holder' = c
  /\ Goto(c, "decide")
  /\ UNCHANGED <<now, last, begun, wake, lastGrant>>

(* Deviation: an interval that is one tick too short. *)
MayStartEarly == now + 1 - last >= Interval

(* wait <= 0 *)
MayStart == now - last >= Interval

Permit(c) ==
  /\ pc[c] = "decide" /\ MayStart
  /\ Goto(c, "write")
  /\ UNCHANGED <<now, last, holder, begun, wake, lastGrant>>

(* The transaction ends, and with it what the caller knew of it. *)
EndTx(c) == begun' = [begun EXCEPT ![c] = 0]

(* Deviations: the transaction stays open while the caller sleeps, or it  *)
(* sleeps for a whole interval instead of the rest of it.                 *)
RefuseKeepsLock(c) ==
  /\ pc[c] = "decide" /\ ~MayStart
  /\ Goto(c, "sleep")
  /\ wake' = [wake EXCEPT ![c] = last + Interval]
  /\ EndTx(c)
  /\ UNCHANGED <<now, last, holder, lastGrant>>
RefuseOversleeps(c) ==
  /\ pc[c] = "decide" /\ ~MayStart
  /\ Goto(c, "sleep")
  /\ holder' = Nobody
  /\ wake' = [wake EXCEPT ![c] = now + Interval]
  /\ EndTx(c)
  /\ UNCHANGED <<now, last, lastGrant>>

(* The transaction is rolled back before the caller sleeps. *)
Refuse(c) ==
  /\ pc[c] = "decide" /\ ~MayStart
  /\ Goto(c, "sleep")
  /\ holder' = Nobody
  /\ wake' = [wake EXCEPT ![c] = last + Interval]
  /\ EndTx(c)
  /\ UNCHANGED <<now, last, lastGrant>>

(* UPDATE ... SET last_started_at=now() and COMMIT. *)
Grant(c) ==
  /\ pc[c] = "write"
  /\ last' = begun[c]
  /\ holder' = Nobody
  /\ lastGrant' = now
  /\ Goto(c, "through") /\ EndTx(c)
  /\ UNCHANGED <<now, wake>>

(* The commit takes effect but its answer is lost: the caller gets an     *)
(* error and does not fetch.                                              *)
GrantLost(c) ==
  /\ pc[c] = "write"
  /\ last' = begun[c]
  /\ holder' = Nobody
  /\ Goto(c, "out") /\ EndTx(c)
  /\ UNCHANGED <<now, wake, lastGrant>>

(* A statement fails, or the context is cancelled in it or during the     *)
(* sleep: the transaction is rolled back and the error returned.          *)
GiveUp(c) ==
  /\ pc[c] \in InTx \cup {"sleep"}
  /\ holder' = IF pc[c] \in HoldsRow THEN Nobody ELSE holder
  /\ Goto(c, "out") /\ EndTx(c)
  /\ wake' = [wake EXCEPT ![c] = 0]
  /\ UNCHANGED <<now, last, lastGrant>>

Tick ==
  /\ now < MaxTime
  /\ \A c \in Callers : pc[c] \in InTx => now - begun[c] < MaxDelay
  /\ now' = now + 1
  /\ UNCHANGED <<last, holder, pc, begun, wake, lastGrant>>

Transact(c) == LockRow(c) \/ Permit(c) \/ Refuse(c) \/ Grant(c)

Next ==
  \/ \E c \in Callers : Begin(c) \/ Transact(c) \/ GrantLost(c) \/ GiveUp(c)
  \/ Tick

Spec == Init /\ [][Next]_vars

(* A statement returns, and PostgreSQL serves the transactions that wait  *)
(* for a row in the order they came: none is passed over for ever.        *)
Fairness == \A c \in Callers : SF_vars(Transact(c))

FairSpec == Spec /\ Fairness

-----------------------------------------------------------------------------
(* Properties. *)

(* Every variable has its type, and the row is locked only by a           *)
(* transaction that is still open.                                        *)
TypeOK ==
  /\ now \in Nat /\ last \in Nat /\ lastGrant \in Nat
  /\ holder \in Callers \cup {Nobody}
  /\ pc \in [Callers -> PC]
  /\ begun \in [Callers -> Nat]
  /\ wake \in [Callers -> Nat]
  /\ holder # Nobody => pc[holder] \in HoldsRow

(* Two callers are let through to one domain at least an interval apart,  *)
(* less the longest time a transaction takes: although the row records    *)
(* when the transaction began and not when it was permitted, the error    *)
(* does not add up over many starts (AcquireDomainRateLimit).             *)
Spaced ==
  [][\A c \in Callers :
       (pc[c] = "write" /\ pc'[c] = "through")
         => now - lastGrant >= Interval - MaxDelay]_vars

(* A caller that was refused sleeps no longer than it must: its timer is  *)
(* due an interval after the start the row records, give or take one      *)
(* transaction, even if a slow transaction has set that start back since. *)
SleepsNoLonger ==
  \A c \in Callers : pc[c] = "sleep" => wake[c] <= last + MaxDelay + Interval

(* A transaction that waits for the row gets it: no path through the loop *)
(* leaves the row locked.                                                 *)
RowIsReleased == \A c \in Callers : pc[c] = "queued" ~> pc[c] # "queued"

=============================================================================
