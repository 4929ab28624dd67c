------------------------- MODULE RateLimiterProofs -------------------------
(***************************************************************************)
(* Proofs about RateLimiter for every set of callers, every interval and   *)
(* every bound on the duration of a transaction.                           *)
(***************************************************************************)
EXTENDS RateLimiter, TLAPS

(* A transaction that holds the row is the row's holder, is younger than   *)
(* MaxDelay, and what it has decided stays true until it commits, because  *)
(* nobody else can write the row.  What the row records lags behind the    *)
(* last start by at most one transaction.                                  *)
RowInv ==
  /\ \A c \in Callers :
       /\ pc[c] \in HoldsRow => holder = c
       /\ pc[c] \in InTx => begun[c] <= now /\ now <= begun[c] + MaxDelay
       /\ pc[c] = "write" => now - last >= Interval
       /\ pc[c] = "sleep" => wake[c] <= now + Interval
  /\ last <= now /\ lastGrant <= now
  /\ lastGrant <= last + MaxDelay
  /\ SleepsNoLonger

IInv == TypeOK /\ RowInv

USE NobodyCalls, Times DEF PC, InTx, HoldsRow

(* Initially nobody calls. *)
LEMMA InvOfInit == Init => IInv
  BY DEF Init, IInv, TypeOK, RowInv, SleepsNoLonger

(* No step invalidates the invariant. *)
LEMMA InvOfStep == IInv /\ [Next]_vars => IInv'
<1> SUFFICES ASSUME IInv, [Next]_vars PROVE IInv'
  OBVIOUS
<1> USE DEF IInv, TypeOK, RowInv, SleepsNoLonger, Goto, EndTx
<1>1. ASSUME NEW c \in Callers, Begin(c) PROVE IInv'
  BY <1>1 DEF Begin
<1>2. ASSUME NEW c \in Callers, LockRow(c) PROVE IInv'
  BY <1>2 DEF LockRow, RowFree
<1>3. ASSUME NEW c \in Callers, Permit(c) PROVE IInv'
  BY <1>3 DEF Permit, MayStart
<1>4. ASSUME NEW c \in Callers, Refuse(c) PROVE IInv'
  BY <1>4 DEF Refuse, MayStart
<1>5. ASSUME NEW c \in Callers, Grant(c) PROVE IInv'
  BY <1>5 DEF Grant
<1>6. ASSUME NEW c \in Callers, GrantLost(c) PROVE IInv'
  BY <1>6 DEF GrantLost
<1>7. ASSUME NEW c \in Callers, GiveUp(c) PROVE IInv'
  BY <1>7 DEF GiveUp
<1>8. CASE Tick
  BY <1>8 DEF Tick
<1>9. CASE UNCHANGED vars
  BY <1>9 DEF vars
<1> QED
  BY <1>1, <1>2, <1>3, <1>4, <1>5, <1>6, <1>7, <1>8, <1>9
  DEF Next, Transact

(* The invariant holds throughout. *)
LEMMA InvHolds == Spec => []IInv
  BY InvOfInit, InvOfStep, PTL DEF Spec

(* The state of the rate limiter is well-typed, and no lock outlives its   *)
(* transaction, for every set of callers.                                  *)
THEOREM RateLimiterTypes == Spec => []TypeOK
<1>1. IInv => TypeOK
  BY DEF IInv
<1> QED
  BY <1>1, InvHolds, PTL

(* AcquireDomainRateLimit never makes a refused caller sleep longer than   *)
(* it must.                                                                *)
THEOREM NoOversleeping == Spec => []SleepsNoLonger
<1>1. IInv => SleepsNoLonger
  BY DEF IInv, RowInv
<1> QED
  BY <1>1, InvHolds, PTL

(* Starts to one domain keep their distance, however many callers share    *)
(* the row and however their transactions interleave.                      *)
THEOREM StartsAreSpaced == Spec => Spaced
<1> DEFINE Step ==
      \A c \in Callers : (pc[c] = "write" /\ pc'[c] = "through")
                           => now - lastGrant >= Interval - MaxDelay
<1>1. IInv /\ [Next]_vars => [Step]_vars
  BY DEF IInv, TypeOK, RowInv
<1> QED
  BY <1>1, InvHolds, PTL DEF Spec, Spaced

=============================================================================
