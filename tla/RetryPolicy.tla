---------------------------- MODULE RetryPolicy ----------------------------
(***************************************************************************)
(* Package retry, and what the store's ScheduleRetryAfter makes of the     *)
(* delay it decides on.  Durations are int64 and wrap around.              *)
(***************************************************************************)
EXTENDS Integers, FiniteSetsExt

CONSTANTS
  Second,   \* the units of time in a second
  MaxInt    \* the greatest int64, in those units

ASSUME Widths == Second \in Nat \ {0} /\ MaxInt \in Nat /\ MaxInt > 30 * Second

(* Two's complement. *)
Wrap(n) == ((n + MaxInt + 1) % (2 * (MaxInt + 1))) - (MaxInt + 1)

(* Retry.New with its defaults. *)
NewPolicy(maxAttempts, base, max, jitter) ==
  [MaxAttempts |-> IF maxAttempts < 1 THEN 3 ELSE maxAttempts,
   BaseDelay |-> IF base <= 0 THEN Second ELSE base,
   MaxDelay |-> IF max <= 0 THEN 30 * Second ELSE max,
   Jitter |-> IF jitter < 0 THEN 0 ELSE jitter]

(* The delay doubles with each attempt, up to MaxDelay. *)
Backoff(p, attempt) ==
  LET n == Max({0, attempt - 1})
      d[i \in 0..n] ==
        IF i = 0 THEN p.BaseDelay
        ELSE IF d[i - 1] >= p.MaxDelay \div 2 THEN p.MaxDelay
        ELSE 2 * d[i - 1]
  IN  Min({d[n], p.MaxDelay})

(* An HTTP error that a repetition would not cure. *)
Permanent(err) == err.http /\ err.status # 429 /\ err.status < 500

(* Deviation: the header is overlooked. *)
AskedNothing(err, delay) == delay

(* An error is [http, status, after, n]: the Retry-After header is absent, *)
(* unreadable, n seconds, or a date n units from now (time.Until saturates *)
(* at MaxInt, and a date gone by counts as now).                           *)
Asked(err, delay) ==
  CASE ~err.http \/ err.after \in {"absent", "unreadable"} -> delay
    [] err.http /\ err.after = "seconds" -> Wrap(err.n * Second)
    [] err.http /\ err.after = "date" -> Max({0, err.n})

Decide(p, err, attempt, jitter) ==
  IF attempt >= p.MaxAttempts \/ Permanent(err)
    THEN [Retry |-> FALSE, Delay |-> 0]
    ELSE [Retry |-> TRUE,
          Delay |-> Min({Wrap(Asked(err, Backoff(p, attempt)) + jitter),
                         p.MaxDelay})]

(* Deviation: no lower bound. *)
RetryAfterAtMost(delay) == Min({30 * Second, delay})

(* What ScheduleRetryAfter makes of a delay. *)
RetryAfter(delay) == Min({30 * Second, Max({Second, delay})})

=============================================================================
