-------------------------- MODULE DecisionsProofs --------------------------
(***************************************************************************)
(* Proofs about the decisions for every policy, error, target, list of     *)
(* rules, request and environment, and every width of the integers.        *)
(***************************************************************************)
EXTENDS Decisions, WellFoundedInduction, TLAPS

-----------------------------------------------------------------------------
(* Induction over the rounds of a loop. *)

LEMMA SmallerRelated ==
  ASSUME NEW m \in Nat, NEW k \in Nat, k < m
  PROVE  <<k, m>> \in OpToRel(<, Nat)
  BY DEF OpToRel

LEMMA LeastNatural ==
  ASSUME NEW T \in SUBSET Nat, T # {}
  PROVE  \E m \in T : \A k \in T : m <= k
<1>1. PICK m \in T : \A k \in T : <<k, m>> \notin OpToRel(<, Nat)
  BY WFMin, NatLessThanWellFounded
<1>2. \A k \in T : ~(k < m)
  BY <1>1, SmallerRelated
<1>3. \A k \in T : m <= k
  BY <1>2
<1> QED
  BY <1>3

(* What holds at first and is passed on from each round to the next. *)
LEMMA Rounds ==
  ASSUME NEW n \in Nat, NEW S \in SUBSET (0..n), 0 \in S,
         \A i \in 1..n : i - 1 \in S => i \in S
  PROVE  S = 0..n
<1> DEFINE T == (0..n) \ S
<1> SUFFICES ASSUME T # {} PROVE FALSE
  OBVIOUS
<1>1. T \in SUBSET Nat
  OBVIOUS
<1> HIDE DEF T
<1>2. PICK m \in T : \A k \in T : m <= k
  BY <1>1, LeastNatural
<1>3. m \in 0..n /\ m \notin S
  BY <1>2 DEF T
<1>4. m \in 1..n
  BY <1>3
<1>5. m - 1 \in 0..n /\ ~(m <= m - 1)
  BY <1>4
<1>6. m - 1 \in S
  BY <1>2, <1>5 DEF T
<1> QED
  BY <1>3, <1>4, <1>6

(* A loop whose rounds compute one value from the last has a run. *)
RunsOf(n, V, v0, next) ==
  {f \in [0..n -> V] :
     f[0] = v0 /\ \A i \in 1..n : f[i] = next[<<i, f[i - 1]>>]}

LEMMA LoopRuns ==
  ASSUME NEW n \in Nat, NEW V, NEW v0 \in V, NEW next \in [Nat \X V -> V]
  PROVE  RunsOf(n, V, v0, next) # {}
<1> DEFINE Runs(k) == {f \in [0..k -> V] :
             f[0] = v0 /\ \A i \in 1..k : f[i] = next[<<i, f[i - 1]>>]}
           S == {k \in 0..n : Runs(k) # {}}
<1>1. 0 \in S
  <2>1. [i \in 0..0 |-> v0] \in Runs(0)
    OBVIOUS
  <2> QED
    BY <2>1
<1>2. ASSUME NEW k \in 1..n, k - 1 \in S PROVE k \in S
  <2>1. PICK f \in Runs(k - 1) : TRUE
    BY <1>2
  <2>2. /\ f \in [0..(k - 1) -> V] /\ f[0] = v0
        /\ \A i \in 1..(k - 1) : f[i] = next[<<i, f[i - 1]>>]
    BY <2>1
  <2> DEFINE g == [i \in 0..k |-> IF i = k THEN next[<<k, f[k - 1]>>] ELSE f[i]]
  <2>3. f[k - 1] \in V /\ <<k, f[k - 1]>> \in Nat \X V
    BY <2>2
  <2>4. next[<<k, f[k - 1]>>] \in V
    BY <2>3
  <2>5. g \in [0..k -> V] /\ g[0] = v0 /\ g[k] = next[<<k, f[k - 1]>>]
    BY <2>2, <2>4
  <2>6. \A i \in 0..(k - 1) : g[i] = f[i]
    OBVIOUS
  <2> HIDE DEF g
  <2>7. ASSUME NEW i \in 1..k PROVE g[i] = next[<<i, g[i - 1]>>]
    <3>1. CASE i = k
      <4>1. k - 1 \in 0..(k - 1)
        OBVIOUS
      <4>2. g[k - 1] = f[k - 1]
        BY <2>6, <4>1
      <4> QED
        BY <2>5, <3>1, <4>2
    <3>2. CASE i # k
      <4>1. i \in 1..(k - 1) /\ i \in 0..(k - 1) /\ i - 1 \in 0..(k - 1)
        BY <3>2
      <4> QED
        BY <2>2, <2>6, <4>1
    <3> QED
      BY <3>1, <3>2
  <2>8. g \in Runs(k)
    BY <2>5, <2>7
  <2> QED
    BY <2>8
<1>3. S = 0..n
  <2> HIDE DEF Runs
  <2>1. S \in SUBSET (0..n)
    OBVIOUS
  <2>2. \A i \in 1..n : i - 1 \in S => i \in S
    BY <1>2
  <2> HIDE DEF S
  <2> QED
    BY <1>1, <2>1, <2>2, Rounds
<1>4. Runs(n) # {}
  BY <1>3
<1> QED
  BY <1>4 DEF RunsOf

-----------------------------------------------------------------------------
(* Numbers. *)

LEMMA PairMin ==
  ASSUME NEW a \in Int, NEW b \in Int
  PROVE  Min({a, b}) = IF a <= b THEN a ELSE b
  BY DEF Min

LEMMA PairMax ==
  ASSUME NEW a \in Int, NEW b \in Int
  PROVE  Max({a, b}) = IF a >= b THEN a ELSE b
  BY DEF Max

LEMMA SmallRemainder ==
  ASSUME NEW a \in Nat, NEW b \in Nat \ {0}, a < b
  PROVE  a % b = a
  OBVIOUS

LEMMA RemainderType ==
  ASSUME NEW a \in Int, NEW b \in Nat \ {0}
  PROVE  a % b \in 0..(b - 1)
  OBVIOUS

(* What an int64 holds wraps around to itself. *)
LEMMA WrapFacts ==
  ASSUME NEW x \in Int
  PROVE  Wrap(x) \in Int /\ (x \in 0..MaxInt => Wrap(x) = x)
<1> DEFINE b == 2 * (MaxInt + 1)
           a == x + MaxInt + 1
<1>1. b \in Nat \ {0} /\ a \in Int /\ b = MaxInt + 1 + MaxInt + 1
  BY Widths
<1>2. Wrap(x) = (a % b) - (MaxInt + 1)
  BY DEF Wrap
<1>3. a % b \in Int
  <2> HIDE DEF a, b
  <2> QED
    BY <1>1, RemainderType
<1>4. x \in 0..MaxInt => a % b = a
  <2> SUFFICES ASSUME x \in 0..MaxInt PROVE a % b = a
    OBVIOUS
  <2>1. a \in Nat /\ a < b
    BY <1>1, Widths
  <2> HIDE DEF a, b
  <2> QED
    BY <1>1, <2>1, SmallRemainder
<1> DEFINE m == a % b
<1>5. m \in Int /\ (x \in 0..MaxInt => m = x + MaxInt + 1) /\ Wrap(x) = m - (MaxInt + 1)
  BY <1>2, <1>3, <1>4
<1> HIDE DEF m
<1> QED
  BY <1>5, Widths

-----------------------------------------------------------------------------
(* Retries. *)

Policy == [MaxAttempts : Nat \ {0}, BaseDelay : Nat \ {0},
           MaxDelay : 1..(30 * Second), Jitter : 0..MaxInt]

(* The loop of Decide has one run, and no round leaves the numbers. *)
LEMMA BackoffType ==
  ASSUME NEW p \in Policy, NEW attempt \in Nat \ {0}
  PROVE  Backoff(p, attempt) \in 0..p.MaxDelay
<1> DEFINE n == Max({0, attempt - 1})
           D == CHOOSE d : d = [i \in 0..n |->
                  IF i = 0 THEN p.BaseDelay
                  ELSE IF d[i - 1] >= p.MaxDelay \div 2 THEN p.MaxDelay
                  ELSE 2 * d[i - 1]]
           next == [x \in Nat \X Nat |->
                      IF x[2] >= p.MaxDelay \div 2 THEN p.MaxDelay ELSE 2 * x[2]]
<1>1. n \in Nat
  BY PairMax
<1>2. p.BaseDelay \in Nat /\ p.MaxDelay \in Nat /\ p.MaxDelay \div 2 \in Nat
  BY Widths DEF Policy
<1>3. next \in [Nat \X Nat -> Nat]
  BY <1>2
<1> HIDE DEF n
<1> HIDE DEF next
<1>4. PICK g \in RunsOf(n, Nat, p.BaseDelay, next) : TRUE
  BY <1>1, <1>2, <1>3, LoopRuns
<1>run. /\ g \in [0..n -> Nat] /\ g[0] = p.BaseDelay
      /\ \A i \in 1..n : g[i] = next[<<i, g[i - 1]>>]
  BY <1>4 DEF RunsOf
<1>5. ASSUME NEW i \in 0..n
      PROVE  g[i] = IF i = 0 THEN p.BaseDelay
                    ELSE IF g[i - 1] >= p.MaxDelay \div 2 THEN p.MaxDelay
                    ELSE 2 * g[i - 1]
  <2>1. CASE i = 0
    BY <1>run, <2>1
  <2>2. CASE i # 0
    <3>1. i \in 1..n /\ i - 1 \in 0..n
      BY <1>1, <2>2
    <3>2. g[i - 1] \in Nat
      BY <1>run, <3>1
    <3>3. g[i] = next[<<i, g[i - 1]>>] /\ <<i, g[i - 1]>> \in Nat \X Nat
      BY <1>1, <1>run, <3>1, <3>2
    <3>4. next[<<i, g[i - 1]>>] =
            IF g[i - 1] >= p.MaxDelay \div 2 THEN p.MaxDelay ELSE 2 * g[i - 1]
      BY <3>3 DEF next
    <3> QED
      BY <2>2, <3>3, <3>4
  <2> QED
    BY <2>1, <2>2
<1>6. g = [i \in 0..n |->
             IF i = 0 THEN p.BaseDelay
             ELSE IF g[i - 1] >= p.MaxDelay \div 2 THEN p.MaxDelay
             ELSE 2 * g[i - 1]]
  BY <1>run, <1>5
<1>7. D = [i \in 0..n |->
             IF i = 0 THEN p.BaseDelay
             ELSE IF D[i - 1] >= p.MaxDelay \div 2 THEN p.MaxDelay
             ELSE 2 * D[i - 1]]
  BY <1>6, Zenon
<1>8. Backoff(p, attempt) = Min({D[n], p.MaxDelay})
  BY Zenon DEF Backoff, n
<1> HIDE DEF D
<1> DEFINE S == {i \in 0..n : D[i] \in Nat}
<1>9. 0 \in S
  BY <1>1, <1>2, <1>7
<1>10. ASSUME NEW i \in 1..n, i - 1 \in S PROVE i \in S
  <2>1. D[i] = IF D[i - 1] >= p.MaxDelay \div 2 THEN p.MaxDelay ELSE 2 * D[i - 1]
    BY <1>1, <1>7
  <2> QED
    BY <1>2, <1>10, <2>1
<1>11. S = 0..n
  <2> HIDE DEF S
  <2>1. S \in SUBSET (0..n)
    BY DEF S
  <2> QED
    BY <1>1, <1>9, <1>10, <2>1, Rounds
<1>12. D[n] \in Nat
  BY <1>1, <1>11
<1> QED
  BY <1>2, <1>8, <1>12, PairMin

(* What Decide and ScheduleRetryAfter make of an error, whatever it asks. *)
LEMMA DelayBounds ==
  ASSUME NEW p \in Policies, NEW err \in Errors, NEW attempt \in Attempts,
         NEW jitter \in 0..MaxInt,
         Decide(p, err, attempt, jitter).Retry
  PROVE  LET wait == IF err.after = "seconds" THEN err.n * Second ELSE err.n
             d == Decide(p, err, attempt, jitter)
         IN  /\ d.Delay <= p.MaxDelay /\ RetryAfter(d.Delay) \in Second..(30 * Second)
             /\ err.after \in {"seconds", "date"} /\ wait + jitter <= MaxInt
                  => RetryAfter(d.Delay) >= Min({wait, p.MaxDelay})
<1> DEFINE wait == IF err.after = "seconds" THEN err.n * Second ELSE err.n
           back == Backoff(p, attempt)
           ask == Asked(err, back)
           delay == Decide(p, err, attempt, jitter).Delay
<1>1. /\ p \in Policy /\ attempt \in Nat \ {0} /\ p.MaxDelay \in 1..(30 * Second)
      /\ err.n \in Int /\ err.http \in BOOLEAN /\ jitter \in Nat
      /\ err.after \in {"absent", "unreadable", "seconds", "date"}
      /\ err.after = "seconds" => err.n >= 0
      /\ err.after \in {"seconds", "date"} => err.http
  BY RetryInputs, Widths DEF Policy
<1>2. back \in Int
  BY <1>1, BackoffType, Widths DEF Policy
<1>3. delay = Min({Wrap(ask + jitter), p.MaxDelay})
  BY DEF Decide
<1>4. err.n * Second \in Int /\ (err.after = "seconds" => err.n * Second >= 0)
  BY <1>1, Widths
<1>5. wait \in Int
  BY <1>1, <1>4
<1>6. ask \in Int /\ (err.after \in {"seconds", "date"} /\ wait \in 0..MaxInt => ask = wait)
      /\ (err.after = "date" /\ wait < 0 => ask = 0)
  <2>1. CASE err.after = "seconds"
    <3>1. ask = Wrap(wait) /\ err.http
      BY <1>1, <2>1 DEF Asked
    <3> HIDE DEF wait
    <3> QED
      BY <1>5, <2>1, <3>1, WrapFacts
  <2>2. CASE err.after = "date"
    <3>1. ask = Max({0, wait})
      BY <1>1, <2>2 DEF Asked
    <3> HIDE DEF wait
    <3> QED
      BY <1>5, <3>1, <2>2, PairMax
  <2>3. CASE err.after \in {"absent", "unreadable"}
    <3>1. ask = back
      BY <2>3 DEF Asked
    <3> QED
      BY <1>2, <2>3, <3>1
  <2> QED
    BY <1>1, <2>1, <2>2, <2>3
<1> HIDE DEF wait, ask, back, delay
<1> DEFINE w == Wrap(ask + jitter)
<1>7. w \in Int /\ (ask + jitter \in 0..MaxInt => w = ask + jitter)
  BY <1>1, <1>6, WrapFacts
<1> HIDE DEF w
<1>8. delay = (IF w <= p.MaxDelay THEN w ELSE p.MaxDelay) /\ p.MaxDelay \in Int
  BY <1>1, <1>3, <1>7, PairMin, Widths DEF w
<1>9. delay \in Int /\ delay <= p.MaxDelay
  BY <1>7, <1>8
<1>10. RetryAfter(delay) = IF delay >= 30 * Second THEN 30 * Second
                           ELSE IF delay >= Second THEN delay ELSE Second
  <2> DEFINE m == Max({Second, delay})
  <2>1. m = (IF Second >= delay THEN Second ELSE delay) /\ m \in Int
    BY <1>9, PairMax, Widths
  <2>2. RetryAfter(delay) = Min({30 * Second, m}) /\ 30 * Second \in Int
    BY Widths DEF RetryAfter
  <2> HIDE DEF m
  <2>3. RetryAfter(delay) = IF 30 * Second <= m THEN 30 * Second ELSE m
    BY <2>1, <2>2, PairMin
  <2> QED
    BY <1>9, <2>1, <2>3, Widths
<1>11. RetryAfter(delay) \in Second..(30 * Second)
  BY <1>9, <1>10, Widths
<1>12. ASSUME err.after \in {"seconds", "date"}, wait + jitter <= MaxInt
       PROVE  RetryAfter(delay) >= Min({wait, p.MaxDelay})
  <2>1. Min({wait, p.MaxDelay}) = IF wait <= p.MaxDelay THEN wait ELSE p.MaxDelay
    BY <1>5, <1>8, PairMin
  <2>2. CASE wait < 0
    BY <1>5, <1>8, <1>9, <1>10, <2>1, <2>2, Widths
  <2>3. CASE wait >= 0
    <3>1. wait \in 0..MaxInt /\ ask = wait
      BY <1>1, <1>5, <1>6, <1>12, <2>3, Widths
    <3>2. w = wait + jitter /\ w >= wait
      BY <1>1, <1>5, <1>7, <1>12, <2>3, <3>1, Widths
    <3> QED
      BY <1>1, <1>5, <1>8, <1>9, <1>10, <2>1, <3>2, Widths
  <2> QED
    BY <1>5, <2>2, <2>3
<1> QED
  BY <1>9, <1>11, <1>12 DEF wait, delay

-----------------------------------------------------------------------------
(* Routing. *)

Decision == [DeepCrawl : BOOLEAN, Probe : BOOLEAN, Priority : Int]

(* One round of the loop over the rules. *)
Round(d, rule, active, wp, wc) ==
  IF Applies(rule, active, wp, wc) THEN AddRule(d, rule) ELSE d

(* What the rules of a set decide together, in no order. *)
Decides(d, R, active, wp, wc) ==
  LET A == {r \in R : Applies(r, active, wp, wc)}
  IN  /\ d \in Decision
      /\ d.DeepCrawl <=> \E r \in A : r.deep
      /\ d.Probe <=> active \/ \E r \in A : r.probe
      /\ d.Priority = 0 \/ \E r \in A : r.priority = d.Priority
      /\ d.Priority >= 0 /\ \A r \in A : r.priority <= d.Priority

(* There is at most one such decision. *)
LEMMA DecidesOnce ==
  ASSUME NEW R \in SUBSET Rule, NEW active, NEW wp, NEW wc, NEW d, NEW e,
         Decides(d, R, active, wp, wc), Decides(e, R, active, wp, wc)
  PROVE  d = e
<1>1. d \in Decision /\ e \in Decision
  BY DEF Decides
<1>2. (d.DeepCrawl <=> e.DeepCrawl) /\ (d.Probe <=> e.Probe)
  BY DEF Decides
<1>3. d.DeepCrawl = e.DeepCrawl /\ d.Probe = e.Probe
  BY <1>1, <1>2 DEF Decision
<1>4. d.Priority <= e.Priority /\ e.Priority <= d.Priority
  BY <1>1 DEF Decides, Decision
<1>5. d.Priority = e.Priority
  BY <1>1, <1>4 DEF Decision
<1> QED
  BY <1>1, <1>3, <1>5 DEF Decision

(* A round adds one rule to what the ones before it decide. *)
LEMMA RoundAdds ==
  ASSUME NEW R \in SUBSET Rule, NEW rule \in Rule, NEW active, NEW wp, NEW wc, NEW d,
         Decides(d, R, active, wp, wc)
  PROVE  Decides(Round(d, rule, active, wp, wc), R \cup {rule}, active, wp, wc)
<1> DEFINE A(S) == {r \in S : Applies(r, active, wp, wc)}
           e == Round(d, rule, active, wp, wc)
<1>1. /\ d \in Decision
      /\ d.DeepCrawl <=> \E r \in A(R) : r.deep
      /\ d.Probe <=> active \/ \E r \in A(R) : r.probe
      /\ d.Priority = 0 \/ \E r \in A(R) : r.priority = d.Priority
      /\ d.Priority >= 0 /\ \A r \in A(R) : r.priority <= d.Priority
  BY DEF Decides
<1>2. CASE ~Applies(rule, active, wp, wc)
  <2>1. A(R \cup {rule}) = A(R) /\ e = d
    BY <1>2 DEF Round
  <2> QED
    BY <1>1, <2>1 DEF Decides
<1>3. CASE Applies(rule, active, wp, wc)
  <2>1. A(R \cup {rule}) = A(R) \cup {rule}
    BY <1>3
  <2>2. e = AddRule(d, rule)
    BY <1>3 DEF Round
  <2>3. /\ e.DeepCrawl = (d.DeepCrawl \/ rule.deep) /\ e.Probe = (d.Probe \/ rule.probe)
        /\ e.Priority = IF rule.priority > d.Priority THEN rule.priority ELSE d.Priority
    BY <2>2 DEF AddRule
  <2>4. /\ rule.deep \in BOOLEAN /\ rule.probe \in BOOLEAN /\ rule.priority \in Int
        /\ d.DeepCrawl \in BOOLEAN /\ d.Probe \in BOOLEAN /\ d.Priority \in Int
    BY <1>1 DEF Rule, Decision
  <2>5. e \in Decision
    BY <2>2, <2>4 DEF AddRule, Decision
  <2> HIDE DEF e
  <2>6. e.DeepCrawl <=> \E r \in A(R) \cup {rule} : r.deep
    BY <1>1, <2>3
  <2>7. e.Probe <=> active \/ \E r \in A(R) \cup {rule} : r.probe
    BY <1>1, <2>3
  <2>8. e.Priority = 0 \/ \E r \in A(R) \cup {rule} : r.priority = e.Priority
    BY <1>1, <2>3, <2>4
  <2>9. e.Priority >= 0 /\ \A r \in A(R) \cup {rule} : r.priority <= e.Priority
    <3>1. \A r \in A(R) : r.priority \in Int
      BY DEF Rule
    <3> QED
      BY <1>1, <2>3, <2>4, <3>1
  <2> QED
    BY <2>1, <2>5, <2>6, <2>7, <2>8, <2>9 DEF Decides, e
<1> QED
  BY <1>2, <1>3

RulesOf(rules) == {rules[i] : i \in 1..Len(rules)}

(* The loop of RouteWithRules decides what the set of its rules does. *)
LEMMA RouteDecides ==
  ASSUME NEW rules \in Seq(Rule), NEW active \in BOOLEAN, NEW wp, NEW wc
  PROVE  Decides(RouteWithRules(active, wp, wc, rules), RulesOf(rules), active, wp, wc)
<1> DEFINE n == Len(rules)
           d0 == [DeepCrawl |-> FALSE, Probe |-> active, Priority |-> 0]
           D == CHOOSE d : d = [i \in 0..n |->
                  IF i = 0 THEN [DeepCrawl |-> FALSE, Probe |-> active, Priority |-> 0]
                  ELSE IF Applies(rules[i], active, wp, wc) THEN AddRule(d[i - 1], rules[i])
                  ELSE d[i - 1]]
           next == [x \in Nat \X Decision |->
                      IF x[1] \in 1..n THEN Round(x[2], rules[x[1]], active, wp, wc)
                      ELSE x[2]]
<1>1. n \in Nat /\ \A i \in 1..n : rules[i] \in Rule
  OBVIOUS
<1>2. d0 \in Decision
  BY DEF Decision
<1>3. \A d \in Decision, i \in 1..n : Round(d, rules[i], active, wp, wc) \in Decision
  BY <1>1 DEF Round, AddRule, Decision, Rule
<1>4. next \in [Nat \X Decision -> Decision]
  BY <1>3
<1> HIDE DEF next, d0
<1>5. PICK g \in RunsOf(n, Decision, d0, next) : TRUE
  BY <1>1, <1>2, <1>4, LoopRuns
<1>6. /\ g \in [0..n -> Decision] /\ g[0] = d0
      /\ \A i \in 1..n : g[i] = next[<<i, g[i - 1]>>]
  BY <1>5 DEF RunsOf
<1>7. ASSUME NEW i \in 0..n
      PROVE  g[i] = IF i = 0 THEN d0 ELSE Round(g[i - 1], rules[i], active, wp, wc)
  <2>1. CASE i = 0
    BY <1>6, <2>1
  <2>2. CASE i # 0
    <3>1. i \in 1..n /\ i - 1 \in 0..n
      BY <1>1, <2>2
    <3>2. g[i - 1] \in Decision
      BY <1>6, <3>1
    <3>3. g[i] = next[<<i, g[i - 1]>>] /\ <<i, g[i - 1]>> \in Nat \X Decision
      BY <1>1, <1>6, <3>1, <3>2
    <3>4. next[<<i, g[i - 1]>>] = Round(g[i - 1], rules[i], active, wp, wc)
      BY <3>1, <3>3 DEF next
    <3> QED
      BY <2>2, <3>3, <3>4
  <2> QED
    BY <2>1, <2>2
<1>8. g = [i \in 0..n |->
             IF i = 0 THEN d0 ELSE Round(g[i - 1], rules[i], active, wp, wc)]
  BY <1>6, <1>7
<1>9. g = [i \in 0..n |->
             IF i = 0 THEN [DeepCrawl |-> FALSE, Probe |-> active, Priority |-> 0]
             ELSE IF Applies(rules[i], active, wp, wc) THEN AddRule(g[i - 1], rules[i])
             ELSE g[i - 1]]
  BY <1>8, Zenon DEF Round, d0
<1>10. D = [i \in 0..n |->
             IF i = 0 THEN [DeepCrawl |-> FALSE, Probe |-> active, Priority |-> 0]
             ELSE IF Applies(rules[i], active, wp, wc) THEN AddRule(D[i - 1], rules[i])
             ELSE D[i - 1]]
  BY <1>9, Zenon
<1>11. RouteWithRules(active, wp, wc, rules) = D[n]
  BY Zenon DEF RouteWithRules
<1>12. D = [i \in 0..n |->
              IF i = 0 THEN d0 ELSE Round(D[i - 1], rules[i], active, wp, wc)]
  BY <1>10, Zenon DEF Round, d0
<1> HIDE DEF D
<1> DEFINE R(i) == {rules[j] : j \in 1..i}
           S == {i \in 0..n : Decides(D[i], R(i), active, wp, wc)}
<1>13. 0 \in S
  <2>1. R(0) = {} /\ D[0] = d0 /\ 0 \in 0..n
    BY <1>1, <1>12
  <2>2. Decides(d0, {}, active, wp, wc)
    BY <1>2 DEF Decides, d0
  <2> QED
    BY <2>1, <2>2
<1>14. ASSUME NEW i \in 1..n, i - 1 \in S PROVE i \in S
  <2>1. D[i] = Round(D[i - 1], rules[i], active, wp, wc) /\ i \in 0..n
    BY <1>1, <1>12
  <2>2. R(i) = R(i - 1) \cup {rules[i]} /\ R(i - 1) \in SUBSET Rule /\ rules[i] \in Rule
    BY <1>1
  <2>3. Decides(D[i - 1], R(i - 1), active, wp, wc)
    BY <1>14
  <2> HIDE DEF R
  <2>4. Decides(D[i], R(i), active, wp, wc)
    BY <2>1, <2>2, <2>3, RoundAdds
  <2> QED
    BY <2>1, <2>4
<1>15. S = 0..n
  <2>1. S \in SUBSET (0..n)
    OBVIOUS
  <2> HIDE DEF S
  <2> QED
    BY <1>1, <1>13, <1>14, <2>1, Rounds
<1>16. Decides(D[n], R(n), active, wp, wc)
  BY <1>1, <1>15
<1> QED
  BY <1>11, <1>16 DEF RulesOf

(* The default rules are rules. *)
LEMMA DefaultRulesType == DefaultRules \in Seq(Rule)
  BY DEF DefaultRules, Rule

(* More rules, and more technologies, make for more links to follow. *)
LEMMA RouteMonotonic ==
  ASSUME NEW some \in Seq(Rule), NEW all \in Seq(Rule), RulesOf(some) \subseteq RulesOf(all),
         NEW wp1 \in BOOLEAN, NEW wc1 \in BOOLEAN, NEW wp2 \in BOOLEAN, NEW wc2 \in BOOLEAN,
         wp1 => wp2, wc1 => wc2
  PROVE  LET d == RouteWithRules(TRUE, wp1, wc1, some)
             e == RouteWithRules(TRUE, wp2, wc2, all)
         IN  (d.DeepCrawl => e.DeepCrawl) /\ d.Priority <= e.Priority
<1> DEFINE d == RouteWithRules(TRUE, wp1, wc1, some)
           e == RouteWithRules(TRUE, wp2, wc2, all)
<1>1. Decides(d, RulesOf(some), TRUE, wp1, wc1) /\ Decides(e, RulesOf(all), TRUE, wp2, wc2)
  BY RouteDecides
<1>2. \A r \in RulesOf(some) : Applies(r, TRUE, wp1, wc1) => Applies(r, TRUE, wp2, wc2)
  BY DEF Applies
<1> HIDE DEF d, e
<1>3. d.DeepCrawl => e.DeepCrawl
  BY <1>1, <1>2 DEF Decides
<1>4. d.Priority <= e.Priority
  BY <1>1, <1>2 DEF Decides, Decision
<1> QED
  BY <1>3, <1>4 DEF d, e

(* A capability that is switched off takes links away and adds none. *)
LEMMA SwitchedOff ==
  ASSUME NEW wp \in BOOLEAN, NEW wc \in BOOLEAN, NEW link \in BOOLEAN, NEW rules \in Seq(Rule),
         NEW caps \in [wordpress : BOOLEAN, woocommerce : BOOLEAN, deep_crawl : BOOLEAN],
         NEW k \in DOMAIN caps,
         FollowsLinks(wp, wc, [caps EXCEPT ![k] = FALSE], rules, link)
  PROVE  FollowsLinks(wp, wc, caps, rules, link)
<1> DEFINE less == [caps EXCEPT ![k] = FALSE]
           used == IF rules = <<>> THEN DefaultRules ELSE rules
<1>1. /\ less.wordpress \in BOOLEAN /\ less.woocommerce \in BOOLEAN
      /\ caps.wordpress \in BOOLEAN /\ caps.woocommerce \in BOOLEAN
      /\ less.wordpress => caps.wordpress
      /\ less.woocommerce => caps.woocommerce
      /\ less.deep_crawl => caps.deep_crawl
  OBVIOUS
<1>2. used \in Seq(Rule) /\ RulesOf(used) \subseteq RulesOf(used)
  BY DefaultRulesType
<1>3. /\ RouteWithRules(TRUE, wp /\ less.wordpress, wc /\ less.woocommerce, used).DeepCrawl
      /\ link /\ less.deep_crawl
  BY DEF FollowsLinks, RouteCandidate
<1> HIDE DEF less, used
<1>4. /\ (wp /\ less.wordpress) \in BOOLEAN /\ (wc /\ less.woocommerce) \in BOOLEAN
      /\ (wp /\ caps.wordpress) \in BOOLEAN /\ (wc /\ caps.woocommerce) \in BOOLEAN
      /\ (wp /\ less.wordpress) => (wp /\ caps.wordpress)
      /\ (wc /\ less.woocommerce) => (wc /\ caps.woocommerce)
  BY <1>1
<1>5. RouteWithRules(TRUE, wp /\ caps.wordpress, wc /\ caps.woocommerce, used).DeepCrawl
  BY <1>2, <1>3, <1>4, RouteMonotonic
<1> QED
  BY <1>1, <1>3, <1>5 DEF FollowsLinks, RouteCandidate, used

(* The same rules in another order, or without the last ones. *)
LEMMA RulesReordered ==
  ASSUME NEW rules \in Seq(Rule)
  PROVE  /\ Reverse(rules) \in Seq(Rule) /\ RulesOf(Reverse(rules)) = RulesOf(rules)
         /\ \A i \in 0..Len(rules) :
              /\ SubSeq(rules, 1, i) \in Seq(Rule)
              /\ RulesOf(SubSeq(rules, 1, i)) \subseteq RulesOf(rules)
<1> DEFINE n == Len(rules)
           rev == Reverse(rules)
<1>1. n \in Nat /\ rules \in [1..n -> Rule]
  OBVIOUS
<1>2. rev = [i \in 1..n |-> rules[(n - i) + 1]] /\ \A i \in 1..n : (n - i) + 1 \in 1..n
  BY <1>1 DEF Reverse
<1>3. rev \in [1..n -> Rule]
  BY <1>1, <1>2
<1>4. rev \in Seq(Rule) /\ Len(rev) = n
  BY <1>1, <1>3
<1> HIDE DEF rev
<1>5. RulesOf(rev) \subseteq RulesOf(rules)
  BY <1>1, <1>2, <1>4 DEF RulesOf
<1>6. ASSUME NEW i \in 1..n PROVE rules[i] \in RulesOf(rev)
  <2>1. (n - i) + 1 \in 1..n /\ (n - ((n - i) + 1)) + 1 = i
    BY <1>1
  <2>2. rev[(n - i) + 1] = rules[i]
    BY <1>2, <2>1
  <2> QED
    BY <1>4, <2>1, <2>2 DEF RulesOf
<1>7. RulesOf(rev) = RulesOf(rules)
  BY <1>5, <1>6 DEF RulesOf
<1>8. ASSUME NEW i \in 0..n
      PROVE  /\ SubSeq(rules, 1, i) \in Seq(Rule)
             /\ RulesOf(SubSeq(rules, 1, i)) \subseteq RulesOf(rules)
  <2>1. SubSeq(rules, 1, i) \in Seq(Rule) /\ Len(SubSeq(rules, 1, i)) = i
    BY <1>1
  <2>2. \A j \in 1..i : SubSeq(rules, 1, i)[j] = rules[j] /\ j \in 1..n
    BY <1>1
  <2> QED
    BY <2>1, <2>2 DEF RulesOf
<1> QED
  BY <1>4, <1>7, <1>8 DEF rev

-----------------------------------------------------------------------------
(* Targets. *)

(* What Match asks of a page, part by part. *)
Offers(page, T) == T \subseteq {Fold[u] : u \in page.technologies}
Calls(page, phone) == phone # "any" => (phone = "yes") = page.phone
Within(page, C) == C # {} => InferCountry(page) \in C \ {""}

LEMMA MatchParts ==
  ASSUME NEW T, NEW C, NEW D, NEW phone, NEW page
  PROVE  Match(FromMap(Target(T, C, D, phone)), page) <=>
           /\ Offers(page, Names(T))
           /\ Calls(page, phone)
           /\ Within(page, Names(C) \cup Names(D))
<1> DEFINE c == FromMap(Target(T, C, D, phone))
           all == Names(C) \cup Names(D)
<1>1. c.Technologies = Names(T) /\ c.Countries = all /\ c.Phone = phone
  BY DEF FromMap, Target
<1> HIDE DEF c, all
<1>2. Match(c, page) <=> /\ Offers(page, Names(T))
                         /\ Calls(page, phone)
                         /\ Within(page, all)
  BY <1>1, Zenon DEF Match, InCountry, Offers, Calls, Within
<1> QED
  BY <1>2 DEF c, all

(* What FromMap makes of a value: its names one by one, or nothing. *)
LEMMA NamesFacts ==
  /\ Names(None) = {}
  /\ \A S : Names(ListOf(S)) = {Fold[x] : x \in S \cap DOMAIN Fold} \ {""}
  /\ \A value : ~value.list => Names(value) = {}
<1>1. \A S : Names(ListOf(S)) = {Fold[x] : x \in S \cap DOMAIN Fold} \ {""}
  BY DEF Names, ListOf
<1>2. \A value : ~value.list => Names(value) = {}
  BY DEF Names
<1>3. Names(None) = {}
  BY DEF Names, None, ListOf
<1> QED
  BY <1>1, <1>2, <1>3

LEMMA NamesApart ==
  ASSUME NEW value, value = [list |-> value.list, names |-> value.names],
         value.list \in BOOLEAN, NEW page
  PROVE  Offers(page, Names(value))
           <=> \A t \in value.names : Offers(page, Names([value EXCEPT !.names = {t}]))
<1> DEFINE one(t) == [value EXCEPT !.names = {t}]
<1>1. \A t : one(t).list = value.list /\ one(t).names = {t}
  OBVIOUS
<1> HIDE DEF one
<1>2. CASE ~value.list
  BY <1>1, <1>2, NamesFacts DEF Offers, one
<1>3. CASE value.list
  <2>1. Names(value) = {Fold[x] : x \in value.names \cap DOMAIN Fold} \ {""}
    BY <1>3 DEF Names
  <2>2. \A t : Names(one(t)) = {Fold[x] : x \in {t} \cap DOMAIN Fold} \ {""}
    BY <1>1, <1>3 DEF Names
  <2> DEFINE P == {Fold[u] : u \in page.technologies}
  <2>3. \A T : Offers(page, T) <=> \A n \in T : n \in P
    BY DEF Offers
  <2>4. \A n : n \in Names(value)
                <=> \E t \in value.names : t \in DOMAIN Fold /\ n = Fold[t] /\ n # ""
    BY <2>1
  <2>5. ASSUME NEW t, NEW n
        PROVE  n \in Names(one(t)) <=> t \in DOMAIN Fold /\ n = Fold[t] /\ n # ""
    <3>1. Names(one(t)) = {Fold[x] : x \in {t} \cap DOMAIN Fold} \ {""}
      BY <2>2, Zenon
    <3> QED
      BY <3>1
  <2> HIDE DEF P
  <2>6. Offers(page, Names(value))
          <=> \A t \in value.names : Offers(page, Names(one(t)))
    BY <2>3, <2>4, <2>5
  <2> QED
    BY <2>6 DEF one
<1> QED
  BY <1>2, <1>3

LEMMA TargetParts ==
  ASSUME NEW v \in Targets, NEW page
  PROVE  LET wanted(t) == Match(FromMap(t), page)
             in(C) == wanted(Target(None, ListOf(C), None, "any"))
             named == {z \in DOMAIN Fold : Fold[z] # ""}
         IN  /\ wanted(v) <=>
                  /\ \A t \in v.technologies.names :
                       wanted(Target([v.technologies EXCEPT !.names = {t}], None, None, "any"))
                  /\ wanted(Target(None, None, None, v.phone))
                  /\ wanted(Target(None, v.country, v.countries, "any"))
             /\ Empty(FromMap(v)) => wanted(v)
             /\ \A value \in {v.technologies, v.country, v.countries} :
                  ~value.list \/ value.names \cap named = {}
                    => wanted(Target(value, value, value, "any"))
             /\ \A x, y \in named :
                  /\ in({x, y}) <=> in({x}) \/ in({y})
                  /\ in({x}) /\ in({y}) => Fold[x] = Fold[y]
<1> DEFINE wanted(t) == Match(FromMap(t), page)
           in(C) == wanted(Target(None, ListOf(C), None, "any"))
           named == {z \in DOMAIN Fold : Fold[z] # ""}
<1>1. /\ v = Target(v.technologies, v.country, v.countries, v.phone)
      /\ v.technologies = [list |-> v.technologies.list, names |-> v.technologies.names]
      /\ v.technologies.list \in BOOLEAN
      /\ \A value \in {v.technologies, v.country, v.countries} : value.list \in BOOLEAN
  BY TargetInputs
<1>2. /\ Names(None) = {} /\ {} \cup {} = {} /\ Calls(page, "any")
      /\ Within(page, {}) /\ Offers(page, {})
  BY NamesFacts DEF Calls, Within, Offers
<1>3. \A T, C, D, phone : wanted(Target(T, C, D, phone)) <=>
         /\ Offers(page, Names(T))
         /\ Calls(page, phone)
         /\ Within(page, Names(C) \cup Names(D))
  BY MatchParts, Zenon
<1>4. Empty(FromMap(v)) => wanted(v)
  BY DEF Empty, Match, InCountry
<1> HIDE DEF wanted
<1>5. wanted(v) <=>
        /\ \A t \in v.technologies.names :
             wanted(Target([v.technologies EXCEPT !.names = {t}], None, None, "any"))
        /\ wanted(Target(None, None, None, v.phone))
        /\ wanted(Target(None, v.country, v.countries, "any"))
  <2>1. wanted(v) <=> /\ Offers(page, Names(v.technologies))
                      /\ Calls(page, v.phone)
                      /\ Within(page, Names(v.country) \cup Names(v.countries))
    BY <1>1, <1>3, Zenon
  <2>2. \A T : wanted(Target(T, None, None, "any")) <=> Offers(page, Names(T))
    BY <1>2, <1>3
  <2>3. wanted(Target(None, None, None, v.phone)) <=> Calls(page, v.phone)
    BY <1>2, <1>3
  <2>4. wanted(Target(None, v.country, v.countries, "any"))
          <=> Within(page, Names(v.country) \cup Names(v.countries))
    BY <1>2, <1>3
  <2>5. Offers(page, Names(v.technologies)) <=>
          \A t \in v.technologies.names :
            wanted(Target([v.technologies EXCEPT !.names = {t}], None, None, "any"))
    BY <1>1, <2>2, NamesApart, Zenon
  <2> QED
    BY <2>1, <2>3, <2>4, <2>5, Zenon
<1>6. ASSUME NEW value \in {v.technologies, v.country, v.countries},
             ~value.list \/ value.names \cap named = {}
      PROVE  wanted(Target(value, value, value, "any"))
  <2>1. Names(value) = {}
    BY <1>6 DEF Names
  <2> QED
    BY <1>2, <1>3, <2>1
<1>7. ASSUME NEW C PROVE in(C) <=> Within(page, {Fold[x] : x \in C \cap DOMAIN Fold} \ {""})
  <2> DEFINE N == {Fold[x] : x \in C \cap DOMAIN Fold} \ {""}
  <2>1. Names(ListOf(C)) = N
    BY NamesFacts
  <2> HIDE DEF N
  <2>2. N \cup {} = N
    OBVIOUS
  <2>3. in(C) <=> Within(page, N)
    BY <1>2, <1>3, <2>1, <2>2
  <2> QED
    BY <2>3 DEF N
<1>8. ASSUME NEW x \in named, NEW y \in named
      PROVE  /\ in({x, y}) <=> in({x}) \/ in({y})
             /\ in({x}) /\ in({y}) => Fold[x] = Fold[y]
  <2> DEFINE F(C) == {Fold[z] : z \in C \cap DOMAIN Fold} \ {""}
  <2>1. F({x}) = {Fold[x]} /\ F({y}) = {Fold[y]} /\ F({x, y}) = {Fold[x], Fold[y]}
    OBVIOUS
  <2>2. \A C : in(C) <=> Within(page, F(C))
    BY <1>7
  <2> HIDE DEF F, in
  <2>3. /\ in({x}) <=> Within(page, {Fold[x]})
        /\ in({y}) <=> Within(page, {Fold[y]})
        /\ in({x, y}) <=> Within(page, {Fold[x], Fold[y]})
    BY <2>1, <2>2
  <2> QED
    BY <2>3 DEF Within
<1> QED
  BY <1>4, <1>5, <1>6, <1>8, Zenon DEF wanted

-----------------------------------------------------------------------------
(* The settings of a job. *)

Engine == [Limits -> Nat \ {0}]

LEMMA LoadType ==
  ASSUME NEW environ \in Environs
  PROVE  Load(environ, RowDefault) \in Engine
<1> SUFFICES ASSUME NEW k \in Limits PROVE IntEnv(environ[k], RowDefault[k]) \in Nat \ {0}
  BY DEF Load, Engine
<1>1. environ[k].n \in Int /\ RowDefault[k] \in Nat \ {0}
  BY JobInputs, ConfigSets
<1>2. Atoi(environ[k]) \in Int
  BY <1>1, PairMin, ConfigSets DEF Atoi
<1> QED
  BY <1>1, <1>2 DEF IntEnv

LEMMA LimitsOfJob ==
  ASSUME NEW req \in Requests, NEW engine \in Engine
  PROVE  LET config == Config(req, engine)
             row == Row(config, RowDefault)
         IN  /\ row = WorkerLimits(config, engine)
             /\ \A k \in Limits : row[k] \in 1..engine[k]
             /\ (\A k \in Limits : engine[k] <= Column) => Stored(config, RowDefault)
<1> DEFINE config == Config(req, engine)
           row == Row(config, RowDefault)
<1>1. ASSUME NEW k \in Limits PROVE config[k] \in 1..engine[k] /\ engine[k] \in Nat
  <2>1. engine[k] \in Nat \ {0} /\ (k \in DOMAIN req.limits => req.limits[k] \in Int)
    BY JobInputs DEF Engine
  <2>2. config[k] = IF k \in DOMAIN req.limits /\ req.limits[k] > 0
                      THEN Min({req.limits[k], engine[k]}) ELSE engine[k]
    BY DEF Config
  <2> QED
    BY <2>1, <2>2, PairMin
<1> HIDE DEF config
<1>2. /\ row = [k \in Limits |-> config[k]]
      /\ WorkerLimits(config, engine) = [k \in Limits |-> config[k]]
  BY <1>1 DEF Row, WorkerLimits
<1>3. \A k \in Limits : row[k] = config[k]
  BY <1>2
<1>4. ASSUME \A k \in Limits : engine[k] <= Column PROVE Stored(config, RowDefault)
  BY <1>1, <1>3, <1>4, ConfigSets DEF Stored
<1> HIDE DEF row
<1> QED
  BY <1>1, <1>2, <1>3, <1>4 DEF config, row

LEMMA SwitchOfJob ==
  ASSUME NEW req \in Requests, NEW k \in {"link_discovery", "deep_crawl"}
  PROVE  LET named == {m \in {req.sources, req.capabilities} : k \in DOMAIN m}
         IN  /\ WorkerSwitch(req, k) \/ \E m \in named : ~m[k]
             /\ \/ Replaced(req)
                \/ \E m, n \in named : m[k] # n[k]
                \/ WorkerSwitch(req, k) = (\A m \in named : m[k])
<1> DEFINE named == {m \in {req.sources, req.capabilities} : k \in DOMAIN m}
           kept == Restrict(req.sources, DOMAIN req.sources \cap Switches)
<1>1. /\ k \in Switches /\ DOMAIN Defaults = Switches /\ Defaults[k] = TRUE
      /\ k \in DOMAIN req.sources => req.sources[k] \in BOOLEAN
      /\ k \in DOMAIN req.capabilities => req.capabilities[k] \in BOOLEAN
  BY ConfigSets, JobInputs DEF Defaults
<1>2. CASE Replaced(req)
  <2>1. k \notin DOMAIN Capabilities(req)
    BY <1>2 DEF Capabilities
  <2>2. WorkerSwitch(req, k) =
          IF k = "link_discovery" /\ k \in DOMAIN req.sources THEN req.sources[k] ELSE TRUE
    BY <2>1 DEF WorkerSwitch
  <2> QED
    BY <1>1, <1>2, <2>2
<1>3. CASE ~Replaced(req)
  <2>1. k \in DOMAIN Capabilities(req)
        /\ Capabilities(req)[k] = IF k \in DOMAIN req.capabilities THEN req.capabilities[k]
                                  ELSE IF k \in DOMAIN req.sources THEN req.sources[k]
                                  ELSE TRUE
    BY <1>1, <1>3 DEF Capabilities, Over, Restrict
  <2>2. WorkerSwitch(req, k) =
          IF k = "link_discovery" /\ k \in DOMAIN req.sources THEN req.sources[k]
          ELSE Capabilities(req)[k]
    BY <2>1 DEF WorkerSwitch
  <2> QED
    BY <1>1, <2>1, <2>2
<1> QED
  BY <1>2, <1>3

-----------------------------------------------------------------------------
(* What is asked is a question about the inputs. *)
Asks ==
  \/ asked = Unasked
  \/ \E p \in Policies, err \in Errors, attempt \in Attempts, jitter \in 0..MaxInt :
       asked = [op |-> "retry", p |-> p, err |-> err, attempt |-> attempt,
                jitter |-> jitter]
  \/ \E v \in Targets, page \in Pages :
       asked = [op |-> "target", v |-> v, page |-> page]
  \/ \E wp, wc, link \in BOOLEAN, rules \in Seq(Rule),
        caps \in [wordpress : BOOLEAN, woocommerce : BOOLEAN, deep_crawl : BOOLEAN] :
       asked = [op |-> "route", wp |-> wp, wc |-> wc, link |-> link,
                rules |-> rules, caps |-> caps]
  \/ \E req \in Requests, engine \in Engine :
       asked = [op |-> "create", req |-> req, engine |-> engine]

THEOREM AsksOnly == AskSpec => []Asks
<1>1. AskInit => Asks
  BY DEF AskInit, Asks
<1>2. Asks /\ [AskNext]_asked => Asks'
  <2> SUFFICES ASSUME Asks, [AskNext]_asked PROVE Asks'
    OBVIOUS
  <2>1. CASE UNCHANGED asked
    BY <2>1 DEF Asks
  <2>2. CASE DecideRetry
    <3>1. PICK p \in Policies, err \in Errors, attempt \in Attempts :
            \E jitter \in {0, p.Jitter} :
              asked' = [op |-> "retry", p |-> p, err |-> err, attempt |-> attempt,
                        jitter |-> jitter]
      BY <2>2 DEF DecideRetry
    <3>2. p.Jitter \in 0..MaxInt /\ 0 \in 0..MaxInt
      BY RetryInputs, Widths
    <3> QED
      BY <3>1, <3>2 DEF Asks
  <2>3. CASE MatchTarget
    BY <2>3 DEF MatchTarget, Asks
  <2>4. CASE Route
    BY <2>4, RuleInputs DEF Route, Asks
  <2>5. CASE CreateJob
    BY <2>5, LoadType DEF CreateJob, Asks
  <2>6. CASE Answered
    BY <2>6 DEF Answered, Asks
  <2> QED
    BY <2>1, <2>2, <2>3, <2>4, <2>5, <2>6 DEF AskNext
<1> QED
  BY <1>1, <1>2, PTL DEF AskSpec

(* For every policy, error and width of an int64: Decide and               *)
(* ScheduleRetryAfter wait between one and thirty seconds and honour what  *)
(* a host asks for, unless that overflows.                                 *)
THEOREM RetriesAreBounded == AskSpec => []RetryDelay
<1>1. Asks => RetryDelay
  <2> SUFFICES ASSUME Asks, asked.op = "retry" PROVE RetryDelay
    BY DEF RetryDelay
  <2>1. PICK p \in Policies, err \in Errors, attempt \in Attempts, jitter \in 0..MaxInt :
          asked = [op |-> "retry", p |-> p, err |-> err, attempt |-> attempt,
                   jitter |-> jitter]
    BY DEF Asks, Unasked
  <2>2. asked.p = p /\ asked.err = err /\ asked.attempt = attempt /\ asked.jitter = jitter
    BY <2>1
  <2> QED
    BY <2>2, DelayBounds DEF RetryDelay
<1> QED
  BY <1>1, AsksOnly, PTL

(* For every target, well formed or not, and every page: Match treats      *)
(* technologies, phone and country separately, countries exclude each      *)
(* other, and what FromMap finds to be no list of names asks nothing.      *)
THEOREM TargetsAreIndependent == AskSpec => []TargetIndependent
<1>1. Asks => TargetIndependent
  <2> SUFFICES ASSUME Asks, asked.op = "target" PROVE TargetIndependent
    BY DEF TargetIndependent
  <2>1. PICK v \in Targets, page \in Pages :
          asked = [op |-> "target", v |-> v, page |-> page]
    BY DEF Asks, Unasked
  <2>2. asked.v = v /\ asked.page = page
    BY <2>1
  <2> QED
    BY <2>2, TargetParts DEF TargetIndependent
<1> QED
  BY <1>1, AsksOnly, PTL

(* For every list of rules: the loop of RouteWithRules depends on their    *)
(* set alone and grows with it, and capabilities only take links away.     *)
THEOREM RulesAreASet == AskSpec => []RulesOnlyAdd
<1>1. Asks => RulesOnlyAdd
  <2> SUFFICES ASSUME Asks, asked.op = "route" PROVE RulesOnlyAdd
    BY DEF RulesOnlyAdd
  <2>1. PICK wp \in BOOLEAN, wc \in BOOLEAN, link \in BOOLEAN, rules \in Seq(Rule),
             caps \in [wordpress : BOOLEAN, woocommerce : BOOLEAN, deep_crawl : BOOLEAN] :
          asked = [op |-> "route", wp |-> wp, wc |-> wc, link |-> link,
                   rules |-> rules, caps |-> caps]
    BY DEF Asks, Unasked
  <2>2. /\ asked.wp = wp /\ asked.wc = wc /\ asked.link = link /\ asked.rules = rules
        /\ asked.caps = caps
    BY <2>1
  <2>3. RouteWithRules(TRUE, wp, wc, Reverse(rules)) = RouteWithRules(TRUE, wp, wc, rules)
    <3>1. /\ Decides(RouteWithRules(TRUE, wp, wc, rules), RulesOf(rules), TRUE, wp, wc)
          /\ Decides(RouteWithRules(TRUE, wp, wc, Reverse(rules)), RulesOf(rules), TRUE, wp, wc)
      BY RouteDecides, RulesReordered
    <3>2. RulesOf(rules) \in SUBSET Rule
      BY DEF RulesOf
    <3> QED
      BY <3>1, <3>2, DecidesOnce
  <2>4. ASSUME NEW i \in 0..Len(rules)
        PROVE  LET some == RouteWithRules(TRUE, wp, wc, SubSeq(rules, 1, i))
                   all == RouteWithRules(TRUE, wp, wc, rules)
               IN  (some.DeepCrawl => all.DeepCrawl) /\ some.Priority <= all.Priority
    BY RulesReordered, RouteMonotonic
  <2>5. ASSUME NEW k \in DOMAIN caps,
               FollowsLinks(wp, wc, [caps EXCEPT ![k] = FALSE], rules, link)
        PROVE  FollowsLinks(wp, wc, caps, rules, link)
    BY <2>5, SwitchedOff
  <2> QED
    BY <2>2, <2>3, <2>4, <2>5 DEF RulesOnlyAdd
<1> QED
  BY <1>1, AsksOnly, PTL

(* For every request and environment: createJob, the store and the worker  *)
(* agree on limits that are positive and within the engine's.              *)
THEOREM LimitsAlwaysAgree == AskSpec => []LimitsAgree
<1>1. Asks => LimitsAgree
  <2> SUFFICES ASSUME Asks, asked.op = "create" PROVE LimitsAgree
    BY DEF LimitsAgree
  <2>1. PICK req \in Requests, engine \in Engine :
          asked = [op |-> "create", req |-> req, engine |-> engine]
    BY DEF Asks, Unasked
  <2>2. asked.req = req /\ asked.engine = engine
    BY <2>1
  <2> QED
    BY <2>2, LimitsOfJob DEF LimitsAgree
<1> QED
  BY <1>1, AsksOnly, PTL

(* For every request: the worker's switches are off only if createJob was  *)
(* asked for it, and are what it was asked for unless the request          *)
(* contradicts itself or a limit has overwritten its capabilities.         *)
THEOREM SwitchesAlwaysHonoured == AskSpec => []SwitchesHonoured
<1>1. Asks => SwitchesHonoured
  <2> SUFFICES ASSUME Asks, asked.op = "create" PROVE SwitchesHonoured
    BY DEF SwitchesHonoured
  <2>1. PICK req \in Requests, engine \in Engine :
          asked = [op |-> "create", req |-> req, engine |-> engine]
    BY DEF Asks, Unasked
  <2>2. asked.req = req
    BY <2>1
  <2> QED
    BY <2>2, SwitchOfJob DEF SwitchesHonoured
<1> QED
  BY <1>1, AsksOnly, PTL

=============================================================================
