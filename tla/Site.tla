-------------------------------- MODULE Site --------------------------------
(***************************************************************************)
(* Several jobs of one project meet on one host.  Each has a goroutine     *)
(* that works on one candidate at a time, and they share the domain's row  *)
(* with its page count, the cached probe of the host, and the browser,     *)
(* which few of them may use at once.  The queue of candidates is that of  *)
(* DiscoveryJob; here a candidate is one turn of the worker's loop.        *)
(***************************************************************************)
EXTENDS Integers, FiniteSets

CONSTANTS
  Jobs,       \* the jobs of the project that have candidates on the host
  MaxPages,   \* discovery_jobs.max_pages, for each job
  Slots,      \* the capacity of the browser's channel slots (2)
  TTL,        \* how long a probe is fresh, in ticks
  MaxTurns    \* bound: how many candidates each job claims

ASSUME SiteLimits ==
  /\ IsFiniteSet(Jobs) /\ Jobs # {}
  /\ MaxPages \in [Jobs -> Nat]
  /\ Slots \in Nat /\ TTL \in Nat \ {0} /\ MaxTurns \in Nat

VARIABLES
  pc,        \* where each worker is in its turn
  turns,     \* how many turns it has begun
  probe,     \* the row of domain_probes: its status
  age,       \* the time since last_probe_at, up to TTL
  held,      \* the status that a worker goes by
  seen,      \* ghost: what the probes have observed
  processed, \* discovery_jobs.processed_pages
  crawled,   \* domains.crawl_pages
  locked,    \* the jobs whose transaction has locked the domain's row
  page,      \* what Fetch and Render have given a worker
  stored,    \* ghost: how many pages each job has handed to UpsertPage
  slots,     \* how many values the channel slots holds
  proxies,   \* the workers whose egress proxy listens
  expired    \* the workers whose time for rendering is over

probeVars == <<probe, age, held, seen>>
budgetVars == <<processed, crawled, locked>>
renderVars == <<slots, proxies, expired>>
vars == <<pc, turns, probeVars, budgetVars, page, stored, renderVars>>

Statuses == {"active", "inactive", "error"}

(* A worker holds a slot from the select to the return of Render, and has  *)
(* an open transaction between its first update and its commit.            *)
Rendering == {j \in Jobs : pc[j] \in {"prepare", "browse"}}
InTransaction == {j \in Jobs : pc[j] \in {"count", "commit"}}

TypeOK ==
  /\ pc \in [Jobs -> {"idle", "fresh", "probe", "write", "budget", "count", "commit",
                      "fetch", "slot", "prepare", "browse", "parse"}]
  /\ turns \in [Jobs -> 0..MaxTurns]
  /\ probe \in Statuses \cup {"none"} /\ age \in 0..TTL
  /\ held \in [Jobs -> Statuses] /\ seen \subseteq Statuses
  /\ processed \in [Jobs -> Nat] /\ crawled \in Nat
  /\ locked \subseteq Jobs
  /\ page \in [Jobs -> {"none", "page", "shell", "http", "network"}]
  /\ stored \in [Jobs -> Nat]
  /\ slots \in Nat /\ proxies \subseteq Jobs /\ expired \subseteq Jobs

Init ==
  /\ pc = [j \in Jobs |-> "idle"]
  /\ turns = [j \in Jobs |-> 0]
  /\ probe = "none" /\ age = 0
  /\ held = [j \in Jobs |-> "inactive"] /\ seen = {}
  /\ processed = [j \in Jobs |-> 0] /\ crawled = 0 /\ locked = {}
  /\ page = [j \in Jobs |-> "none"]
  /\ stored = [j \in Jobs |-> 0]
  /\ slots = 0 /\ proxies = {} /\ expired = {}

At(j, from, to) == pc[j] = from /\ pc' = [pc EXCEPT ![j] = to]

-----------------------------------------------------------------------------
(* A candidate is claimed; EnsureDomain and EnsureHost find the rows, or   *)
(* insert them with no page counted.  They may fail, and with a job that   *)
(* has active_probe off the turn ends too.                                 *)
Begin(j) ==
  /\ turns[j] < MaxTurns
  /\ \E to \in {"fresh", "idle"} : At(j, "idle", to)
  /\ turns' = [turns EXCEPT ![j] = @ + 1]
  /\ UNCHANGED <<probeVars, budgetVars, page, stored, renderVars>>

(* Deviation: a fresh row is taken for an active host. *)
CachedActive == "active"

(* A fresh row is active or not; an error is read as inactive. *)
Cached == IF probe = "active" THEN "active" ELSE "inactive"

(* ProbeFresh, and its use when it says so. *)
ProbeFresh(j) ==
  /\ IF probe # "none" /\ age < TTL
       THEN /\ At(j, "fresh", "write")
            /\ held' = [held EXCEPT ![j] = Cached]
       ELSE At(j, "fresh", "probe") /\ UNCHANGED held
  /\ UNCHANGED <<turns, probe, age, seen, budgetVars, page, stored, renderVars>>

(* The query fails and the candidate is scheduled again. *)
ProbeFreshFails(j) ==
  /\ At(j, "fresh", "idle")
  /\ UNCHANGED <<turns, probeVars, budgetVars, page, stored, renderVars>>

(* A HEAD by https and by http: active if one of them is answered with     *)
(* less than 500, an error if the address is not allowed.                  *)
Probe(j) ==
  /\ At(j, "probe", "write")
  /\ \E s \in Statuses :
       held' = [held EXCEPT ![j] = s] /\ seen' = seen \cup {s}
  /\ UNCHANGED <<turns, probe, age, budgetVars, page, stored, renderVars>>

(* UpsertProbe writes the status, cached or not, with the time of now; its *)
(* error is dropped.  Only an active host is crawled.                      *)
UpsertProbe(j) ==
  /\ At(j, "write", IF held[j] = "active" THEN "budget" ELSE "idle")
  /\ \/ probe' = held[j] /\ age' = 0
     \/ UNCHANGED <<probe, age>>
  /\ UNCHANGED <<turns, held, seen, budgetVars, page, stored, renderVars>>

Tick ==
  /\ probe # "none" /\ age < TTL
  /\ age' = age + 1
  /\ UNCHANGED <<pc, turns, probe, held, seen, budgetVars, page, stored, renderVars>>

-----------------------------------------------------------------------------
(* ConsumePageBudget.  Its first update locks the job's row and reads the  *)
(* domain's last committed count; the second locks the domain's row.       *)

(* Deviation: the domain's count is not looked at. *)
OwnBudgetLeft(j) == processed[j] < MaxPages[j]

BudgetLeft(j) == processed[j] < MaxPages[j] /\ crawled < MaxPages[j]

CountJobPage(j) ==
  /\ At(j, "budget", IF BudgetLeft(j) THEN "count" ELSE "idle")
  /\ UNCHANGED <<turns, probeVars, budgetVars, page, stored, renderVars>>

CountDomainPage(j) ==
  /\ locked = {}
  /\ At(j, "count", "commit")
  /\ locked' = {j}
  /\ UNCHANGED <<turns, probeVars, processed, crawled, page, stored, renderVars>>

(* Both counts become visible; a commit whose answer is lost is an error   *)
(* to the worker, which schedules the candidate again.                     *)
Commit(j) ==
  /\ \E to \in {"fetch", "idle"} : At(j, "commit", to)
  /\ processed' = [processed EXCEPT ![j] = @ + 1]
  /\ crawled' = crawled + 1
  /\ locked' = locked \ {j}
  /\ UNCHANGED <<turns, probeVars, page, stored, renderVars>>

(* Deviation: the worker fetches all the same. *)
FetchAnyway(j) ==
  /\ j \in InTransaction
  /\ pc' = [pc EXCEPT ![j] = "fetch"]
  /\ locked' = locked \ {j}
  /\ UNCHANGED <<turns, probeVars, processed, crawled, page, stored, renderVars>>

(* A statement or the commit fails: the candidate is scheduled again. *)
Rollback(j) ==
  /\ j \in InTransaction
  /\ pc' = [pc EXCEPT ![j] = "idle"]
  /\ locked' = locked \ {j}
  /\ UNCHANGED <<turns, probeVars, processed, crawled, page, stored, renderVars>>

-----------------------------------------------------------------------------
(* A shell that a script must fill, and no page at all, are rendered. *)
Escalates(p) == p \in {"shell", "http", "network"}

(* Fetch gives a page, a shell, an HTTP error (429 or 5xx) or another one. *)
(* Render's time starts with its call, unless it is disabled or refuses    *)
(* the URL.                                                                *)
Fetch(j) ==
  \E p \in {"page", "shell", "http", "network"} :
    /\ page' = [page EXCEPT ![j] = p]
    /\ \/ At(j, "fetch", "parse")
       \/ Escalates(p) /\ At(j, "fetch", "slot")
    /\ expired' = expired \ {j}
    /\ UNCHANGED <<turns, probeVars, budgetVars, stored, slots, proxies>>

(* The time for rendering passes, or the job is cancelled. *)
Expire(j) ==
  /\ pc[j] = "slot" \/ j \in Rendering
  /\ expired' = expired \cup {j}
  /\ UNCHANGED <<pc, turns, probeVars, budgetVars, page, stored, slots, proxies>>

(* The two cases of the select; Go picks any that is ready. *)
TakeSlot(j) ==
  /\ slots < Slots
  /\ At(j, "slot", "prepare")
  /\ slots' = slots + 1
  /\ UNCHANGED <<turns, probeVars, budgetVars, page, stored, proxies, expired>>

(* Deviation: nobody looks at the time while waiting for a slot. *)
KeepWaiting(j) == FALSE /\ UNCHANGED vars

(* Deviation: the slot is given back though it has not been taken. *)
GiveUpSlot(j) ==
  /\ j \in expired
  /\ At(j, "slot", "parse")
  /\ slots' = slots - 1
  /\ UNCHANGED <<turns, probeVars, budgetVars, page, stored, proxies, expired>>

GiveUp(j) ==
  /\ j \in expired
  /\ At(j, "slot", "parse")
  /\ UNCHANGED <<turns, probeVars, budgetVars, page, stored, renderVars>>

(* Deviation: only a browser that ran gives its slot back. *)
ReleaseAfterBrowser(j) ==
  /\ slots' = IF pc[j] = "browse" THEN slots - 1 ELSE slots
  /\ proxies' = proxies \ {j}

(* What Render's deferred calls undo on every return. *)
Release(j) == slots' = slots - 1 /\ proxies' = proxies \ {j}

(* The proxy listens and the browser is started. *)
StartBrowser(j) ==
  /\ At(j, "prepare", "browse")
  /\ proxies' = proxies \cup {j}
  /\ UNCHANGED <<turns, probeVars, budgetVars, page, stored, slots, expired>>

(* No binary, or no port for the proxy. *)
RenderFails(j) ==
  /\ At(j, "prepare", "parse")
  /\ Release(j)
  /\ UNCHANGED <<turns, probeVars, budgetVars, page, stored, expired>>

(* The browser ends with a document, or with none: killed, failed, empty.  *)
(* Its output may stay open for ever, in the hands of a child.             *)
BrowserEnds(j) ==
  /\ At(j, "browse", "parse")
  /\ Release(j)
  /\ \/ page' = [page EXCEPT ![j] = "page"] /\ j \notin expired
     \/ UNCHANGED page
  /\ UNCHANGED <<turns, probeVars, budgetVars, stored, expired>>

(* A page is stored, analysed and the candidate settled; without one it is *)
(* scheduled again or given up.                                            *)
Settle(j) ==
  /\ At(j, "parse", "idle")
  /\ stored' = IF page[j] \in {"page", "shell"}
                 THEN [stored EXCEPT ![j] = @ + 1] ELSE stored
  /\ page' = [page EXCEPT ![j] = "none"]
  /\ UNCHANGED <<turns, probeVars, budgetVars, renderVars>>

-----------------------------------------------------------------------------
Turn(j) ==
  \/ Begin(j) \/ ProbeFresh(j) \/ ProbeFreshFails(j) \/ Probe(j) \/ UpsertProbe(j)
  \/ CountJobPage(j) \/ CountDomainPage(j) \/ Commit(j) \/ Rollback(j)
  \/ Fetch(j) \/ Expire(j) \/ TakeSlot(j) \/ GiveUp(j)
  \/ StartBrowser(j) \/ RenderFails(j) \/ BrowserEnds(j) \/ Settle(j)

Next == Tick \/ \E j \in Jobs : Turn(j)

(* Statements of a transaction are answered, PostgreSQL grants a row lock  *)
(* to those who wait for it in turn, and a context ends.  Nothing is said  *)
(* of a browser that has been started, nor of the servers.                 *)
Fairness ==
  \A j \in Jobs : /\ WF_vars(Commit(j)) /\ SF_vars(CountDomainPage(j))
                  /\ WF_vars(Expire(j)) /\ WF_vars(GiveUp(j))

Spec == Init /\ [][Next]_vars /\ Fairness

-----------------------------------------------------------------------------
(* domains.crawl_pages, which ConsumePageBudget compares with max_pages    *)
(* without the lock of its row, exceeds the greatest max_pages of the jobs *)
(* by less than the number of jobs, transactions under way included.       *)
PagesBounded ==
  \E j \in Jobs :
    crawled + Cardinality(InTransaction) <= MaxPages[j] + Cardinality(Jobs) - 1

(* The pages that the jobs have paid for, numbered for each job. *)
PaidPages == UNION {{j} \X (1..processed[j]) : j \in Jobs}

(* Every page that the crawler hands to UpsertPage has been paid for by a  *)
(* committed ConsumePageBudget of its job, which stays in its own budget;  *)
(* and the domain's count is that of the pages its jobs have paid for.     *)
PagesPaid ==
  /\ \A j \in Jobs : stored[j] <= processed[j] /\ processed[j] <= MaxPages[j]
  /\ crawled = Cardinality(PaidPages)

(* The channel of the renderer holds a value for each browser under way,   *)
(* no more than its capacity; on every return of Render its slot and its   *)
(* proxy's listener are given back.                                        *)
SlotsKept ==
  /\ slots = Cardinality(Rendering) /\ slots <= Slots
  /\ proxies = {j \in Jobs : pc[j] = "browse"}

(* Whatever the cache of probes passes on between jobs, and however often  *)
(* it is written back, a host is crawled only if a probe found it active,  *)
(* and taken for inactive only if one did not.                             *)
CrawledIsProbed ==
  /\ probe = "active" => "active" \in seen
  /\ probe \in {"inactive", "error"} => seen \ {"active"} # {}
  /\ \A j \in Jobs : pc[j] \in {"budget", "count", "commit", "fetch"}
                       => "active" \in seen

(* Nobody waits for ever: the select of Render ends even if the browsers   *)
(* that hold the slots never do, and the second update of a budget gets    *)
(* the domain's row.                                                       *)
WaitsEnd ==
  \A j \in Jobs : /\ pc[j] = "slot" ~> pc[j] # "slot"
                  /\ pc[j] = "count" ~> pc[j] # "count"

=============================================================================
