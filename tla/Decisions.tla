----------------------------- MODULE Decisions -----------------------------
(***************************************************************************)
(* The decisions that the engine takes without shared state, one question  *)
(* at a time: when a failed page is tried again, whether a page is wanted  *)
(* and its links are followed, and which settings a new job gets.          *)
(***************************************************************************)
EXTENDS RetryPolicy, Selection, JobConfig

CONSTANTS
  Policies, Errors, Attempts,  \* of the fetches that fail
  Targets, Pages,              \* of the pages that are matched
  RuleLists,                   \* the routing rules of a request
  Requests,                    \* bodies of POST /v1/discovery/jobs
  Environs,                    \* the environments the engine is started in
  RowDefault                   \* the limits of a row without configuration

Rule == [active : BOOLEAN, wordpress : BOOLEAN, woocommerce : BOOLEAN,
         deep : BOOLEAN, probe : BOOLEAN, priority : Int]

(* A target as a request states it, and its parts as the API reads them. *)
Target(technologies, country, countries, phone) ==
  [technologies |-> technologies, country |-> country, countries |-> countries,
   phone |-> phone]

ListOf(S) == [list |-> TRUE, names |-> S]
None == ListOf({})

(* The worker's policy waits no longer than the store allows, and a header *)
(* in seconds is not negative.                                             *)
ASSUME RetryInputs ==
  /\ Policies \subseteq [MaxAttempts : Nat \ {0}, BaseDelay : Nat \ {0},
                         MaxDelay : 1..(30 * Second), Jitter : 0..MaxInt]
  /\ Errors \subseteq [http : BOOLEAN, status : Nat, n : Int,
                       after : {"absent", "unreadable", "seconds", "date"}]
  /\ \A err \in Errors : /\ err.after = "seconds" => err.n >= 0
                         /\ err.after \in {"seconds", "date"} => err.http
                         /\ err.after = "date" => err.n <= MaxInt
  /\ Attempts \subseteq Nat \ {0}

(* A part of a target is any JSON value: a list, of strings or not, or not *)
(* a list.                                                                 *)
ASSUME TargetInputs ==
  /\ \A v \in Targets :
       /\ v = Target(v.technologies, v.country, v.countries, v.phone)
       /\ \A value \in {v.technologies, v.country, v.countries} :
            /\ value = [list |-> value.list, names |-> value.names]
            /\ value.list \in BOOLEAN
       /\ v.phone \in {"any", "yes", "no"}
  /\ \A page \in Pages : page.phone \in BOOLEAN

ASSUME RuleInputs == RuleLists \subseteq Seq(Rule)

ASSUME JobInputs ==
  /\ \A req \in Requests :
       /\ req.sources \in [DOMAIN req.sources -> BOOLEAN]
       /\ req.capabilities \in [DOMAIN req.capabilities -> BOOLEAN]
       /\ req.limits \in [DOMAIN req.limits -> Int]
  /\ Environs \subseteq [Limits -> [kind : {"unset", "unreadable", "number"}, n : Int]]
  /\ RowDefault \in [Limits -> 1..Column]

VARIABLE
  asked   \* the question, a record whose field op names it

Unasked == [op |-> "none"]

-----------------------------------------------------------------------------
AskInit == asked = Unasked

(* A fetch has failed. *)
DecideRetry ==
  \E p \in Policies, err \in Errors, attempt \in Attempts :
    \E jitter \in {0, p.Jitter} :
      asked' = [op |-> "retry", p |-> p, err |-> err, attempt |-> attempt,
                jitter |-> jitter]

(* A page has been fetched for a job with a target. *)
MatchTarget ==
  \E v \in Targets, page \in Pages :
    asked' = [op |-> "target", v |-> v, page |-> page]

(* Its technologies are known, and links might be followed. *)
Route ==
  \E wp, wc, link \in BOOLEAN, rules \in RuleLists,
     caps \in [wordpress : BOOLEAN, woocommerce : BOOLEAN, deep_crawl : BOOLEAN] :
    asked' = [op |-> "route", wp |-> wp, wc |-> wc, link |-> link,
              rules |-> rules, caps |-> caps]

(* A request for a job, in an engine that was started in some environment. *)
CreateJob ==
  \E req \in Requests, environ \in Environs :
    asked' = [op |-> "create", req |-> req, engine |-> Load(environ, RowDefault)]

(* The answer has been used. *)
Answered == asked # Unasked /\ asked' = Unasked

AskNext ==
  \/ asked = Unasked /\ DecideRetry
  \/ asked = Unasked /\ MatchTarget
  \/ asked = Unasked /\ Route
  \/ asked = Unasked /\ CreateJob
  \/ Answered

AskSpec == AskInit /\ [][AskNext]_asked

-----------------------------------------------------------------------------
(* The delay that ScheduleRetryAfter writes is between one and thirty      *)
(* seconds whatever a host's Retry-After makes of an int64 in Decide; and  *)
(* a host is not tried before the time that it asks for, up to the longest *)
(* delay of the policy, as long as that time and the jitter fit in one.    *)
RetryDelay ==
  asked.op = "retry" =>
    LET err == asked.err
        wait == IF err.after = "seconds" THEN err.n * Second ELSE err.n
        d == Decide(asked.p, err, asked.attempt, asked.jitter)
        delay == RetryAfter(d.Delay)
    IN  d.Retry =>
          /\ d.Delay <= asked.p.MaxDelay /\ delay \in Second..(30 * Second)
          /\ err.after \in {"seconds", "date"} /\ wait + asked.jitter <= MaxInt
               => delay >= Min({wait, asked.p.MaxDelay})

(* What a target requires, Match requires separately: a page is wanted if  *)
(* it is by technologies, by phone and by country; it is for one of two    *)
(* countries if it is for either, and never for two that differ, and a     *)
(* page whose country is unknown is in none.  What is no list, or a list   *)
(* without names, asks nothing: a country that is a plain string, as       *)
(* docs/API-CONTRACT.md:56 writes it, lets every page pass.                *)
TargetIndependent ==
  asked.op = "target" =>
    LET v == asked.v
        wanted(t) == Match(FromMap(t), asked.page)
        in(C) == wanted(Target(None, ListOf(C), None, "any"))
        named == {z \in DOMAIN Fold : Fold[z] # ""}
    IN  /\ wanted(v) <=>
             /\ \A t \in v.technologies.names :
                  wanted(Target([v.technologies EXCEPT !.names = {t}], None, None, "any"))
             /\ wanted(Target(None, None, None, v.phone))
             /\ wanted(Target(None, v.country, v.countries, "any"))
        /\ Empty(FromMap(v)) => wanted(v)
        /\ \A value \in {v.technologies, v.country, v.countries} :
             ~value.list \/ value.names \cap named = {}
               => wanted(Target(value, value, value, "any"))
        /\ \A x, y \in named :
             /\ in({x, y}) <=> in({x}) \/ in({y})
             /\ in({x}) /\ in({y}) => Fold[x] = Fold[y]

(* Routing rules are a set: their order changes nothing in what            *)
(* RouteWithRules decides, another rule takes nothing away, and no         *)
(* capability that is switched off makes the worker follow links.          *)
RulesOnlyAdd ==
  asked.op = "route" =>
    LET d(rs) == RouteWithRules(TRUE, asked.wp, asked.wc, rs)
        all == d(asked.rules)
        follows(caps) == FollowsLinks(asked.wp, asked.wc, caps, asked.rules, asked.link)
    IN  /\ d(Reverse(asked.rules)) = all
        /\ \A i \in 0..Len(asked.rules) :
             LET some == d(SubSeq(asked.rules, 1, i))
             IN  /\ some.DeepCrawl => all.DeepCrawl
                 /\ some.Priority <= all.Priority
        /\ \A k \in DOMAIN asked.caps :
             follows([asked.caps EXCEPT ![k] = FALSE]) => follows(asked.caps)

(* A job that is created has the same limits in its columns, which the     *)
(* store enforces, and in the document that the worker reads; they are     *)
(* positive and not above the engine's.  Only an engine limit that the     *)
(* columns cannot hold keeps a valid request from being stored.            *)
LimitsAgree ==
  asked.op = "create" /\ ~Rejected(asked.req) =>
    LET config == Config(asked.req, asked.engine)
        row == Row(config, RowDefault)
    IN  /\ row = WorkerLimits(config, asked.engine)
        /\ \A k \in Limits : row[k] \in 1..asked.engine[k]
        /\ (\A k \in Limits : asked.engine[k] <= Column) => Stored(config, RowDefault)

(* The worker never switches off what neither the sources nor the          *)
(* capabilities of the request do; and a switch that these do not          *)
(* contradict each other about has that value in the worker, unless        *)
(* createJob has overwritten the capabilities with a limit of that name.   *)
SwitchesHonoured ==
  asked.op = "create" /\ ~Rejected(asked.req) =>
    \A k \in {"link_discovery", "deep_crawl"} :
      LET named == {m \in {asked.req.sources, asked.req.capabilities} : k \in DOMAIN m}
      IN  /\ WorkerSwitch(asked.req, k) \/ \E m \in named : ~m[k]
          /\ \/ Replaced(asked.req)
             \/ \E m, n \in named : m[k] # n[k]
             \/ WorkerSwitch(asked.req, k) = (\A m \in named : m[k])

=============================================================================
