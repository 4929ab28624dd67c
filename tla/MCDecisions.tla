---------------------------- MODULE MCDecisions ----------------------------
(* The inputs of Decisions, the answers that the providers of Sources get, *)
(* and a job that goes through both.                                       *)
EXTENDS Decisions, Sources

CONSTANT Number   \* a JSON value that is not a string

Folding == [x \in {"WP ", "wp", "wc", " ", "", "IR", "gb"} |->
              CASE x = "WP " -> "wp" [] x = " " -> "" [] x = "IR" -> "ir"
                [] OTHER -> x]

(* The policy of the worker, one with every default, and one whose longest *)
(* delay is shorter than the cap of the store.                             *)
PoliciesOf ==
  {NewPolicy(3, Second, 30 * Second, Second \div 2), NewPolicy(0, 0, 0, -1),
   NewPolicy(8, Second, 4 * Second, 1)}

ErrorsOf ==
  {[http |-> FALSE, status |-> 0, after |-> "absent", n |-> 0]}
    \cup [http : {TRUE}, status : {404, 429, 503},
          after : {"absent", "unreadable"}, n : {0}]
    \cup [http : {TRUE}, status : {404, 429, 503}, after : {"seconds"},
          n : 0..MaxInt]
    \cup [http : {TRUE}, status : {404, 429, 503}, after : {"date"},
          n : {-1, 0, 1, Second, 30 * Second, 30 * Second + 1, MaxInt - 1, MaxInt}]

(* Lists, some with blank names or a number, and names that are no list. *)
OneName(x) == [list |-> FALSE, names |-> {x}]
TargetsOf ==
  [technologies : {ListOf(S) : S \in SUBSET {"WP ", "wc", " "} \cup {{"wc", Number}}}
                    \cup {OneName("WP ")},
   country : {ListOf(S) : S \in SUBSET {"IR", " "} \cup {{Number}}} \cup {OneName("IR")},
   countries : {ListOf(S) : S \in SUBSET {"gb"}}, phone : {"any", "yes", "no"}]

PagesOf ==
  [labels : {<<"x", "ir">>, <<"x", "com">>, <<"x", "co", "uk">>,
             <<"x", "org", "uk">>, <<"localhost">>},
   lang : {"", "fa", "en-gb", "de-at"},
   technologies : SUBSET {"WP ", "wc"}, phone : BOOLEAN]

RuleListsOf ==
  SeqOf([active : {TRUE}, wordpress : BOOLEAN, woocommerce : BOOLEAN,
         deep : BOOLEAN, probe : {FALSE}, priority : {-1, 2}], 2)

Partial(S, T) == UNION {[D -> T] : D \in SUBSET S}

(* One of the limits that are treated alike, and the one that is not. *)
Varied == {"max_pages", "max_depth"}

RequestsOf ==
  [project : {"", "p"}, mode : {"manual", "automatic", "hybrid", "none"},
   seeds : {0, 1},
   sources : Partial({"link_discovery", "deep_crawl"}, BOOLEAN),
   capabilities : Partial({"link_discovery", "deep_crawl"}, BOOLEAN),
   limits : {<<>>} \cup UNION {[{k} -> {-1, 0, 1, Word}] :
                               k \in Varied \cup {"capabilities"}}]

EnvironsOf ==
  {[x \in Limits |-> IF x = k THEN v ELSE [kind |-> "unset", n |-> 0]] :
     k \in Varied,
     v \in [kind : {"unset", "unreadable"}, n : {0}]
             \cup [kind : {"number"}, n : {-1, 0, 1, Column + 1, Word + 1}]}

RowDefaultOf == [k \in Limits |-> IF k = "max_depth" THEN 1 ELSE Column]

-----------------------------------------------------------------------------
(* Documents that name themselves, each other, one twice, and pages; a     *)
(* search that finds one of them.                                          *)
Roots == <<"sitemap", "index">>
DocumentsOf ==
  {<<"p">>, <<"index", "sitemap", "a">>, <<"a", "b", "a">>, <<"b", "q", "sitemap">>}
ResultsOf == {<<>>, <<"p">>, <<"q", "a", "q">>}

-----------------------------------------------------------------------------
(* A job's discovery and then the decisions about it.  These depend on     *)
(* nothing that discovery leaves behind, so that a job without sources is  *)
(* enough to ask for them.                                                 *)
JobInit == Init /\ AskInit

JobNext ==
  \/ Next /\ UNCHANGED asked
  \/ provider = "end" /\ on = {} /\ AskNext /\ UNCHANGED vars

JobSpec == JobInit /\ [][JobNext]_<<vars, asked>> /\ WF_vars(Next)
=============================================================================
