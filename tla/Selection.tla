----------------------------- MODULE Selection -----------------------------
(***************************************************************************)
(* Which pages a job is after, and which of their links it follows:        *)
(* packages target and routing, and the worker's use of them.              *)
(***************************************************************************)
EXTENDS Integers, SequencesExt

CONSTANTS
  Fold,      \* TrimSpace and ToLower on the strings of the instance
  TwoLetter  \* the labels of a host name that have two letters

(* What FromMap keeps of a JSON value [list, names], a list of names or    *)
(* one name: anything but a list is ignored, and so are the members of a   *)
(* list that are not strings (not in DOMAIN Fold) or blank.                *)
Names(value) ==
  IF value.list THEN {Fold[x] : x \in value.names \cap DOMAIN Fold} \ {""} ELSE {}

(* A request's target is [technologies, country, countries, phone]; phone *)
(* is "yes" or "no", and "any" if it is not a Boolean.                    *)
FromMap(v) ==
  [Technologies |-> Names(v.technologies),
   Countries |-> Names(v.country) \cup Names(v.countries),
   Phone |-> v.phone]

Empty(c) == c.Technologies = {} /\ c.Countries = {} /\ c.Phone = "any"

LanguageToCountry(lang) ==
  CASE lang = "fa" -> "ir"
    [] lang = "en-gb" -> "gb"
    [] lang = "en-us" -> "us"
    [] OTHER -> lang

(* The country code domain, then the language of the document.  A page is *)
(* [labels, lang, technologies, phone].                                   *)
InferCountry(page) ==
  LET n == Len(page.labels)
      tld == page.labels[n]
  IN  CASE n >= 2 /\ tld \in TwoLetter \ {"uk"} -> tld
        [] n >= 3 /\ tld = "uk" /\ page.labels[n - 1] = "co" -> "gb"
        [] OTHER -> LanguageToCountry(page.lang)

(* Deviation: a page whose country is unknown is in every country. *)
InCountryOrUnknown(c, page) ==
  c.Countries # {} => InferCountry(page) \in c.Countries \cup {""}

InCountry(c, page) ==
  c.Countries # {} => InferCountry(page) \in c.Countries \ {""}

Match(c, page) ==
  /\ c.Technologies \subseteq {Fold[t] : t \in page.technologies}
  /\ c.Phone # "any" => (c.Phone = "yes") = page.phone
  /\ InCountry(c, page)

-----------------------------------------------------------------------------
(* A rule is [active, wordpress, woocommerce, deep, probe, priority]: what *)
(* it requires, and what it decides.                                       *)

DefaultRules ==
  LET rule(wp, wc) == [active |-> TRUE, wordpress |-> wp, woocommerce |-> wc,
                       deep |-> TRUE, probe |-> FALSE, priority |-> 0]
  IN  <<rule(TRUE, FALSE), rule(FALSE, TRUE)>>

Applies(rule, active, wp, wc) ==
  /\ rule.active => active
  /\ rule.wordpress => wp
  /\ rule.woocommerce => wc

(* Deviation: the last rule that applies decides. *)
LastRule(d, rule) ==
  [DeepCrawl |-> rule.deep, Probe |-> rule.probe, Priority |-> rule.priority]

(* Each rule that applies adds to the decision. *)
AddRule(d, rule) ==
  [DeepCrawl |-> d.DeepCrawl \/ rule.deep,
   Probe |-> d.Probe \/ rule.probe,
   Priority |-> IF rule.priority > d.Priority THEN rule.priority
                                              ELSE d.Priority]

RouteWithRules(active, wp, wc, rules) ==
  LET d[i \in 0..Len(rules)] ==
        IF i = 0 THEN [DeepCrawl |-> FALSE, Probe |-> active, Priority |-> 0]
        ELSE IF Applies(rules[i], active, wp, wc) THEN AddRule(d[i - 1], rules[i])
        ELSE d[i - 1]
  IN  d[Len(rules)]

(* The worker routes an active host; rules of the request replace the     *)
(* default ones, and a technology counts only if its capability is on.    *)
RouteCandidate(wp, wc, caps, rules) ==
  RouteWithRules(TRUE, wp /\ caps.wordpress, wc /\ caps.woocommerce,
                 IF rules = <<>> THEN DefaultRules ELSE rules)

FollowsLinks(wp, wc, caps, rules, linkDiscovery) ==
  /\ RouteCandidate(wp, wc, caps, rules).DeepCrawl
  /\ linkDiscovery /\ caps.deep_crawl

=============================================================================
