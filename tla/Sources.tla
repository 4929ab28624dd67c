------------------------------ MODULE Sources ------------------------------
(***************************************************************************)
(* The discovery providers of a job, as runDiscovery calls them one after  *)
(* the other for a site: the pages of a search, the walk through the       *)
(* site's sitemaps, and its robots.txt.  Each is a loop over what other    *)
(* servers answer, and any of their answers may be an error.               *)
(***************************************************************************)
EXTENDS Integers, Sequences, FiniteSets, Functions

CONSTANTS
  URLs,           \* addresses of pages
  Sitemaps,       \* addresses that end in .xml or have sitemap in them
  RootSitemaps,   \* sitemap.xml and sitemap_index.xml, in that order
  SitemapLimit,   \* how many documents are fetched (20)
  MaxPages,       \* how many pages of a search are read
  Documents,      \* what a sitemap may list, in its order
  Results         \* what a page of a search may list, sitemaps too

ASSUME SourceSets ==
  /\ RootSitemaps \in Seq(Sitemaps) /\ URLs \cap Sitemaps = {}
  /\ SitemapLimit \in Nat \ {0} /\ MaxPages \in Int
  /\ Documents \cup Results \subseteq Seq(URLs \cup Sitemaps)

VARIABLES
  on,        \* the providers that are switched on
  provider,  \* the one that runs
  page,      \* search: the number of the next page
  queue,     \* sitemap: the documents to fetch
  seen,      \* sitemap: those that were fetched
  rest,      \* what the loop over the last answer has not looked at
  found,     \* what the provider has found
  added,     \* what AddURLs was given
  fetched,   \* ghost: the documents in the order of their fetches
  named,     \* ghost: the documents that those name
  listed     \* ghost: the results of a search that has not failed, and the
             \* pages that the sitemaps list

walk == <<queue, seen, fetched, named>>
vars == <<on, provider, page, walk, rest, found, added, listed>>

Providers == {"search", "sitemap", "robots"}
After == [search |-> "sitemap", sitemap |-> "robots", robots |-> "end"]

Init ==
  /\ on \in SUBSET Providers /\ provider = "search" /\ page = 1
  /\ queue = RootSitemaps /\ seen = {} /\ fetched = <<>> /\ named = {}
  /\ rest = <<>> /\ found = <<>> /\ added = {} /\ listed = {}

(* runDiscovery hands over what a provider returns and goes on. *)
Return(urls) ==
  /\ added' = added \cup Range(urls)
  /\ provider' = After[provider] /\ found' = <<>> /\ rest' = <<>>

Skip ==
  /\ provider \in Providers \ on
  /\ Return(<<>>)
  /\ UNCHANGED <<on, page, walk, listed>>

Runs(p) == provider = p /\ p \in on

-----------------------------------------------------------------------------
(* HTTPSearchProvider.Discover. *)

Limit == IF MaxPages < 1 THEN 1 ELSE MaxPages

(* A page is read; an empty one is the last. *)
SearchPage ==
  /\ Runs("search") /\ rest = <<>> /\ page <= Limit
  /\ \E results \in Results :
       IF results = <<>>
         THEN Return(found) /\ UNCHANGED <<page, listed>>
         ELSE /\ rest' = results /\ page' = page + 1
              /\ listed' = listed \cup Range(results)
              /\ UNCHANGED <<provider, found, added>>
  /\ UNCHANGED <<on, walk>>

(* The pages before it are lost: runDiscovery drops them with the error. *)
SearchFails ==
  /\ Runs("search") /\ rest = <<>> /\ page <= Limit
  /\ Return(<<>>) /\ listed' = {}
  /\ UNCHANGED <<on, page, walk>>

SearchEnds ==
  /\ Runs("search") /\ rest = <<>> /\ page > Limit
  /\ Return(found)
  /\ UNCHANGED <<on, page, walk, listed>>

(* Deviation: the map of the URLs seen is not asked. *)
AppendAlways(urls, u) == Append(urls, u)

(* dedupResults, and the map seen of Discover. *)
AppendNew(urls, u) == IF u \in Range(urls) THEN urls ELSE Append(urls, u)

SearchResult ==
  /\ Runs("search") /\ rest # <<>>
  /\ found' = AppendNew(found, Head(rest)) /\ rest' = Tail(rest)
  /\ UNCHANGED <<on, provider, page, walk, added, listed>>

-----------------------------------------------------------------------------
(* SitemapProvider.Discover. *)

Full == Cardinality(seen) >= SitemapLimit
Visiting == Runs("sitemap") /\ rest = <<>> /\ queue # <<>> /\ ~Full

(* Deviation: a document that was fetched stays at the head of the queue. *)
SkipSitemapStuck ==
  /\ Visiting /\ Head(queue) \in seen
  /\ UNCHANGED vars

SkipSitemap ==
  /\ Visiting /\ Head(queue) \in seen
  /\ queue' = Tail(queue)
  /\ UNCHANGED <<on, provider, page, seen, fetched, named, rest, found, added,
                 listed>>

(* A document is fetched; it lists nothing when that is an error. *)
FetchSitemap ==
  /\ Visiting /\ Head(queue) \notin seen
  /\ queue' = Tail(queue) /\ seen' = seen \cup {Head(queue)}
  /\ fetched' = Append(fetched, Head(queue))
  /\ \E doc \in Documents \cup {<<>>} :
       /\ rest' = doc
       /\ named' = named \cup (Range(doc) \cap Sitemaps)
       /\ listed' = listed \cup (Range(doc) \ Sitemaps)
  /\ UNCHANGED <<on, provider, page, found, added>>

(* Deviation: the last document that may be fetched is not queued. *)
QueueableEarly(u) == u \notin seen /\ Cardinality(seen) + 1 < SitemapLimit
Queueable(u) == u \notin seen /\ ~Full

(* Deviation: every address is that of a page. *)
NoSitemap(u) == FALSE
IsSitemap(u) == u \in Sitemaps

(* One <loc> of the document. *)
SitemapLoc ==
  /\ Runs("sitemap") /\ rest # <<>>
  /\ LET u == Head(rest)
     IN  IF IsSitemap(u)
           THEN /\ queue' = IF Queueable(u) THEN Append(queue, u) ELSE queue
                /\ UNCHANGED found
           ELSE /\ found' = Append(found, u)
                /\ UNCHANGED queue
  /\ rest' = Tail(rest)
  /\ UNCHANGED <<on, provider, page, seen, fetched, named, added, listed>>

SitemapEnds ==
  /\ Runs("sitemap") /\ rest = <<>> /\ (queue = <<>> \/ Full)
  /\ Return(found)
  /\ UNCHANGED <<on, page, walk, listed>>

-----------------------------------------------------------------------------
(* RobotsProvider.Discover: what its sitemap lines name become candidates, *)
(* an error names nothing.                                                 *)
Robots ==
  /\ Runs("robots")
  /\ \E doc \in Documents \cup {<<>>} : Return(doc)
  /\ UNCHANGED <<on, page, walk, listed>>

-----------------------------------------------------------------------------

Next ==
  \/ Skip
  \/ SearchPage \/ SearchFails \/ SearchEnds \/ SearchResult
  \/ SkipSitemap \/ FetchSitemap \/ SitemapLoc \/ SitemapEnds
  \/ Robots

(* The loops run in one goroutine, and every request has a timeout. *)
Spec == Init /\ [][Next]_vars /\ WF_vars(Next)

-----------------------------------------------------------------------------
(* Properties. *)

(* Every variable has its type: the walk queues and fetches sitemaps       *)
(* alone, and takes none of those it meets for a page.  A search and       *)
(* robots.txt may well find the address of one.                            *)
TypeOK ==
  /\ on \subseteq Providers /\ provider \in Providers \cup {"end"}
  /\ page \in Nat
  /\ queue \in Seq(Sitemaps) /\ seen \subseteq Sitemaps
  /\ fetched \in Seq(Sitemaps) /\ named \subseteq Sitemaps
  /\ rest \in Seq(URLs \cup Sitemaps) /\ found \in Seq(URLs \cup Sitemaps)
  /\ provider = "sitemap" => found \in Seq(URLs)
  /\ listed \cup added \subseteq URLs \cup Sitemaps

(* The documents of the site that the engine has heard of. *)
Known == Range(RootSitemaps) \cup named

(* The walk through the sitemaps fetches no document twice, none that was  *)
(* not named and no more than the limit; and when those that it was told   *)
(* of are not more than the limit, it has fetched all of them, also if     *)
(* they name each other.  It adds every page that the fetched ones list,   *)
(* and nothing that neither they nor the search have listed.               *)
SitemapWalk ==
  /\ IsInjective(fetched)
  /\ Len(fetched) <= SitemapLimit /\ Range(fetched) \subseteq Known
  /\ provider \in {"robots", "end"} /\ "sitemap" \in on =>
       /\ Cardinality(Known) <= SitemapLimit => Known = Range(fetched)
       /\ listed \subseteq added
       /\ provider = "robots" => added \subseteq listed

(* A search finds each URL once and adds every URL of the pages that it    *)
(* reads, or nothing at all if one of them is an error.                    *)
SearchComplete ==
  /\ provider = "search" => IsInjective(found)
  /\ provider = "sitemap" /\ seen = {} => added = listed

(* Discovery always gets as far as the worker, whatever the sites answer. *)
DiscoveryEnds == <>(provider = "end")

=============================================================================
