--------------------------- MODULE SourcesProofs ---------------------------
(***************************************************************************)
(* Proofs about Sources for every set of sitemaps, whatever they list,     *)
(* every limit of the walk and every number of pages of a search.          *)
(***************************************************************************)
EXTENDS Sources, FiniteSetTheorems, SequenceTheorems, TLAPS

(* The search: what it was told of is what it has found and what it has    *)
(* not looked at yet, and nothing if it is switched off.                   *)
SearchInv ==
  /\ provider = "search" =>
       /\ added = {} /\ IsInjective(found)
       /\ listed = Range(found) \cup Range(rest)
       /\ "search" \notin on => listed = {}
       /\ walk = <<RootSitemaps, {}, <<>>, {}>>
  /\ provider = "sitemap" /\ seen = {} => added = listed

(* What was fetched, in order and as a set. *)
FetchInv ==
  /\ IsInjective(fetched) /\ seen = Range(fetched)
  /\ IsFiniteSet(seen) /\ Cardinality(seen) = Len(fetched)
  /\ Len(fetched) <= SitemapLimit
  /\ seen \subseteq Known /\ IsFiniteSet(Known)

(* The walk: a document that was named is fetched, queued or in the rest   *)
(* of the last answer, unless the limit is reached; a page is found, or in *)
(* that rest.                                                              *)
WalkInv ==
  provider = "sitemap" /\ "sitemap" \in on =>
    /\ Range(queue) \subseteq Known
    /\ Range(rest) \cap Sitemaps \subseteq named
    /\ Full \/ Known \subseteq seen \cup Range(queue) \cup Range(rest)
    /\ listed \subseteq added \cup Range(found) \cup Range(rest)
    /\ listed \cap Sitemaps \subseteq added

(* After the walk. *)
DoneInv ==
  provider \in {"robots", "end"} /\ "sitemap" \in on =>
    /\ Cardinality(Known) <= SitemapLimit => Known = seen
    /\ listed \subseteq added

(* Up to robots.txt, what is added has been listed. *)
ListedInv ==
  provider # "end" => added \cup Range(found) \cup (Range(rest) \ Sitemaps) \subseteq listed

IInv == TypeOK /\ SearchInv /\ FetchInv /\ WalkInv /\ DoneInv /\ ListedInv

-----------------------------------------------------------------------------
(* Sequences as lists of what they hold. *)

LEMMA EmptyRange == Range(<<>>) = {} /\ IsInjective(<<>>)
  BY DEF Range, IsInjective

LEMMA RangeFacts ==
  ASSUME NEW S, NEW s \in Seq(S)
  PROVE  Range(s) \subseteq S /\ IsFiniteSet(Range(s))
<1>1. Len(s) \in Nat /\ DOMAIN s = 1..Len(s)
  OBVIOUS
<1>2. s \in Surjection(1..Len(s), Range(s))
  BY <1>1 DEF Surjection, Range
<1>3. IsFiniteSet(1..Len(s))
  BY <1>1, FS_Interval
<1>4. IsFiniteSet(Range(s))
  BY <1>2, <1>3, FS_Surjection
<1> QED
  BY <1>4 DEF Range

LEMMA AppendFacts ==
  ASSUME NEW S, NEW s \in Seq(S), NEW u \in S
  PROVE  /\ Append(s, u) \in Seq(S) /\ Len(Append(s, u)) = Len(s) + 1
         /\ Range(Append(s, u)) = Range(s) \cup {u}
         /\ IsInjective(s) /\ u \notin Range(s) => IsInjective(Append(s, u))
<1> DEFINE t == Append(s, u)
<1>1. /\ Len(s) \in Nat /\ DOMAIN s = 1..Len(s)
      /\ t \in Seq(S) /\ DOMAIN t = 1..(Len(s) + 1) /\ Len(t) = Len(s) + 1
      /\ \A i \in 1..Len(s) : t[i] = s[i]
      /\ t[Len(s) + 1] = u
  BY AppendProperties
<1> HIDE DEF t
<1>2. Range(t) = Range(s) \cup {u}
  <2>1. \A i \in 1..(Len(s) + 1) : i \in 1..Len(s) \/ i = Len(s) + 1
    BY <1>1
  <2>2. 1..Len(s) \subseteq 1..(Len(s) + 1) /\ Len(s) + 1 \in 1..(Len(s) + 1)
    BY <1>1
  <2> QED
    BY <1>1, <2>1, <2>2 DEF Range
<1>3. ASSUME IsInjective(s), u \notin Range(s) PROVE IsInjective(t)
  <2>1. \A i \in 1..(Len(s) + 1) : i \in 1..Len(s) \/ i = Len(s) + 1
    BY <1>1
  <2>2. \A i \in 1..Len(s) : t[i] # u
    BY <1>1, <1>3 DEF Range
  <2> QED
    BY <1>1, <1>3, <2>1, <2>2 DEF IsInjective
<1> QED
  BY <1>1, <1>2, <1>3 DEF t

LEMMA TailFacts ==
  ASSUME NEW S, NEW s \in Seq(S), s # <<>>
  PROVE  /\ Head(s) \in S /\ Tail(s) \in Seq(S)
         /\ Range(s) = {Head(s)} \cup Range(Tail(s))
<1>1. Len(s) \in Nat \ {0} /\ DOMAIN s = 1..Len(s) /\ Head(s) = s[1]
  OBVIOUS
<1>2. /\ Head(s) \in S /\ Tail(s) \in Seq(S)
      /\ DOMAIN Tail(s) = 1..(Len(s) - 1)
      /\ \A i \in 1..(Len(s) - 1) : Tail(s)[i] = s[i + 1]
  BY HeadTailProperties
<1>3. ASSUME NEW i \in DOMAIN s PROVE s[i] \in {Head(s)} \cup Range(Tail(s))
  <2>1. CASE i = 1
    BY <1>1, <2>1
  <2>2. CASE i # 1
    <3>1. i - 1 \in 1..(Len(s) - 1) /\ (i - 1) + 1 = i
      BY <1>1, <2>2
    <3>2. Tail(s)[i - 1] = s[i]
      BY <1>2, <3>1
    <3> QED
      BY <1>2, <3>1, <3>2 DEF Range
  <2> QED
    BY <2>1, <2>2
<1>4. ASSUME NEW i \in DOMAIN Tail(s) PROVE Tail(s)[i] \in Range(s)
  <2>1. i + 1 \in DOMAIN s /\ Tail(s)[i] = s[i + 1]
    BY <1>1, <1>2
  <2> QED
    BY <2>1 DEF Range
<1>5. Head(s) \in Range(s)
  BY <1>1 DEF Range
<1> QED
  BY <1>2, <1>3, <1>4, <1>5 DEF Range

(* Whatever a search or a site answers is a list of addresses. *)
LEMMA Answers ==
  /\ \A doc \in Documents \cup {<<>>} : doc \in Seq(URLs \cup Sitemaps)
  /\ \A results \in Results : results \in Seq(URLs \cup Sitemaps)
  /\ \A u \in URLs \cup Sitemaps : IsSitemap(u) \/ u \in URLs
<1>1. <<>> \in Seq(URLs \cup Sitemaps)
  OBVIOUS
<1> QED
  BY <1>1, SourceSets DEF IsSitemap

-----------------------------------------------------------------------------
(* Types. *)

LEMMA TypeStep == TypeOK /\ [Next]_vars => TypeOK'
<1> SUFFICES ASSUME TypeOK, [Next]_vars PROVE TypeOK'
  OBVIOUS
<1> USE DEF TypeOK, Providers, Runs
<1>0. <<>> \in Seq(URLs) /\ <<>> \in Seq(URLs \cup Sitemaps) /\ Range(<<>>) = {}
  BY EmptyRange
<1>1. Range(found) \subseteq URLs \cup Sitemaps
  BY RangeFacts
<1>2. After["search"] = "sitemap" /\ After["sitemap"] = "robots" /\ After["robots"] = "end"
  BY DEF After
<1>a. CASE Skip
  <2>1. provider \in Providers /\ provider # "end"
    BY <1>a DEF Skip
  <2> QED
    BY <1>a, <1>0, <1>2, <2>1 DEF Skip, Return, walk
<1>b. CASE SearchPage
  <2>1. PICK results \in Results :
          IF results = <<>>
            THEN Return(found) /\ UNCHANGED <<page, listed>>
            ELSE /\ rest' = results /\ page' = page + 1
                 /\ listed' = listed \cup Range(results)
                 /\ UNCHANGED <<provider, found, added>>
    BY <1>b DEF SearchPage
  <2>2. results \in Seq(URLs \cup Sitemaps) /\ Range(results) \subseteq URLs \cup Sitemaps
    BY Answers, RangeFacts
  <2> QED
    BY <1>b, <1>0, <1>1, <1>2, <2>1, <2>2 DEF SearchPage, Return, walk
<1>c. CASE SearchFails
  BY <1>c, <1>0, <1>2 DEF SearchFails, Return, walk
<1>d. CASE SearchEnds
  BY <1>d, <1>0, <1>1, <1>2 DEF SearchEnds, Return, walk
<1>e. CASE SearchResult
  <2>1. provider = "search" /\ rest # <<>>
    BY <1>e DEF SearchResult
  <2>2. Head(rest) \in URLs \cup Sitemaps /\ Tail(rest) \in Seq(URLs \cup Sitemaps)
    BY <2>1, TailFacts
  <2>3. AppendNew(found, Head(rest)) \in Seq(URLs \cup Sitemaps)
    BY <2>2, AppendFacts DEF AppendNew
  <2> QED
    BY <1>e, <2>1, <2>2, <2>3 DEF SearchResult, walk
<1>f. CASE SkipSitemap
  BY <1>f, TailFacts DEF SkipSitemap, Visiting
<1>g. CASE FetchSitemap
  <2>1. PICK doc \in Documents \cup {<<>>} :
          /\ rest' = doc
          /\ named' = named \cup (Range(doc) \cap Sitemaps)
          /\ listed' = listed \cup (Range(doc) \ Sitemaps)
    BY <1>g DEF FetchSitemap
  <2>2. doc \in Seq(URLs \cup Sitemaps) /\ Range(doc) \subseteq URLs \cup Sitemaps
    BY Answers, RangeFacts
  <2>3. Head(queue) \in Sitemaps /\ Tail(queue) \in Seq(Sitemaps)
    BY <1>g, TailFacts DEF FetchSitemap, Visiting
  <2>4. Append(fetched, Head(queue)) \in Seq(Sitemaps)
    BY <2>3, AppendFacts
  <2> QED
    BY <1>g, <2>1, <2>2, <2>3, <2>4 DEF FetchSitemap
<1>h. CASE SitemapLoc
  <2>1. Head(rest) \in URLs \cup Sitemaps /\ Tail(rest) \in Seq(URLs \cup Sitemaps)
    BY <1>h, TailFacts DEF SitemapLoc
  <2>2. IsSitemap(Head(rest)) => Append(queue, Head(rest)) \in Seq(Sitemaps)
    BY AppendFacts DEF IsSitemap
  <2>3. ~IsSitemap(Head(rest)) => /\ Append(found, Head(rest)) \in Seq(URLs)
                                  /\ Append(found, Head(rest)) \in Seq(URLs \cup Sitemaps)
    BY <1>h, <2>1, Answers, AppendFacts DEF SitemapLoc
  <2> QED
    BY <1>h, <2>1, <2>2, <2>3 DEF SitemapLoc
<1>i. CASE SitemapEnds
  BY <1>i, <1>0, <1>1, <1>2 DEF SitemapEnds, Return, walk
<1>j. CASE Robots
  <2>1. PICK doc \in Documents \cup {<<>>} : Return(doc)
    BY <1>j DEF Robots
  <2>2. Range(doc) \subseteq URLs \cup Sitemaps
    BY Answers, RangeFacts
  <2> QED
    BY <1>j, <1>0, <1>2, <2>1, <2>2 DEF Robots, Return, walk
<1>k. CASE UNCHANGED vars
  BY <1>k DEF vars, walk
<1> QED
  BY <1>a, <1>b, <1>c, <1>d, <1>e, <1>f, <1>g, <1>h, <1>i, <1>j, <1>k DEF Next

-----------------------------------------------------------------------------
(* The search. *)

LEMMA SearchStep == TypeOK /\ SearchInv /\ [Next]_vars => SearchInv'
<1> SUFFICES ASSUME TypeOK, SearchInv, [Next]_vars PROVE SearchInv'
  OBVIOUS
<1> USE DEF SearchInv
<1>0. /\ Range(<<>>) = {}
      /\ After["search"] = "sitemap" /\ After["sitemap"] = "robots"
      /\ After["robots"] = "end"
  BY EmptyRange DEF After
<1>a. CASE Skip
  BY <1>a, <1>0 DEF Skip, Return, Providers, walk
<1>b. CASE SearchPage
  <2>1. PICK results \in Results :
          IF results = <<>>
            THEN Return(found) /\ UNCHANGED <<page, listed>>
            ELSE /\ rest' = results /\ page' = page + 1
                 /\ listed' = listed \cup Range(results)
                 /\ UNCHANGED <<provider, found, added>>
    BY <1>b DEF SearchPage
  <2>2. /\ provider = "search" /\ "search" \in on /\ rest = <<>>
        /\ UNCHANGED <<on, walk>>
    BY <1>b DEF SearchPage, Runs
  <2>3. CASE results = <<>>
    BY <1>0, <2>1, <2>2, <2>3 DEF Return
  <2>4. CASE results # <<>>
    BY <1>0, <2>1, <2>2, <2>4, Answers
  <2> QED
    BY <2>3, <2>4
<1>c. CASE SearchFails
  BY <1>c, <1>0 DEF SearchFails, Return, Runs
<1>d. CASE SearchEnds
  BY <1>d, <1>0 DEF SearchEnds, Return, Runs
<1>e. CASE SearchResult
  <2> DEFINE u == Head(rest)
  <2>1. /\ provider = "search" /\ "search" \in on
        /\ rest \in Seq(URLs \cup Sitemaps) /\ rest # <<>>
        /\ found' = AppendNew(found, u) /\ rest' = Tail(rest)
        /\ UNCHANGED <<on, provider, walk, added, listed>>
    BY <1>e DEF SearchResult, Runs, TypeOK
  <2>2. u \in URLs \cup Sitemaps /\ Range(rest) = {u} \cup Range(Tail(rest))
    BY <2>1, TailFacts
  <2>3. found \in Seq(URLs \cup Sitemaps)
    BY DEF TypeOK
  <2>4. Range(found') = Range(found) \cup {u} /\ IsInjective(found')
    BY <2>1, <2>2, <2>3, AppendFacts DEF AppendNew
  <2> QED
    BY <2>1, <2>2, <2>4
<1>f. CASE SkipSitemap
  BY <1>f DEF SkipSitemap, Visiting, Runs
<1>g. CASE FetchSitemap
  BY <1>g DEF FetchSitemap, Visiting, Runs
<1>h. CASE SitemapLoc
  BY <1>h DEF SitemapLoc, Runs
<1>i. CASE SitemapEnds
  BY <1>i, <1>0 DEF SitemapEnds, Return, Runs
<1>j. CASE Robots
  BY <1>j, <1>0 DEF Robots, Return, Runs
<1>k. CASE UNCHANGED vars
  BY <1>k DEF vars, walk
<1> QED
  BY <1>a, <1>b, <1>c, <1>d, <1>e, <1>f, <1>g, <1>h, <1>i, <1>j, <1>k DEF Next

-----------------------------------------------------------------------------
(* The walk through the sitemaps. *)

(* A fetch fetches a new document, and there is room for it. *)
LEMMA FetchStep == TypeOK /\ FetchInv /\ WalkInv /\ [Next]_vars => FetchInv'
<1> SUFFICES ASSUME TypeOK, FetchInv, WalkInv, [Next]_vars PROVE FetchInv'
  OBVIOUS
<1>1. CASE FetchSitemap
  <2> DEFINE u == Head(queue)
  <2>1. /\ provider = "sitemap" /\ "sitemap" \in on /\ queue # <<>> /\ ~Full
        /\ u \notin seen /\ seen' = seen \cup {u} /\ fetched' = Append(fetched, u)
    BY <1>1 DEF FetchSitemap, Visiting, Runs
  <2>2. queue \in Seq(Sitemaps) /\ fetched \in Seq(Sitemaps)
    BY DEF TypeOK
  <2>3. u \in Sitemaps /\ Range(queue) = {u} \cup Range(Tail(queue))
    BY <2>1, <2>2, TailFacts
  <2>4. /\ IsInjective(fetched) /\ seen = Range(fetched) /\ IsFiniteSet(seen)
        /\ Cardinality(seen) = Len(fetched) /\ Len(fetched) \in Nat
        /\ seen \subseteq Known /\ IsFiniteSet(Known) /\ u \in Known
    BY <2>1, <2>2, <2>3 DEF FetchInv, WalkInv
  <2>5. /\ IsInjective(fetched') /\ Range(fetched') = seen'
        /\ Len(fetched') = Len(fetched) + 1
    BY <2>1, <2>2, <2>3, <2>4, AppendFacts
  <2>6. IsFiniteSet(seen') /\ Cardinality(seen') = Cardinality(seen) + 1
    BY <2>1, <2>4, FS_AddElement
  <2>7. Cardinality(seen) + 1 <= SitemapLimit
    BY <2>1, <2>4, SourceSets DEF Full
  <2>8. PICK doc \in Documents \cup {<<>>} : named' = named \cup (Range(doc) \cap Sitemaps)
    BY <1>1 DEF FetchSitemap
  <2>9. doc \in Seq(URLs \cup Sitemaps)
    BY Answers
  <2>10. IsFiniteSet(Range(doc))
    BY <2>9, RangeFacts
  <2>11. Range(doc) \cap Sitemaps \in SUBSET Range(doc)
    OBVIOUS
  <2>12. IsFiniteSet(Range(doc) \cap Sitemaps)
    BY <2>10, <2>11, FS_Subset
  <2>13. Known' = Known \cup (Range(doc) \cap Sitemaps)
    BY <2>8 DEF Known
  <2>14. IsFiniteSet(Known') /\ Known \subseteq Known'
    BY <2>4, <2>12, <2>13, FS_Union
  <2> QED
    BY <2>1, <2>4, <2>5, <2>6, <2>7, <2>14 DEF FetchInv
<1>2. CASE ~FetchSitemap
  <2>1. UNCHANGED <<seen, fetched, named>>
    BY <1>2 DEF Next, Skip, SearchPage, SearchFails, SearchEnds, SearchResult, SkipSitemap,
                SitemapLoc, SitemapEnds, Robots, vars, walk
  <2> QED
    BY <2>1 DEF FetchInv, Known
<1> QED
  BY <1>1, <1>2

(* No document and no page gets lost between an answer, the queue and the  *)
(* documents that were fetched.                                            *)
LEMMA WalkStep == TypeOK /\ SearchInv /\ FetchInv /\ WalkInv /\ [Next]_vars => WalkInv'
<1> SUFFICES ASSUME TypeOK, SearchInv, FetchInv, WalkInv, [Next]_vars,
                    provider' = "sitemap", "sitemap" \in on'
             PROVE  /\ Range(queue') \subseteq Known'
                    /\ Range(rest') \cap Sitemaps \subseteq named'
                    /\ Full' \/ Known' \subseteq seen' \cup Range(queue') \cup Range(rest')
                    /\ listed' \subseteq added' \cup Range(found') \cup Range(rest')
                    /\ listed' \cap Sitemaps \subseteq added'
  BY DEF WalkInv
<1>0. /\ Range(<<>>) = {}
      /\ After["search"] = "sitemap" /\ After["sitemap"] = "robots"
      /\ After["robots"] = "end"
  BY EmptyRange DEF After
<1>1. /\ queue \in Seq(Sitemaps) /\ rest \in Seq(URLs \cup Sitemaps)
      /\ provider = "sitemap" => found \in Seq(URLs)
  BY DEF TypeOK
<1>2. on' = on
  BY DEF Next, Skip, SearchPage, SearchFails, SearchEnds, SearchResult, SkipSitemap, FetchSitemap,
         SitemapLoc, SitemapEnds, Robots, vars
<1>3. CASE provider = "search"
  <2>1. SearchInv' /\ UNCHANGED walk
    BY <1>3, SearchStep
       DEF Next, Skip, SearchPage, SearchFails, SearchEnds, SearchResult, SkipSitemap,
           FetchSitemap, SitemapLoc, SitemapEnds, Robots, Visiting, Runs, vars
  <2>2. queue' = RootSitemaps /\ seen' = {} /\ named' = {}
    BY <1>3, <2>1 DEF SearchInv, walk
  <2>3. rest' = <<>> /\ listed' = added'
    BY <1>3, <2>1, <2>2
       DEF SearchInv, Next, Skip, SearchPage, SearchFails, SearchEnds, SearchResult, SkipSitemap,
           FetchSitemap, SitemapLoc, SitemapEnds, Robots, Visiting, Runs, Return, vars
  <2> QED
    BY <1>0, <2>2, <2>3 DEF Known
<1>4. CASE provider = "sitemap"
  <2>0. /\ Range(queue) \subseteq Known /\ Range(rest) \cap Sitemaps \subseteq named
        /\ Full \/ Known \subseteq seen \cup Range(queue) \cup Range(rest)
        /\ listed \subseteq added \cup Range(found) \cup Range(rest)
        /\ listed \cap Sitemaps \subseteq added
    BY <1>2, <1>4 DEF WalkInv
  <2>f. CASE SkipSitemap
    <3>1. /\ queue # <<>> /\ Head(queue) \in seen /\ queue' = Tail(queue)
          /\ UNCHANGED <<seen, named, rest, found, added, listed>>
      BY <2>f DEF SkipSitemap, Visiting
    <3>2. Range(queue) = {Head(queue)} \cup Range(queue')
      BY <1>1, <3>1, TailFacts
    <3> QED
      BY <2>0, <3>1, <3>2 DEF Known, Full
  <2>g. CASE FetchSitemap
    <3>1. /\ rest = <<>> /\ queue # <<>> /\ ~Full
          /\ queue' = Tail(queue) /\ seen' = seen \cup {Head(queue)}
          /\ UNCHANGED <<found, added>>
      BY <2>g DEF FetchSitemap, Visiting
    <3>2. PICK doc \in Documents \cup {<<>>} :
            /\ rest' = doc
            /\ named' = named \cup (Range(doc) \cap Sitemaps)
            /\ listed' = listed \cup (Range(doc) \ Sitemaps)
      BY <2>g DEF FetchSitemap
    <3>3. Range(queue) = {Head(queue)} \cup Range(queue')
      BY <1>1, <3>1, TailFacts
    <3> QED
      BY <1>0, <2>0, <3>1, <3>2, <3>3 DEF Known
  <2>h. CASE SitemapLoc
    <3> DEFINE u == Head(rest)
    <3>1. /\ rest # <<>> /\ rest' = Tail(rest)
          /\ UNCHANGED <<seen, named, added, listed>>
      BY <2>h DEF SitemapLoc
    <3>2. u \in URLs \cup Sitemaps /\ Range(rest) = {u} \cup Range(rest')
      BY <1>1, <3>1, TailFacts
    <3>3. CASE IsSitemap(u)
      <4>1. /\ found' = found
            /\ queue' = IF Queueable(u) THEN Append(queue, u) ELSE queue
        BY <2>h, <3>3 DEF SitemapLoc
      <4>2. u \in Sitemaps /\ u \in named /\ u \in Known /\ u \notin URLs
        BY <2>0, <3>2, <3>3, SourceSets DEF IsSitemap, Known
      <4>3. Range(Append(queue, u)) = Range(queue) \cup {u}
        BY <1>1, <4>2, AppendFacts
      <4>4. u \in listed => u \in added
        BY <2>0, <4>2
      <4>5. Full' = Full /\ Known' = Known
        BY <3>1 DEF Full, Known
      <4>6. CASE Queueable(u)
        BY <2>0, <3>1, <3>2, <4>1, <4>2, <4>3, <4>4, <4>5, <4>6
      <4>7. CASE ~Queueable(u)
        BY <2>0, <3>1, <3>2, <4>1, <4>2, <4>4, <4>5, <4>7 DEF Queueable
      <4> QED
        BY <4>6, <4>7
    <3>4. CASE ~IsSitemap(u)
      <4>1. found' = Append(found, u) /\ queue' = queue
        BY <2>h, <3>4 DEF SitemapLoc
      <4>2. u \in URLs /\ u \notin Sitemaps
        BY <3>2, <3>4 DEF IsSitemap
      <4>3. Range(found') = Range(found) \cup {u}
        BY <1>1, <1>4, <4>1, <4>2, AppendFacts
      <4>4. Full' = Full /\ Known' = Known /\ Known \subseteq Sitemaps
        BY <3>1, SourceSets, RangeFacts DEF Full, Known, TypeOK
      <4> QED
        BY <2>0, <3>1, <3>2, <4>1, <4>2, <4>3, <4>4
    <3> QED
      BY <3>3, <3>4
  <2>k. CASE UNCHANGED vars
    BY <2>0, <2>k DEF vars, walk, Known, Full
  <2> QED
    BY <1>0, <1>2, <1>4, <2>f, <2>g, <2>h, <2>k
       DEF Next, Skip, SearchPage, SearchFails, SearchEnds, SearchResult, SitemapEnds, Robots,
           Runs, Return
<1>5. CASE provider \notin {"search", "sitemap"}
  BY <1>0, <1>5
     DEF Next, Skip, SearchPage, SearchFails, SearchEnds, SearchResult, SkipSitemap, FetchSitemap,
         SitemapLoc, SitemapEnds, Robots, Visiting, Runs, Return, Providers, vars
<1> QED
  BY <1>3, <1>4, <1>5

(* The walk is over when there is nothing to fetch, or no room: in both    *)
(* cases it has fetched all of the documents, if there was room for them.  *)
LEMMA DoneStep == TypeOK /\ FetchInv /\ WalkInv /\ DoneInv /\ [Next]_vars => DoneInv'
<1> SUFFICES ASSUME TypeOK, FetchInv, WalkInv, DoneInv, [Next]_vars,
                    provider' \in {"robots", "end"}, "sitemap" \in on'
             PROVE  /\ Cardinality(Known') <= SitemapLimit => Known' = seen'
                    /\ listed' \subseteq added'
  BY DEF DoneInv
<1>0. /\ Range(<<>>) = {}
      /\ After["search"] = "sitemap" /\ After["sitemap"] = "robots"
      /\ After["robots"] = "end"
  BY EmptyRange DEF After
<1>1. on' = on
  BY DEF Next, Skip, SearchPage, SearchFails, SearchEnds, SearchResult, SkipSitemap, FetchSitemap,
         SitemapLoc, SitemapEnds, Robots, vars
<1>2. CASE provider = "sitemap"
  <2>1. SitemapEnds
    BY <1>0, <1>1, <1>2
       DEF Next, Skip, SearchPage, SearchFails, SearchEnds, SearchResult, SkipSitemap,
           FetchSitemap, SitemapLoc, Robots, Visiting, Runs, vars
  <2>2. /\ rest = <<>> /\ (queue = <<>> \/ Full)
        /\ added' = added \cup Range(found) /\ UNCHANGED <<walk, listed>>
    BY <2>1 DEF SitemapEnds, Return
  <2>3. /\ Full \/ Known \subseteq seen \cup Range(queue) \cup Range(rest)
        /\ listed \subseteq added \cup Range(found) \cup Range(rest)
    BY <1>1, <1>2 DEF WalkInv
  <2>4. /\ seen \in SUBSET Known /\ IsFiniteSet(Known) /\ IsFiniteSet(seen)
        /\ Cardinality(seen) <= Cardinality(Known)
        /\ Cardinality(Known) = Cardinality(seen) => Known = seen
        /\ Cardinality(seen) \in Nat /\ Cardinality(Known) \in Nat
    BY FS_Subset, FS_CardinalityType DEF FetchInv
  <2>5. CASE Full
    <3>1. Cardinality(Known) <= SitemapLimit => Cardinality(Known) = Cardinality(seen)
      BY <2>4, <2>5, SourceSets DEF Full
    <3> QED
      BY <1>0, <2>2, <2>3, <2>4, <3>1 DEF walk, Known
  <2>6. CASE ~Full
    <3>1. Known \subseteq seen
      BY <1>0, <2>2, <2>3, <2>6
    <3> QED
      BY <1>0, <2>2, <2>3, <2>4, <3>1 DEF walk, Known
  <2> QED
    BY <2>5, <2>6
<1>3. CASE provider \in {"robots", "end"}
  <2>1. UNCHANGED <<walk, listed>> /\ added \subseteq added'
    BY <1>3
       DEF Next, Skip, SearchPage, SearchFails, SearchEnds, SearchResult, SkipSitemap,
           FetchSitemap, SitemapLoc, SitemapEnds, Robots, Visiting, Runs, Return, Providers, vars
  <2>2. UNCHANGED <<seen, named>>
    BY <2>1 DEF walk
  <2> QED
    BY <1>1, <1>3, <2>1, <2>2 DEF DoneInv, Known
<1>4. CASE provider = "search"
  BY <1>0, <1>4
     DEF Next, Skip, SearchPage, SearchFails, SearchEnds, SearchResult, SkipSitemap, FetchSitemap,
         SitemapLoc, SitemapEnds, Robots, Visiting, Runs, Return, vars
<1> QED
  BY <1>2, <1>3, <1>4 DEF TypeOK, Providers

(* Nothing is found that was not listed. *)
LEMMA ListedStep == TypeOK /\ SearchInv /\ ListedInv /\ [Next]_vars => ListedInv'
<1> SUFFICES ASSUME TypeOK, SearchInv, ListedInv, [Next]_vars, provider' # "end"
             PROVE  added' \cup Range(found') \cup (Range(rest') \ Sitemaps) \subseteq listed'
  BY DEF ListedInv
<1>0. /\ Range(<<>>) = {}
      /\ After["search"] = "sitemap" /\ After["sitemap"] = "robots"
      /\ After["robots"] = "end"
  BY EmptyRange DEF After
<1>1. CASE provider = "search"
  <2>1. /\ added = {} /\ listed = Range(found) \cup Range(rest) /\ SearchInv'
    BY <1>1, SearchStep DEF SearchInv
  <2>2. CASE provider' = "search"
    BY <2>1, <2>2 DEF SearchInv
  <2>3. CASE provider' # "search"
    <3>1. /\ provider' = "sitemap" /\ found' = <<>> /\ rest' = <<>> /\ UNCHANGED walk
      BY <1>0, <1>1, <2>3
         DEF Next, Skip, SearchPage, SearchFails, SearchEnds, SearchResult, SkipSitemap,
             FetchSitemap, SitemapLoc, SitemapEnds, Robots, Visiting, Runs, Return, vars
    <3>2. seen' = {}
      BY <1>1, <3>1 DEF SearchInv, walk
    <3> QED
      BY <1>0, <2>1, <3>1, <3>2 DEF SearchInv
  <2> QED
    BY <2>2, <2>3
<1>2. CASE provider # "search"
  <2>0. provider # "end" => added \cup Range(found) \cup (Range(rest) \ Sitemaps) \subseteq listed
    BY DEF ListedInv
  <2>a. CASE Skip
    BY <1>0, <2>0, <2>a DEF Skip, Return, Providers
  <2>g. CASE FetchSitemap
    BY <2>0, <2>g DEF FetchSitemap, Visiting, Runs
  <2>h. CASE SitemapLoc
    <3> DEFINE u == Head(rest)
    <3>1. /\ provider = "sitemap" /\ rest # <<>> /\ rest' = Tail(rest)
          /\ UNCHANGED <<added, listed>>
      BY <2>h DEF SitemapLoc, Runs
    <3>2. u \in URLs \cup Sitemaps /\ Range(rest) = {u} \cup Range(rest')
      BY <3>1, TailFacts DEF TypeOK
    <3>3. found' = found \/ (found' = Append(found, u) /\ u \notin Sitemaps)
      BY <2>h DEF SitemapLoc, IsSitemap
    <3>4. Range(Append(found, u)) = Range(found) \cup {u}
      BY <3>2, AppendFacts DEF TypeOK
    <3> QED
      BY <2>0, <3>1, <3>2, <3>3, <3>4
  <2>i. CASE SitemapEnds
    BY <1>0, <2>0, <2>i DEF SitemapEnds, Return, Runs
  <2>k. CASE SkipSitemap \/ UNCHANGED vars
    BY <2>0, <2>k DEF SkipSitemap, Visiting, Runs, vars
  <2> QED
    BY <1>0, <1>2, <2>a, <2>g, <2>h, <2>i, <2>k
       DEF Next, SearchPage, SearchFails, SearchEnds, SearchResult, Robots, Runs, Return
<1> QED
  BY <1>1, <1>2

-----------------------------------------------------------------------------
(* The theorems. *)

LEMMA InitHolds == Init => IInv
<1> SUFFICES ASSUME Init PROVE IInv
  OBVIOUS
<1> USE EmptyRange DEF Init
<1>1. TypeOK
  BY SourceSets DEF TypeOK, Providers
<1>2. SearchInv
  BY DEF SearchInv, walk
<1>3. IsFiniteSet(Known)
  BY SourceSets, RangeFacts DEF Known
<1>4. FetchInv
  BY <1>3, FS_EmptySet, SourceSets DEF FetchInv
<1>5. WalkInv /\ DoneInv /\ ListedInv
  BY DEF WalkInv, DoneInv, ListedInv
<1> QED
  BY <1>1, <1>2, <1>4, <1>5 DEF IInv

(* The inductive invariant holds of every run of the providers that        *)
(* runDiscovery makes.                                                     *)
THEOREM SourcesInvariant == Spec => []IInv
<1>1. IInv /\ [Next]_vars => IInv'
  BY TypeStep, SearchStep, FetchStep, WalkStep, DoneStep, ListedStep DEF IInv
<1> QED
  BY <1>1, InitHolds, PTL DEF Spec

(* Type correctness, whatever searches and sites answer: the walk of       *)
(* SitemapProvider.Discover queues and fetches sitemaps alone, and finds   *)
(* pages alone.                                                            *)
THEOREM SourcesTyped == Spec => []TypeOK
<1>1. IInv => TypeOK
  BY DEF IInv
<1> QED
  BY <1>1, SourcesInvariant, PTL

(* SitemapProvider.Discover: for every graph of sitemaps and every limit,  *)
(* no document is fetched twice, none that was not named, no more than the *)
(* limit; none is missed when there is room for all, and what is added up  *)
(* to robots.txt is what the search and the fetched documents list.        *)
THEOREM WalkIsComplete == Spec => []SitemapWalk
<1>1. IInv => SitemapWalk
  BY DEF IInv, FetchInv, DoneInv, ListedInv, SitemapWalk
<1> QED
  BY <1>1, SourcesInvariant, PTL

(* HTTPSearchProvider.Discover with runDiscovery: all of the pages that    *)
(* were read, each URL once, or nothing after an error.                    *)
THEOREM SearchIsComplete == Spec => []SearchComplete
<1>1. IInv => SearchComplete
  BY DEF IInv, SearchInv, SearchComplete
<1> QED
  BY <1>1, SourcesInvariant, PTL

=============================================================================
