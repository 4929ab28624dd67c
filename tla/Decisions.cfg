\* A second is two units of an int64 that is eight bits wide; an int goes to 5
\* and a column to 3.
\* Of four sitemaps three are read, of a search two pages.
SPECIFICATION JobSpec
CONSTANTS
  Second = 2
  MaxInt = 127
  Fold <- Folding
  TwoLetter = {"ir", "de", "uk", "co"}
  Number = Number
  Word = 5
  Column = 3
  Switches = {"link_discovery", "deep_crawl", "search_provider", "external_links", "browser_render"}
  Automatic = {"link_discovery", "search_provider"}
  Policies <- PoliciesOf
  Errors <- ErrorsOf
  Attempts = {1, 2, 3, 4}
  Targets <- TargetsOf
  Pages <- PagesOf
  RuleLists <- RuleListsOf
  Requests <- RequestsOf
  Environs <- EnvironsOf
  RowDefault <- RowDefaultOf
  URLs = {"p", "q"}
  Sitemaps = {"sitemap", "index", "a", "b"}
  RootSitemaps <- Roots
  SitemapLimit = 3
  MaxPages = 2
  Documents <- DocumentsOf
  Results <- ResultsOf
INVARIANTS
  RetryDelay TargetIndependent RulesOnlyAdd LimitsAgree SwitchesHonoured
  TypeOK SitemapWalk SearchComplete
PROPERTY DiscoveryEnds
CHECK_DEADLOCK FALSE
