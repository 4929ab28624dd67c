--------------------------- MODULE MCDiscoveryJob ---------------------------
(* Small instances of DiscoveryJob: a seed page "s" that links to "a", which *)
(* links back to "s" and on to "b"; "b" can also be imported as CSV.         *)
EXTENDS DiscoveryJob, TLC

SiteLinks == ("s" :> {"a"}) @@ ("a" :> {"s", "b"}) @@ ("b" :> {})
PairLinks == ("s" :> {"a"}) @@ ("a" :> {"s"})

WorkerSymmetry == Permutations(Workers)

=============================================================================
