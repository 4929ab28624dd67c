----------------------------- MODULE JobConfig -----------------------------
(***************************************************************************)
(* The settings of a job, from the environment of the engine and the body  *)
(* of POST /v1/discovery/jobs to the job's row and to the worker's switches *)
(* and limits.  They are stored twice: in columns and as a JSON document.  *)
(***************************************************************************)
EXTENDS Integers, Functions, FiniteSetsExt

CONSTANTS
  Word,      \* the greatest int
  Column,    \* the greatest value of an integer column (int4)
  Switches,  \* the names of the capabilities of the instance
  Automatic  \* the sources that find candidates on their own

ASSUME ConfigSets ==
  /\ Word \in Nat /\ Column \in 1..Word
  /\ Automatic \cup {"link_discovery", "deep_crawl"} \subseteq Switches

Limits == {"max_pages", "max_urls", "max_depth", "max_candidates_per_page"}

(* An environment variable is [kind, n]: unset, unreadable or a number.    *)
(* Atoi clamps a number that is out of range, and its error is dropped.    *)
Atoi(v) == IF v.kind = "number" THEN Min({v.n, Word}) ELSE 0

IntEnv(v, default) ==
  IF v.kind = "unset" \/ Atoi(v) < 1 THEN default ELSE Atoi(v)

(* The limits that Load gives the engine; defaults are those of the row.   *)
Load(environ, default) == [k \in Limits |-> IntEnv(environ[k], default[k])]

(* capability.Defaults().Map(): on, but for two that the worker ignores. *)
Defaults == [k \in Switches |-> k \notin {"external_links", "browser_render"}]

(* The values of f, and those of g where f has none. *)
Over(f, g) ==
  [k \in DOMAIN f \cup DOMAIN g |-> IF k \in DOMAIN f THEN f[k] ELSE g[k]]

(* Deviation: the sources of a request are not merged in. *)
CapabilitiesAlone(req) == Over(req.capabilities, Defaults)

(* The loop over the limits takes every key of theirs, and comes after the *)
(* capabilities have been entered into the document: a positive limit of   *)
(* that name leaves a number where the worker looks for a map.             *)
Replaced(req) == "capabilities" \in DOMAIN req.limits /\ req.limits["capabilities"] > 0

(* The document's capabilities, empty where the worker finds no map.  The  *)
(* request's override its sources, these the defaults.                     *)
Capabilities(req) ==
  IF Replaced(req) THEN <<>>
  ELSE Over(req.capabilities,
            Over(Restrict(req.sources, DOMAIN req.sources \cap Switches), Defaults))

(* The reasons for a 400.  A mode that is not manual needs a source, an    *)
(* automatic one needs a source that is on and automatic.                  *)
Rejected(req) ==
  \/ req.project = "" \/ req.mode \notin {"manual", "automatic", "hybrid"}
  \/ req.mode = "manual" /\ req.seeds = 0
  \/ /\ req.mode = "automatic"
     /\ \A k \in DOMAIN req.sources \cap Automatic : ~req.sources[k]
  \/ req.mode # "manual" /\ DOMAIN req.sources = {}

(* Deviation: a limit of the request is taken as it is. *)
ConfigUnclamped(req, engine) ==
  [k \in Limits |-> IF k \in DOMAIN req.limits THEN req.limits[k] ELSE engine[k]]

(* The limits of the JSON document: those of the request that are positive, *)
(* the engine's where there is none, and never more than the engine's.     *)
Config(req, engine) ==
  [k \in Limits |->
     IF k \in DOMAIN req.limits /\ req.limits[k] > 0
       THEN Min({req.limits[k], engine[k]}) ELSE engine[k]]

(* The columns: CreateDiscoveryJobWithConfig has defaults of its own, and  *)
(* the database refuses a number that its column cannot hold.              *)
Row(config, default) ==
  [k \in Limits |->
     IF config[k] > 0 \/ (k = "max_depth" /\ config[k] = 0)
       THEN config[k] ELSE default[k]]

Stored(config, default) == \A k \in Limits : Row(config, default)[k] <= Column

(* What the worker reads back of the document; without a value it keeps    *)
(* the engine's.                                                           *)
WorkerLimits(config, engine) ==
  [k \in Limits |->
     IF config[k] > 0 \/ (k = "max_depth" /\ config[k] = 0)
       THEN config[k] ELSE engine[k]]

(* The worker's switches, on where the document has none or no map of     *)
(* them: for links, the source has the last word.                         *)
WorkerSwitch(req, k) ==
  IF k = "link_discovery" /\ k \in DOMAIN req.sources THEN req.sources[k]
  ELSE IF k \in DOMAIN Capabilities(req) THEN Capabilities(req)[k] ELSE TRUE

=============================================================================
