--------------------------- MODULE EngineRuntime ---------------------------
(***************************************************************************)
(* Numpo_Runtime of the WordPress plugin and the engine processes that it  *)
(* starts: concurrent PHP requests that call ensure_started, the           *)
(* deactivation that calls stop, and main of the engine from its start to  *)
(* its exit, with the embedded PostgreSQL it starts or adopts.             *)
(*                                                                         *)
(* The runtime mode is 'bundled' and the engine's binary is in place; the  *)
(* early returns for a host without either change nothing.                 *)
(***************************************************************************)
EXTENDS Integers, FiniteSets

CONSTANTS
  Requests,       \* PHP requests to the admin pages or the REST API
  NoRequest,      \* the holder of a start lock that is free
  Pids,           \* bound: process ids, each used for one engine
  NoPid,          \* no pid file
  PhpMayFail,     \* PHP may be killed inside a request, or fail to lock a file
  MayCrash,       \* an engine may die by itself
  MayDeactivate   \* the administrator may deactivate the plugin

ASSUME Names == NoRequest \notin Requests /\ NoPid \notin Pids
ASSUME Switches ==
  PhpMayFail \in BOOLEAN /\ MayCrash \in BOOLEAN /\ MayDeactivate \in BOOLEAN

VARIABLES
  engine,    \* how far each engine process has got
  termed,    \* the engines that SIGTERM was sent to
  owns,      \* the engines whose EmbeddedPostgres has a server to stop
  pg,        \* PostgreSQL on port 55432
  pidfile,   \* the contents of engine.pid
  lock,      \* who has locked runtime-start.lock
  pc,        \* where in ensure_started and start each request is
  pid,       \* its local $pid
  stopPc,    \* where in stop the deactivation is
  stopPid,   \* its local $pid
  disturbed  \* ghost: a request has died, or gone on without the lock or
             \* the pid file, or the plugin was deactivated

engineVars == <<engine, termed, owns, pg>>
stopVars == <<stopPc, stopPid, disturbed>>
vars == <<engineVars, pidfile, lock, pc, pid, stopVars>>

EngineState == {"unborn", "boot", "starting", "started", "database", "ready",
                "listening", "closing", "dead"}
PC == {"out", "lock", "read", "check", "term", "await", "unlink", "start",
       "save", "wait", "give_up", "drop"}
StopPC == {"active", "term", "await", "unlink", "done"}

Init ==
  /\ engine = [p \in Pids |-> "unborn"]
  /\ termed = {} /\ owns = {} /\ pg = "down"
  /\ pidfile = NoPid /\ lock = NoRequest
  /\ pc = [r \in Requests |-> "out"]
  /\ pid = [r \in Requests |-> NoPid]
  /\ stopPc = "active" /\ stopPid = NoPid /\ disturbed = FALSE

(* Bound: what the ghost records happens once. *)
Disturb == ~disturbed /\ disturbed' = TRUE

(* What kill -0 and fsockopen tell. *)
IsRunning(p) == p \in Pids /\ engine[p] \notin {"unborn", "dead"}
PortReady == \E p \in Pids : engine[p] = "listening"

-----------------------------------------------------------------------------
(* main of the engine.  log.Fatal ends it without the deferred calls.     *)

Becomes(p, s) == engine' = [engine EXCEPT ![p] = s]
OutsideEngines == UNCHANGED <<pidfile, lock, pc, pid, stopVars>>

(* SIGTERM before NotifyContext has its default effect. *)
DieEarly(p) ==
  /\ engine[p] = "boot" /\ p \in termed
  /\ Becomes(p, "dead")
  /\ UNCHANGED <<termed, owns, pg>> /\ OutsideEngines

(* StartEmbeddedPostgres adopts a PostgreSQL that already listens. *)
Dial(p) ==
  /\ engine[p] = "boot"
  /\ Becomes(p, IF pg = "up" THEN "database" ELSE "starting")
  /\ UNCHANGED <<termed, owns, pg>> /\ OutsideEngines

(* pg.Start fails when another PostgreSQL has taken the port meanwhile. *)
StartPostgres(p) ==
  /\ engine[p] = "starting"
  /\ IF pg = "down"
       THEN pg' = "up" /\ owns' = owns \cup {p} /\ Becomes(p, "started")
       ELSE Becomes(p, "dead") /\ UNCHANGED <<pg, owns>>
  /\ UNCHANGED termed /\ OutsideEngines

(* A signal that came while PostgreSQL started: it is stopped again. *)
Started(p) ==
  /\ engine[p] = "started"
  /\ IF p \in termed THEN pg' = "down" /\ Becomes(p, "dead")
                     ELSE UNCHANGED pg /\ Becomes(p, "database")
  /\ UNCHANGED <<termed, owns>> /\ OutsideEngines

(* store.New and migrate.Run, with the context that the signal cancels. *)
Connect(p) ==
  /\ engine[p] = "database"
  /\ Becomes(p, IF pg = "up" /\ p \notin termed THEN "ready" ELSE "dead")
  /\ UNCHANGED <<termed, owns, pg>> /\ OutsideEngines

(* ListenAndServe; a port in use is fatal. *)
Listen(p) ==
  /\ engine[p] = "ready"
  /\ Becomes(p, IF PortReady THEN "dead" ELSE "listening")
  /\ UNCHANGED <<termed, owns, pg>> /\ OutsideEngines

(* Shutdown closes the listener, or keeps it from being opened. *)
Shutdown(p) ==
  /\ engine[p] \in {"ready", "listening"} /\ p \in termed
  /\ Becomes(p, "closing")
  /\ UNCHANGED <<termed, owns, pg>> /\ OutsideEngines

(* Deviation: Stop does not look whether the server is its own. *)
ExitAlwaysStops(p) ==
  /\ engine[p] = "closing"
  /\ Becomes(p, "dead")
  /\ pg' = "down"
  /\ UNCHANGED <<termed, owns>> /\ OutsideEngines

(* The deferred embedded.Stop, which does nothing for an adopted server. *)
Exit(p) ==
  /\ engine[p] = "closing"
  /\ Becomes(p, "dead")
  /\ pg' = IF p \in owns THEN "down" ELSE pg
  /\ UNCHANGED <<termed, owns>> /\ OutsideEngines

(* The sudden death of an engine, which PostgreSQL survives, also one that *)
(* the engine was about to start.                                          *)
Killed(p) ==
  /\ Becomes(p, "dead")
  /\ pg' \in IF engine[p] = "starting" THEN {pg, "up"} ELSE {pg}

(* The kernel, or a start of PostgreSQL that fails for its own reasons. *)
EngineDies(p) ==
  /\ MayCrash /\ IsRunning(p)
  /\ Killed(p)
  /\ UNCHANGED <<termed, owns>> /\ OutsideEngines

EngineStep(p) ==
  \/ DieEarly(p) \/ Dial(p) \/ StartPostgres(p) \/ Started(p) \/ Connect(p)
  \/ Listen(p) \/ Shutdown(p) \/ Exit(p)

-----------------------------------------------------------------------------
(* kill -TERM and kill -KILL of a local $pid. *)

Terminate(p) ==
  /\ termed' = IF IsRunning(p) THEN termed \cup {p} ELSE termed
  /\ UNCHANGED <<engine, owns, pg>>

(* Wait for the process, and kill it if it outlasts the deadline. *)
AwaitOrKill(p) ==
  /\ IF IsRunning(p) THEN Killed(p) ELSE UNCHANGED <<engine, pg>>
  /\ UNCHANGED <<termed, owns>>

-----------------------------------------------------------------------------
(* ensure_started and start. *)

Goto(r, l) == pc' = [pc EXCEPT ![r] = l]

(* Deviation: a return that leaves the lock file locked. *)
LeaveLocked(r) ==
  /\ Goto(r, "out")
  /\ pid' = [pid EXCEPT ![r] = NoPid]
  /\ UNCHANGED lock

(* The function returns, and the lock with its file handle is gone. *)
Leave(r) ==
  /\ Goto(r, "out")
  /\ pid' = [pid EXCEPT ![r] = NoPid]
  /\ lock' = IF lock = r THEN NoRequest ELSE lock

(* Hooks run as long as the plugin is active. *)
Enter(r) ==
  /\ pc[r] = "out" /\ stopPc = "active"
  /\ Goto(r, "lock")
  /\ UNCHANGED <<engineVars, pidfile, lock, pid, stopVars>>

(* Deviation: flock with LOCK_NB whose result nobody looks at. *)
LockShared(r) ==
  /\ pc[r] = "lock"
  /\ lock' = r
  /\ Goto(r, "read")
  /\ UNCHANGED <<engineVars, pidfile, pid, stopVars>>

Lock(r) ==
  /\ pc[r] = "lock" /\ lock = NoRequest
  /\ lock' = r
  /\ Goto(r, "read")
  /\ UNCHANGED <<engineVars, pidfile, pid, stopVars>>

(* fopen or flock fails: ensure_started goes on without the lock. *)
LockFails(r) ==
  /\ PhpMayFail /\ pc[r] = "lock"
  /\ Goto(r, "read")
  /\ Disturb
  /\ UNCHANGED <<engineVars, pidfile, lock, pid, stopPc, stopPid>>

ReadPid(r) ==
  /\ pc[r] = "read"
  /\ pid' = [pid EXCEPT ![r] = pidfile]
  /\ Goto(r, IF IsRunning(pidfile) THEN "check" ELSE "unlink")
  /\ UNCHANGED <<engineVars, pidfile, lock, stopVars>>

(* port_ready and three seconds of wait_ready. *)
Check(r) ==
  /\ pc[r] = "check"
  /\ IF PortReady THEN Leave(r) ELSE Goto(r, "term") /\ UNCHANGED <<lock, pid>>
  /\ UNCHANGED <<engineVars, pidfile, stopVars>>

Term(r) ==
  /\ pc[r] = "term"
  /\ Terminate(pid[r])
  /\ Goto(r, "await")
  /\ UNCHANGED <<pidfile, lock, pid, stopVars>>

Await(r) ==
  /\ pc[r] = "await"
  /\ AwaitOrKill(pid[r])
  /\ Goto(r, "unlink")
  /\ UNCHANGED <<pidfile, lock, pid, stopVars>>

Unlink(r) ==
  /\ pc[r] = "unlink"
  /\ pidfile' = NoPid
  /\ Goto(r, "start")
  /\ UNCHANGED <<engineVars, lock, pid, stopVars>>

(* start: an open port is taken for the engine; otherwise one is launched, *)
(* which exec may fail to do.                                              *)
Launch(r) ==
  /\ pc[r] = "start"
  /\ \/ Leave(r) /\ UNCHANGED engine
     \/ /\ ~PortReady
        /\ \E p \in Pids :
             /\ engine[p] = "unborn"
             /\ Becomes(p, "boot")
             /\ pid' = [pid EXCEPT ![r] = p]
        /\ Goto(r, "save")
        /\ UNCHANGED lock
  /\ UNCHANGED <<termed, owns, pg, pidfile, stopVars>>

SavePid(r) ==
  /\ pc[r] = "save"
  /\ pidfile' = pid[r]
  /\ Goto(r, "wait")
  /\ UNCHANGED <<engineVars, lock, pid, stopVars>>

(* file_put_contents fails: the file stays as it was or is left empty, and *)
(* start goes on all the same.                                             *)
SaveFails(r) ==
  /\ PhpMayFail /\ pc[r] = "save"
  /\ pidfile' \in {pidfile, NoPid}
  /\ Goto(r, "wait")
  /\ Disturb
  /\ UNCHANGED <<engineVars, lock, pid, stopPc, stopPid>>

(* Ten seconds of wait_ready. *)
WaitReady(r) ==
  /\ pc[r] = "wait"
  /\ IF PortReady THEN Leave(r)
                  ELSE Goto(r, "give_up") /\ UNCHANGED <<lock, pid>>
  /\ UNCHANGED <<engineVars, pidfile, stopVars>>

(* The engine that was too slow is told to stop, and not waited for. *)
GiveUp(r) ==
  /\ pc[r] = "give_up"
  /\ Terminate(pid[r])
  /\ Goto(r, "drop")
  /\ UNCHANGED <<pidfile, lock, pid, stopVars>>

Drop(r) ==
  /\ pc[r] = "drop"
  /\ pidfile' = NoPid
  /\ Leave(r)
  /\ UNCHANGED <<engineVars, stopVars>>

PhpDies(r) ==
  /\ PhpMayFail /\ pc[r] # "out"
  /\ Leave(r)
  /\ Disturb
  /\ UNCHANGED <<engineVars, pidfile, stopPc, stopPid>>

RequestStep(r) ==
  \/ Lock(r) \/ ReadPid(r) \/ Check(r) \/ Term(r) \/ Await(r) \/ Unlink(r)
  \/ Launch(r) \/ SavePid(r) \/ WaitReady(r) \/ GiveUp(r) \/ Drop(r)

-----------------------------------------------------------------------------
(* stop, called by the deactivation hook.  It does not take the lock. *)

StopRead ==
  /\ MayDeactivate /\ stopPc = "active"
  /\ stopPid' = pidfile
  /\ stopPc' = IF pidfile = NoPid THEN "unlink" ELSE "term"
  /\ Disturb
  /\ UNCHANGED <<engineVars, pidfile, lock, pc, pid>>

StopTerm ==
  /\ stopPc = "term"
  /\ Terminate(stopPid)
  /\ stopPc' = "await"
  /\ UNCHANGED <<pidfile, lock, pc, pid, stopPid, disturbed>>

StopAwait ==
  /\ stopPc = "await"
  /\ AwaitOrKill(stopPid)
  /\ stopPc' = "unlink"
  /\ UNCHANGED <<pidfile, lock, pc, pid, stopPid, disturbed>>

StopUnlink ==
  /\ stopPc = "unlink"
  /\ pidfile' = NoPid
  /\ stopPc' = "done" /\ stopPid' = NoPid
  /\ UNCHANGED <<engineVars, lock, pc, pid, disturbed>>

StopStep == StopTerm \/ StopAwait \/ StopUnlink

-----------------------------------------------------------------------------

Next ==
  \/ \E p \in Pids : EngineStep(p) \/ EngineDies(p)
  \/ \E r \in Requests : \/ Enter(r) \/ RequestStep(r)
                        \/ LockFails(r) \/ SaveFails(r) \/ PhpDies(r)
  \/ StopRead \/ StopStep

Spec == Init /\ [][Next]_vars

(* Processes run, every wait of PHP has a deadline, and flock does not     *)
(* pass over a waiting request for ever.                                   *)
Fairness ==
  /\ \A p \in Pids : WF_vars(EngineStep(p))
  /\ \A r \in Requests : SF_vars(RequestStep(r))
  /\ WF_vars(StopStep)

FairSpec == Spec /\ Fairness

-----------------------------------------------------------------------------
(* Properties. *)

(* Every variable has its type, and the start lock is held only by a      *)
(* request that is between flock and its return.                          *)
TypeOK ==
  /\ engine \in [Pids -> EngineState]
  /\ termed \subseteq Pids /\ owns \subseteq Pids /\ pg \in {"up", "down"}
  /\ pidfile \in Pids \cup {NoPid}
  /\ lock \in Requests \cup {NoRequest}
  /\ pc \in [Requests -> PC]
  /\ pid \in [Requests -> Pids \cup {NoPid}]
  /\ stopPc \in StopPC /\ stopPid \in Pids \cup {NoPid}
  /\ disturbed \in BOOLEAN
  /\ lock # NoRequest => pc[lock] \notin {"out", "lock"}

(* The engines that nobody has told to stop. *)
Wanted == {p \in Pids : IsRunning(p) /\ p \notin termed}

(* Until a request dies, or goes on although it could not lock or write   *)
(* the pid file, or the plugin is deactivated, an engine that nobody has  *)
(* told to stop is named by the pid file, or its launcher is about to     *)
(* write it there: so it can be found again, and there is never a second  *)
(* one (ensure_started, start).                                           *)
EngineIsManaged ==
  ~disturbed =>
    \A p \in Wanted :
      /\ pidfile = p \/ \E r \in Requests : pc[r] = "save" /\ pid[r] = p
      /\ \A q \in Wanted : q = p

(* An engine that serves from a PostgreSQL it has started itself has it   *)
(* until it is told to stop, whatever other engines adopt, stop or leave  *)
(* behind (StartEmbeddedPostgres, Stop).                                  *)
OwnDatabaseKept ==
  \A p \in owns : engine[p] = "listening" => pg = "up"

(* Every call of ensure_started returns, so a page that needs the engine  *)
(* is not kept waiting for ever by those who wait for the same lock.      *)
RequestReturns == \A r \in Requests : pc[r] = "lock" ~> pc[r] = "out"

(* An engine that serves has a database, whether it has started or        *)
(* adopted it.                                                            *)
DatabaseServes == PortReady => pg = "up"

(* When deactivation is over and no request is left, no engine runs that  *)
(* has not been told to stop.                                             *)
DeactivationStops ==
  (stopPc = "done" /\ \A r \in Requests : pc[r] = "out") => Wanted = {}

=============================================================================
