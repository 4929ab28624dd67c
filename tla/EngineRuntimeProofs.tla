------------------------ MODULE EngineRuntimeProofs ------------------------
(***************************************************************************)
(* Proofs about EngineRuntime, for any number of requests and engines.     *)
(*                                                                         *)
(* Three inductive invariants: who is inside the start lock, which engine  *)
(* the pid file stands for at every point of ensure_started, and which     *)
(* engines own the PostgreSQL that runs.                                   *)
(***************************************************************************)
EXTENDS EngineRuntime, TLAPS

(* The converse of TypeOK's last conjunct: whoever is past flock has the  *)
(* lock, so at most one request is, until flock fails.                    *)
LockInv ==
  ~disturbed =>
    \A r \in Requests : pc[r] \notin {"out", "lock"} => lock = r

(* What the holder of the lock knows about the engines nobody has told to *)
(* stop: there is none, or the one its $pid names.                        *)
Supervised ==
  /\ stopPc = "active"
  /\ \A r \in Requests :
       /\ pc[r] \in {"check", "term", "await", "wait", "give_up"}
            => pid[r] = pidfile
       /\ pc[r] \in {"unlink", "start", "drop"} => Wanted = {}
       /\ pc[r] = "save" => Wanted \subseteq {pid[r]}
  /\ (\A r \in Requests : pc[r] # "save") => Wanted \subseteq {pidfile}

ManagedInv == ~disturbed => Supervised

(* An engine owns a PostgreSQL from its start of it on; while it lives,   *)
(* PostgreSQL is up and no other living engine owns one.                  *)
OwnerInv ==
  /\ \A p \in Pids : engine[p] = "started" => p \in owns
  /\ \A p \in owns : engine[p] \notin {"unborn", "boot", "starting"}
  /\ \A p \in owns : engine[p] # "dead" =>
       /\ pg = "up"
       /\ \A q \in owns : engine[q] # "dead" => q = p

-----------------------------------------------------------------------------
(* Types and the start lock. *)

LockedTypes == TypeOK /\ LockInv

USE Names, Switches

(* Initially the lock is free. *)
LEMMA LockedInit == Init => LockedTypes
  BY DEF Init, LockedTypes, TypeOK, LockInv, EngineState, PC, StopPC

(* No step lets a second request into the lock, or a request out of it    *)
(* with the lock still held.                                              *)
LEMMA LockedStep == LockedTypes /\ [Next]_vars => LockedTypes'
<1> SUFFICES ASSUME LockedTypes, [Next]_vars PROVE LockedTypes'
  OBVIOUS
<1> USE DEF LockedTypes, TypeOK, LockInv, EngineState, PC, StopPC, Becomes,
            OutsideEngines, engineVars, stopVars, Goto, Leave
<1>1. ASSUME NEW p \in Pids, DieEarly(p) PROVE LockedTypes'
  BY <1>1 DEF DieEarly
<1>2. ASSUME NEW p \in Pids, Dial(p) PROVE LockedTypes'
  BY <1>2 DEF Dial
<1>3. ASSUME NEW p \in Pids, StartPostgres(p) PROVE LockedTypes'
  BY <1>3 DEF StartPostgres
<1>4. ASSUME NEW p \in Pids, Started(p) PROVE LockedTypes'
  BY <1>4 DEF Started
<1>5. ASSUME NEW p \in Pids, Connect(p) PROVE LockedTypes'
  BY <1>5 DEF Connect
<1>6. ASSUME NEW p \in Pids, Listen(p) PROVE LockedTypes'
  BY <1>6 DEF Listen
<1>7. ASSUME NEW p \in Pids, Shutdown(p) PROVE LockedTypes'
  BY <1>7 DEF Shutdown
<1>8. ASSUME NEW p \in Pids, Exit(p) PROVE LockedTypes'
  BY <1>8 DEF Exit
<1>9. ASSUME NEW p \in Pids, EngineDies(p) PROVE LockedTypes'
  BY <1>9 DEF EngineDies, Killed
<1>10. ASSUME NEW r \in Requests, Enter(r) PROVE LockedTypes'
  BY <1>10 DEF Enter
<1>11. ASSUME NEW r \in Requests, Lock(r) PROVE LockedTypes'
  BY <1>11 DEF Lock
<1>12. ASSUME NEW r \in Requests, ReadPid(r) PROVE LockedTypes'
  BY <1>12 DEF ReadPid
<1>13. ASSUME NEW r \in Requests, Check(r) PROVE LockedTypes'
  BY <1>13 DEF Check
<1>14. ASSUME NEW r \in Requests, Term(r) PROVE LockedTypes'
  BY <1>14 DEF Term, Terminate, IsRunning
<1>15. ASSUME NEW r \in Requests, Await(r) PROVE LockedTypes'
  BY <1>15 DEF Await, AwaitOrKill, Killed
<1>16. ASSUME NEW r \in Requests, Unlink(r) PROVE LockedTypes'
  BY <1>16 DEF Unlink
<1>17. ASSUME NEW r \in Requests, Launch(r) PROVE LockedTypes'
  BY <1>17 DEF Launch
<1>18. ASSUME NEW r \in Requests, SavePid(r) PROVE LockedTypes'
  BY <1>18 DEF SavePid
<1>19. ASSUME NEW r \in Requests, WaitReady(r) PROVE LockedTypes'
  BY <1>19 DEF WaitReady
<1>20. ASSUME NEW r \in Requests, GiveUp(r) PROVE LockedTypes'
  BY <1>20 DEF GiveUp, Terminate, IsRunning
<1>21. ASSUME NEW r \in Requests, Drop(r) PROVE LockedTypes'
  BY <1>21 DEF Drop
<1>22. ASSUME NEW r \in Requests, PhpDies(r) PROVE LockedTypes'
  BY <1>22 DEF PhpDies, Disturb
<1>23. ASSUME StopRead PROVE LockedTypes'
  BY <1>23 DEF StopRead, Disturb
<1>24. ASSUME StopTerm PROVE LockedTypes'
  BY <1>24 DEF StopTerm, Terminate, IsRunning
<1>25. ASSUME StopAwait PROVE LockedTypes'
  BY <1>25 DEF StopAwait, AwaitOrKill, Killed
<1>26. ASSUME StopUnlink PROVE LockedTypes'
  BY <1>26 DEF StopUnlink
<1>27. ASSUME NEW r \in Requests, LockFails(r) PROVE LockedTypes'
  BY <1>27 DEF LockFails, Disturb
<1>28. ASSUME NEW r \in Requests, SaveFails(r) PROVE LockedTypes'
  BY <1>28 DEF SaveFails, Disturb
<1>29. CASE UNCHANGED vars
  BY <1>29 DEF vars, engineVars, stopVars
<1> QED
  BY <1>1, <1>2, <1>3, <1>4, <1>5, <1>6, <1>7, <1>8, <1>9, <1>10, <1>11,
     <1>12, <1>13, <1>14, <1>15, <1>16, <1>17, <1>18, <1>19, <1>20, <1>21,
     <1>22, <1>23, <1>24, <1>25, <1>26, <1>27, <1>28, <1>29
  DEF Next, EngineStep, RequestStep, StopStep

(* The lock is exclusive throughout. *)
LEMMA LockedHolds == Spec => []LockedTypes
  BY LockedInit, LockedStep, PTL DEF Spec

(* EngineRuntime is type-correct, and its start lock is held only by a    *)
(* request inside ensure_started.                                         *)
THEOREM RuntimeTypes == Spec => []TypeOK
<1>1. LockedTypes => TypeOK
  BY DEF LockedTypes
<1> QED
  BY <1>1, LockedHolds, PTL

-----------------------------------------------------------------------------
(* The owner of PostgreSQL. *)

(* Initially nobody owns a PostgreSQL. *)
LEMMA OwnerInit == Init => OwnerInv
  BY DEF Init, OwnerInv

(* Only its owner stops a PostgreSQL, and then it has stopped serving.    *)
LEMMA OwnerStep == TypeOK /\ OwnerInv /\ [Next]_vars => OwnerInv'
<1> SUFFICES ASSUME TypeOK, OwnerInv, [Next]_vars PROVE OwnerInv'
  OBVIOUS
<1> USE DEF TypeOK, OwnerInv, EngineState, Becomes, OutsideEngines, engineVars
<1>1. ASSUME NEW p \in Pids, DieEarly(p) PROVE OwnerInv'
  BY <1>1 DEF DieEarly
<1>2. ASSUME NEW p \in Pids, Dial(p) PROVE OwnerInv'
  BY <1>2 DEF Dial
<1>3. ASSUME NEW p \in Pids, StartPostgres(p) PROVE OwnerInv'
  BY <1>3 DEF StartPostgres
<1>4. ASSUME NEW p \in Pids, Started(p) PROVE OwnerInv'
  BY <1>4 DEF Started
<1>5. ASSUME NEW p \in Pids, Connect(p) PROVE OwnerInv'
  BY <1>5 DEF Connect
<1>6. ASSUME NEW p \in Pids, Listen(p) PROVE OwnerInv'
  BY <1>6 DEF Listen
<1>7. ASSUME NEW p \in Pids, Shutdown(p) PROVE OwnerInv'
  BY <1>7 DEF Shutdown
<1>8. ASSUME NEW p \in Pids, Exit(p) PROVE OwnerInv'
  BY <1>8 DEF Exit
<1>9. ASSUME NEW p \in Pids, EngineDies(p) PROVE OwnerInv'
  BY <1>9 DEF EngineDies, Killed
<1>10. ASSUME NEW r \in Requests, Enter(r) PROVE OwnerInv'
  BY <1>10 DEF Enter
<1>11. ASSUME NEW r \in Requests, Lock(r) PROVE OwnerInv'
  BY <1>11 DEF Lock
<1>12. ASSUME NEW r \in Requests, ReadPid(r) PROVE OwnerInv'
  BY <1>12 DEF ReadPid
<1>13. ASSUME NEW r \in Requests, Check(r) PROVE OwnerInv'
  BY <1>13 DEF Check
<1>14. ASSUME NEW r \in Requests, Term(r) PROVE OwnerInv'
  BY <1>14 DEF Term, Terminate, IsRunning
<1>15. ASSUME NEW r \in Requests, Await(r) PROVE OwnerInv'
  BY <1>15 DEF Await, AwaitOrKill, Killed
<1>16. ASSUME NEW r \in Requests, Unlink(r) PROVE OwnerInv'
  BY <1>16 DEF Unlink
<1>17. ASSUME NEW r \in Requests, Launch(r) PROVE OwnerInv'
  BY <1>17 DEF Launch
<1>18. ASSUME NEW r \in Requests, SavePid(r) PROVE OwnerInv'
  BY <1>18 DEF SavePid
<1>19. ASSUME NEW r \in Requests, WaitReady(r) PROVE OwnerInv'
  BY <1>19 DEF WaitReady
<1>20. ASSUME NEW r \in Requests, GiveUp(r) PROVE OwnerInv'
  BY <1>20 DEF GiveUp, Terminate, IsRunning
<1>21. ASSUME NEW r \in Requests, Drop(r) PROVE OwnerInv'
  BY <1>21 DEF Drop
<1>22. ASSUME NEW r \in Requests, PhpDies(r) PROVE OwnerInv'
  BY <1>22 DEF PhpDies, Disturb
<1>23. ASSUME StopRead PROVE OwnerInv'
  BY <1>23 DEF StopRead, Disturb
<1>24. ASSUME StopTerm PROVE OwnerInv'
  BY <1>24 DEF StopTerm, Terminate, IsRunning
<1>25. ASSUME StopAwait PROVE OwnerInv'
  BY <1>25 DEF StopAwait, AwaitOrKill, Killed
<1>26. ASSUME StopUnlink PROVE OwnerInv'
  BY <1>26 DEF StopUnlink
<1>27. ASSUME NEW r \in Requests, LockFails(r) PROVE OwnerInv'
  BY <1>27 DEF LockFails, Disturb
<1>28. ASSUME NEW r \in Requests, SaveFails(r) PROVE OwnerInv'
  BY <1>28 DEF SaveFails, Disturb
<1>29. CASE UNCHANGED vars
  BY <1>29 DEF vars, engineVars, stopVars
<1> QED
  BY <1>1, <1>2, <1>3, <1>4, <1>5, <1>6, <1>7, <1>8, <1>9, <1>10, <1>11,
     <1>12, <1>13, <1>14, <1>15, <1>16, <1>17, <1>18, <1>19, <1>20, <1>21,
     <1>22, <1>23, <1>24, <1>25, <1>26, <1>27, <1>28, <1>29
  DEF Next, EngineStep, RequestStep, StopStep

(* An engine that serves from a PostgreSQL of its own keeps it until it   *)
(* is told to stop, whatever other engines do (embedded.go).              *)
THEOREM OwnersKeepTheirDatabase == Spec => []OwnDatabaseKept
<1>1. OwnerInv => OwnDatabaseKept
  BY DEF OwnerInv, OwnDatabaseKept
<1> QED
  BY <1>1, OwnerInit, OwnerStep, RuntimeTypes, PTL DEF Spec

-----------------------------------------------------------------------------
(* The engine that the pid file stands for. *)

(* Signals are not taken back and dead engines stay dead: unless one is   *)
(* launched, no engine becomes wanted.                                    *)
LEMMA WantedShrinks ==
  ASSUME termed \subseteq termed',
         \A p \in Pids : IsRunning(p)' => IsRunning(p)
  PROVE  Wanted' \subseteq Wanted
  BY DEF Wanted

(* A step of an engine leaves the pid file and every request alone. *)
LEMMA SupervisedEngine ==
  ASSUME TypeOK, Supervised, OutsideEngines, termed' = termed,
         NEW p \in Pids, NEW s \in EngineState, IsRunning(p), Becomes(p, s)
  PROVE  Supervised'
<1>1. \A q \in Pids : IsRunning(q)' => IsRunning(q)
  BY DEF TypeOK, Becomes, IsRunning
<1>2. Wanted' \subseteq Wanted
  BY <1>1, WantedShrinks
<1> QED
  BY <1>2 DEF Supervised, OutsideEngines, stopVars

(* Initially there is no engine. *)
LEMMA SupervisedInit == Init => Supervised
  BY DEF Init, Supervised, Wanted, IsRunning

(* What has disturbed ensure_started is not forgotten. *)
LEMMA DisturbedStays ==
  ASSUME TypeOK, [Next]_vars, ~disturbed' PROVE ~disturbed
  BY DEF TypeOK, Next, EngineStep, RequestStep, StopStep, DieEarly, Dial,
     StartPostgres, Started, Connect, Listen, Shutdown, Exit, EngineDies,
     OutsideEngines, Enter, Lock, LockFails, ReadPid, Check, Term, Await,
     Unlink, Launch, SavePid, SaveFails, WaitReady, GiveUp, Drop, PhpDies, StopRead,
     StopTerm, StopAwait, StopUnlink, Disturb, stopVars, vars

(* As long as nothing disturbs ensure_started, no step loses sight of an  *)
(* engine.                                                                *)
LEMMA SupervisedStep ==
  ASSUME ~disturbed, ~disturbed', LockedTypes, Supervised, [Next]_vars
  PROVE  Supervised'
<1> USE DEF LockedTypes, TypeOK, LockInv
<1>1. ASSUME NEW p \in Pids, EngineStep(p) \/ EngineDies(p) PROVE Supervised'
  <2>1. OutsideEngines /\ termed' = termed /\ IsRunning(p)
    BY <1>1 DEF EngineStep, DieEarly, Dial, StartPostgres, Started, Connect,
       Listen, Shutdown, Exit, EngineDies, IsRunning
  <2>2. \E s \in EngineState : Becomes(p, s)
    BY <1>1 DEF EngineStep, DieEarly, Dial, StartPostgres, Started, Connect,
       Listen, Shutdown, Exit, EngineDies, Killed, EngineState
  <2> QED
    BY <2>1, <2>2, SupervisedEngine
<1>2. ASSUME NEW r \in Requests,
             Enter(r) \/ Lock(r) \/ Check(r) \/ WaitReady(r)
      PROVE  Supervised'
  <2>1. Wanted' = Wanted /\ pidfile' = pidfile /\ stopPc' = stopPc
    BY <1>2 DEF Enter, Lock, Check, WaitReady, engineVars, stopVars, Wanted,
       IsRunning
  <2>2. /\ pc' \in [Requests -> PC]
        /\ pc[r] # "save"
        /\ pc'[r] \in {"out", "lock", "read", "term", "give_up"}
        /\ \A q \in Requests \ {r} : pc'[q] = pc[q] /\ pid'[q] = pid[q]
        /\ pc'[r] \in {"term", "give_up"} =>
             pc[r] \in {"check", "wait"} /\ pid'[r] = pid[r]
    BY <1>2 DEF Enter, Lock, Check, WaitReady, Goto, Leave, PC
  <2> QED
    BY <2>1, <2>2 DEF Supervised
<1>3. ASSUME NEW r \in Requests, ReadPid(r) PROVE Supervised'
  <2>1. Wanted' = Wanted
    BY <1>3 DEF ReadPid, engineVars, Wanted, IsRunning
  <2>2. \A q \in Requests : pc[q] # "save"
    BY <1>3 DEF ReadPid
  <2>3. Wanted \subseteq {pidfile}
    BY <2>2 DEF Supervised
  <2>4. pc'[r] = "unlink" => Wanted = {}
    BY <1>3, <2>3 DEF ReadPid, Goto, Wanted
  <2> QED
    BY <1>3, <2>1, <2>3, <2>4 DEF ReadPid, Goto, Supervised, stopVars
<1>4. ASSUME NEW r \in Requests, Term(r) \/ GiveUp(r) PROVE Supervised'
  <2>1. \A q \in Pids : IsRunning(q)' => IsRunning(q)
    BY <1>4 DEF Term, GiveUp, Terminate, IsRunning
  <2>2. Wanted' \subseteq Wanted
    BY <1>4, <2>1, WantedShrinks DEF Term, GiveUp, Terminate
  <2>3. pid[r] \notin Wanted'
    BY <1>4 DEF Term, GiveUp, Terminate, Wanted, IsRunning
  <2>4. lock = r /\ pid[r] = pidfile /\ \A q \in Requests : pc[q] # "save"
    BY <1>4 DEF Term, GiveUp, Supervised
  <2>5. Wanted' = {}
    BY <2>2, <2>3, <2>4 DEF Supervised
  <2> QED
    BY <1>4, <2>4, <2>5 DEF Term, GiveUp, Goto, Supervised, stopVars
<1>5. ASSUME NEW r \in Requests, Await(r) PROVE Supervised'
  <2>1. \A q \in Pids : IsRunning(q)' => IsRunning(q)
    BY <1>5 DEF Await, AwaitOrKill, Killed, Becomes, IsRunning
  <2>2. Wanted' \subseteq Wanted
    BY <1>5, <2>1, WantedShrinks DEF Await, AwaitOrKill
  <2>3. pid[r] \notin Wanted'
    BY <1>5 DEF Await, AwaitOrKill, Killed, Becomes, Wanted, IsRunning
  <2>4. lock = r /\ pid[r] = pidfile /\ \A q \in Requests : pc[q] # "save"
    BY <1>5 DEF Await, Supervised
  <2>5. Wanted' = {}
    BY <2>2, <2>3, <2>4 DEF Supervised
  <2> QED
    BY <1>5, <2>4, <2>5 DEF Await, Goto, Supervised, stopVars
<1>6. ASSUME NEW r \in Requests, Unlink(r) \/ Drop(r) PROVE Supervised'
  <2>1. Wanted' = Wanted /\ Wanted = {}
    BY <1>6 DEF Unlink, Drop, engineVars, Wanted, IsRunning, Supervised
  <2>2. \A q \in Requests :
          pc'[q] \notin {"save", "check", "term", "await", "wait", "give_up"}
    BY <1>6 DEF Unlink, Drop, Goto, Leave
  <2> QED
    BY <1>6, <2>1, <2>2 DEF Unlink, Drop, Supervised, stopVars
<1>7. ASSUME NEW r \in Requests, Launch(r) PROVE Supervised'
  <2>1. Wanted = {} /\ lock = r
    BY <1>7 DEF Launch, Supervised
  <2>2. CASE Leave(r) /\ UNCHANGED engine
    <3>1. Wanted' = {}
      BY <1>7, <2>1, <2>2 DEF Launch, Wanted, IsRunning
    <3>2. pidfile' = pidfile /\ stopPc' = stopPc
      BY <1>7 DEF Launch, stopVars
    <3>3. \A q \in Requests : pc'[q] \in {"out", "lock"}
      BY <1>7, <2>1, <2>2 DEF Launch, Leave, Goto
    <3> QED
      BY <3>1, <3>2, <3>3 DEF Supervised
  <2>3. CASE pc'[r] = "save"
    <3>1. PICK p \in Pids : Becomes(p, "boot") /\ pid' = [pid EXCEPT ![r] = p]
      BY <1>7, <2>3 DEF Launch, Leave, Goto
    <3>2. Wanted' \subseteq {pid'[r]}
      BY <1>7, <2>1, <3>1 DEF Launch, Becomes, Wanted, IsRunning
    <3>3. \A q \in Requests \ {r} : pc'[q] \in {"out", "lock"}
      BY <1>7, <2>1 DEF Launch, Leave, Goto
    <3> QED
      BY <1>7, <2>3, <3>2, <3>3 DEF Launch, Supervised, stopVars
  <2> QED
    BY <1>7, <2>2, <2>3 DEF Launch, Goto
<1>8. ASSUME NEW r \in Requests, SavePid(r) PROVE Supervised'
  <2>1. Wanted' = Wanted /\ Wanted \subseteq {pid[r]} /\ lock = r
    BY <1>8 DEF SavePid, engineVars, Wanted, IsRunning, Supervised
  <2>2. \A q \in Requests \ {r} : pc'[q] \in {"out", "lock"}
    BY <1>8, <2>1 DEF SavePid, Goto
  <2> QED
    BY <1>8, <2>1, <2>2 DEF SavePid, Goto, Supervised, stopVars
<1>9. CASE UNCHANGED vars
  BY <1>9 DEF vars, engineVars, stopVars, Supervised, Wanted, IsRunning
<1> QED
  BY <1>1, <1>2, <1>3, <1>4, <1>5, <1>6, <1>7, <1>8, <1>9
  DEF Next, RequestStep, LockFails, SaveFails, PhpDies, StopRead, StopStep, StopTerm, StopAwait,
      StopUnlink, Disturb, Supervised

(* Until a request dies, or goes on although it could not lock or write   *)
(* the pid file, or the plugin is deactivated, an engine that nobody has  *)
(* told to stop is in the pid file or about to be written there, and it   *)
(* is the only one (ensure_started, start).                               *)
THEOREM EnginesAreManaged == Spec => []EngineIsManaged
<1>1. Init => ManagedInv
  BY SupervisedInit DEF ManagedInv
<1>2. LockedTypes /\ ManagedInv /\ [Next]_vars => ManagedInv'
  <2> SUFFICES ASSUME LockedTypes, ManagedInv, [Next]_vars, ~disturbed'
               PROVE  Supervised'
    BY DEF ManagedInv
  <2>1. ~disturbed
    BY DisturbedStays DEF LockedTypes
  <2> QED
    BY <2>1, SupervisedStep DEF ManagedInv
<1>3. LockedTypes /\ ManagedInv => EngineIsManaged
  <2> SUFFICES ASSUME ~disturbed, LockedTypes, Supervised,
                      NEW p \in Wanted
               PROVE  /\ \/ pidfile = p
                         \/ \E r \in Requests : pc[r] = "save" /\ pid[r] = p
                      /\ \A q \in Wanted : q = p
    BY DEF ManagedInv, EngineIsManaged
  <2>1. CASE \E r \in Requests : pc[r] = "save"
    BY <2>1 DEF Supervised
  <2>2. CASE \A r \in Requests : pc[r] # "save"
    BY <2>2 DEF Supervised
  <2> QED
    BY <2>1, <2>2
<1> QED
  BY <1>1, <1>2, <1>3, LockedHolds, PTL DEF Spec

=============================================================================
