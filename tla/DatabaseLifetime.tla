--------------------------- MODULE DatabaseLifetime ---------------------------
(***************************************************************************)
(* Who may use the SQLite database while a restore replaces its file       *)
(* (database/sqlite: operation_lifetime.go, connection.go, connector.go).  *)
(*                                                                         *)
(* Every opened pool is a generation.  An operation (a request, a job)     *)
(* holds a lease of one generation for its whole duration, SQL without a   *)
(* lease only a connection.  A restore takes the maintenance capability,   *)
(* waits for the leases, closes the pool once its connections are closed,  *)
(* moves files (RestoreSwap), opens a private generation and publishes it. *)
(* The shutdown of the panel closes the database whatever the restore is   *)
(* doing.  What happens under one hold of dbMu is one step.  The check of  *)
(* every single statement (permitted) changes nothing and is left out.     *)
(***************************************************************************)
EXTENDS Integers, FiniteSets

CONSTANTS
  Workers,      (* goroutines that use the database                        *)
  Restorers,    (* those of them that serve restore requests               *)
  App,          (* the goroutine of APP.Stop                               *)
  Nobody,
  MaxGen,       (* bound: generations opened                               *)
  MaxLeaks      (* bound: driver connections whose Close fails             *)

ASSUME LifetimeAssumption ==
  /\ IsFiniteSet(Workers) /\ Restorers \subseteq Workers
  /\ App \notin Workers /\ Nobody \notin Workers \union {App}
  /\ MaxGen \in Nat \ {0} /\ MaxLeaks \in Nat

Actors == Workers \union {App}
Gens == 1 .. MaxGen
None == 0       (* the nil generation *)

VARIABLES
  phase,        (* phase of each generation, "unused" before it is opened  *)
  active,       (* activeGeneration                                        *)
  db,           (* the generation of the public handle                     *)
  operations,   (* leases counted per generation                           *)
  connections,  (* driver connections counted per generation               *)
  idle,         (* how many of them are idle in the pool                   *)
  leaked,       (* how many of them failed to close (closeErr)             *)
  opening,      (* the generation being initialized, under initMu          *)
  maintenance,  (* whose maintenance capability is in force                *)
  lease,        (* the lease in the context of each worker                 *)
  conn,         (* the generation a worker holds a connection of           *)
  pc,           (* what each actor is doing                                *)
  goal,         (* why a restore opens or closes a database                *)
  target,       (* the generation a waiting actor captured                 *)
  asleep        (* actors blocked on the captured lifetimeChanged          *)

vars == << phase, active, db, operations, connections, idle, leaked, opening,
           maintenance, lease, conn, pc, goal, target, asleep >>

pools == << connections, idle, leaked, conn >>
leases == << operations, lease >>
handles == << active, db, opening >>
scripts == << goal, target >>

Phases == {"unused", "active", "draining", "private", "retired"}
LeaseStates == {"none", "live", "suspended", "released"}
NoLease == [state |-> "none", gen |-> None]

(* The steps of a restore once it has the maintenance. *)
OwnerSteps ==
  {"owned", "conns", "checkpoint", "retire", "resumed", "finish", "swap",
   "init", "prepare", "opening", "opened", "candidate", "close", "closing",
   "closeWait", "stuck"}

(* Install the candidate; go back to the fallback; stop trying.  The last  *)
(* two with the capability in the context, or without it because it had    *)
(* expired when the context was made.                                      *)
Goals == {"install", "recover", "giveup", "recoverBare", "giveupBare"}

Steps == {"idle", "working", "drain", "closed", "unclosed"} \union OwnerSteps

Init ==
  /\ phase = [g \in Gens |-> IF g = 1 THEN "active" ELSE "unused"]
  /\ active = 1 /\ db = 1 /\ opening = None
  /\ operations = [g \in Gens |-> 0]
  /\ connections = [g \in Gens |-> 0]
  /\ idle = [g \in Gens |-> 0]
  /\ leaked = [g \in Gens |-> 0]
  /\ maintenance = Nobody
  /\ lease = [w \in Workers |-> NoLease]
  /\ conn = [w \in Workers |-> None]
  /\ pc = [p \in Actors |-> "idle"]
  /\ goal = [p \in Actors |-> "install"]
  /\ target = [p \in Actors |-> None]
  /\ asleep = {}

(* changedLocked: the channel every waiter captured is closed. *)
Changed == asleep' = {}

(* p stops waiting: its deadline has passed. *)
Wake(p) == asleep' = asleep \ {p}

Goto(p, step) == pc' = [pc EXCEPT ![p] = step]

(* The context p uses in a step of a restore carries its capability. *)
Carries(p) == p \in Workers /\ goal[p] \in {"install", "recover", "giveup"}

(* restoreRecoveryContext: the capability, if it is still in force. *)
RecoveryGoal(w) == IF maintenance = w THEN "recover" ELSE "recoverBare"
-----------------------------------------------------------------------------
(***************************************************************************)
(* Operations and connections.                                             *)
(***************************************************************************)

(* A goroutine starts work that uses SQL without a lease. *)
StartBare(w) ==
  /\ pc[w] = "idle"
  /\ Goto(w, "working")
  /\ UNCHANGED << phase, handles, pools, leases, maintenance, scripts,
                  asleep >>

(* AcquireOperation with a fresh context.  Without a generation the        *)
(* operation goes on with no lease; otherwise it is admitted or refused.   *)
AcquireOperation(w) ==
  /\ pc[w] = "idle"
  /\ maintenance = Nobody
  /\ active # None => phase[active] = "active"
  /\ \/ /\ active = None
        /\ UNCHANGED << leases, asleep >>
     \/ /\ active # None
        /\ lease' = [lease EXCEPT ![w] = [state |-> "live", gen |-> active]]
        /\ operations' = [operations EXCEPT ![active] = @ + 1]
        /\ Changed
  /\ Goto(w, "working")
  /\ UNCHANGED << phase, handles, pools, maintenance, scripts >>

(* Fault variant of ReleaseOperation: no waiter is told. *)
ReleaseOperationQuietly(w) ==
  /\ lease[w].state = "live"
  /\ lease' = [lease EXCEPT ![w].state = "released"]
  /\ operations' = [operations EXCEPT ![lease[w].gen] = @ - 1]
  /\ UNCHANGED asleep

(* releaseOperation, which is idempotent. *)
ReleaseOperation(w) ==
  /\ lease[w].state \in {"live", "suspended"}
  /\ lease' = [lease EXCEPT ![w].state = "released"]
  /\ operations' = IF lease[w].state = "suspended" THEN operations
                   ELSE [operations EXCEPT ![lease[w].gen] = @ - 1]
  /\ Changed

(* A stream gives up its lease after the handshake, and the handler of a   *)
(* restore that had to keep the maintenance returns.                       *)
ReleaseEarly(w) ==
  /\ pc[w] \in {"working", "stuck"}
  /\ ReleaseOperation(w)
  /\ UNCHANGED << phase, handles, pools, maintenance, pc, scripts >>

(* The operation is over and so is its context. *)
EndOperation(w) ==
  /\ pc[w] = "working"
  /\ conn[w] = None
  /\ lease[w].state # "live"
  /\ lease' = [lease EXCEPT ![w] = NoLease]
  /\ Goto(w, "idle")
  /\ UNCHANGED << phase, handles, pools, operations, maintenance, scripts,
                  asleep >>

(* permittedLocked: what the context of w allows on generation g. *)
Permitted(w, g) ==
  /\ phase[g] # "retired"
  /\ IF pc[w] \in OwnerSteps
     THEN IF Carries(w) THEN maintenance = w ELSE phase[g] = "active"
     ELSE /\ lease[w] \in {NoLease, [state |-> "live", gen |-> g]}
          /\ phase[g] = "active"

(* A worker uses a handle it may have kept from an earlier generation: the *)
(* pool gives it an idle connection or opens one.                          *)
Connect(w, g) ==
  /\ pc[w] \in {"working", "owned", "checkpoint", "opened", "candidate"}
  /\ conn[w] = None
  /\ phase[g] # "unused" /\ g # opening
  /\ Permitted(w, g)
  /\ conn' = [conn EXCEPT ![w] = g]
  /\ \/ /\ idle[g] > 0
        /\ idle' = [idle EXCEPT ![g] = @ - 1]
        /\ UNCHANGED << connections, asleep >>
     \/ /\ idle[g] = 0
        /\ connections' = [connections EXCEPT ![g] = @ + 1]
        /\ Changed
        /\ UNCHANGED idle
  /\ UNCHANGED << phase, handles, leaked, leases, maintenance, pc, scripts >>

(* The rows, transaction or connection is released: the pool keeps it, or  *)
(* closes it, which may fail.                                              *)
Disconnect(w) ==
  LET g == conn[w] IN
  /\ g # None
  /\ conn' = [conn EXCEPT ![w] = None]
  /\ \/ /\ phase[g] = "active" /\ idle[g] = 0
        /\ idle' = [idle EXCEPT ![g] = 1]
        /\ UNCHANGED << connections, leaked, asleep >>
     \/ /\ connections' = [connections EXCEPT ![g] = @ - 1]
        /\ Changed
        /\ UNCHANGED << idle, leaked >>
     \/ /\ \A h \in Gens : leaked[h] < MaxLeaks
        /\ leaked' = [leaked EXCEPT ![g] = @ + 1]
        /\ Changed
        /\ UNCHANGED << connections, idle >>
  /\ UNCHANGED << phase, handles, leases, maintenance, pc, scripts >>

(* database/sql closes the idle connections of g. *)
CloseIdle(g) ==
  IF g = None THEN UNCHANGED << connections, idle >>
  ELSE /\ connections' = [connections EXCEPT ![g] = @ - idle[g]]
       /\ idle' = [idle EXCEPT ![g] = 0]
-----------------------------------------------------------------------------
(***************************************************************************)
(* Waiting.                                                                *)
(***************************************************************************)

(* waitGeneration for the leases, for the connections, and both in turn    *)
(* (finishRetiredGeneration).                                              *)
OperationsEnded(g) == operations[g] = 0

(* Fault variant of ConnectionsEnded: a failed close counts as one. *)
ConnectionsGivenUp(g) == connections[g] = leaked[g]

ConnectionsEnded(g) == connections[g] = 0 /\ leaked[g] = 0

Ended(g) == g # None => ConnectionsEnded(g) /\ OperationsEnded(g)

Pending(p) ==
  \/ pc[p] = "drain" /\ ~OperationsEnded(target[p])
  \/ pc[p] \in {"conns", "retire"} /\ ~ConnectionsEnded(target[p])
  \/ pc[p] \in {"finish", "prepare", "closeWait"} /\ ~Ended(target[p])

(* The count is not zero: block on the channel captured with it. *)
Sleep(p) ==
  /\ p \notin asleep
  /\ Pending(p)
  /\ asleep' = asleep \union {p}
  /\ UNCHANGED << phase, handles, pools, leases, maintenance, pc, scripts >>

Awake(p, step) == pc[p] = step /\ p \notin asleep
-----------------------------------------------------------------------------
(***************************************************************************)
(* Maintenance.                                                            *)
(***************************************************************************)

(* BeginMaintenance: the lease of the request is suspended, so that it is  *)
(* not waited for.                                                         *)
BeginMaintenance(w) ==
  /\ w \in Restorers
  /\ pc[w] = "working" /\ conn[w] = None
  /\ maintenance = Nobody
  /\ db # None /\ active # None /\ phase[active] = "active"
  /\ lease[w] \in {NoLease, [state |-> "live", gen |-> active]}
  /\ maintenance' = w
  /\ \/ lease[w] = NoLease /\ UNCHANGED leases
     \/ /\ lease[w] # NoLease
        /\ lease' = [lease EXCEPT ![w].state = "suspended"]
        /\ operations' = [operations EXCEPT ![active] = @ - 1]
  /\ target' = [target EXCEPT ![w] = active]
  /\ Changed
  /\ Goto(w, "drain")
  /\ UNCHANGED << phase, handles, pools, goal >>

(* Fault variant of FinishDrain: the leases are not waited for. *)
FinishDrainAtOnce(w) ==
  /\ Awake(w, "drain")
  /\ goal' = [goal EXCEPT ![w] = "install"]
  /\ Goto(w, "owned")
  /\ UNCHANGED << phase, handles, pools, leases, maintenance, target,
                  asleep >>

FinishDrain(w) ==
  /\ Awake(w, "drain")
  /\ OperationsEnded(target[w])
  /\ goal' = [goal EXCEPT ![w] = "install"]
  /\ Goto(w, "owned")
  /\ UNCHANGED << phase, handles, pools, leases, maintenance, target,
                  asleep >>

(* Fault variant of End: the lease given back is not counted. *)
EndUncounted(w) ==
  /\ maintenance' = Nobody
  /\ phase' = [g \in Gens |-> IF g = active /\ phase[g] = "private"
                              THEN "active" ELSE phase[g]]
  /\ lease' = IF lease[w].state # "suspended" THEN lease
              ELSE [lease EXCEPT ![w] = [state |-> "live", gen |-> active]]
  /\ Changed
  /\ UNCHANGED operations

(* Maintenance.End of w: a private generation becomes public, and the      *)
(* request gets its lease back on it, or loses it.                         *)
End(w) ==
  /\ maintenance' = Nobody
  /\ phase' = [g \in Gens |-> IF g = active /\ phase[g] = "private"
                              THEN "active" ELSE phase[g]]
  /\ \/ /\ lease[w].state # "suspended"
        /\ UNCHANGED leases
     \/ /\ lease[w].state = "suspended"
        /\ active # None /\ phase'[active] = "active"
        /\ lease' = [lease EXCEPT ![w] = [state |-> "live", gen |-> active]]
        /\ operations' = [operations EXCEPT ![active] = @ + 1]
     \/ /\ lease[w].state = "suspended"
        /\ active # None => phase'[active] # "active"
        /\ lease' = [lease EXCEPT ![w].state = "released"]
        /\ UNCHANGED operations
  /\ Changed

(* The restore gives its maintenance back, unless a shutdown ended it. *)
Resign(w) ==
  /\ \/ maintenance = w /\ End(w)
     \/ maintenance # w /\ Wake(w) /\ UNCHANGED << maintenance, phase, leases >>
  /\ Goto(w, "working")
  /\ UNCHANGED << handles, pools, scripts >>

(* The drain takes 30 seconds, or the request is cancelled. *)
FailDrain(w) == pc[w] = "drain" /\ Resign(w)

(* The restore fails before it closes the database (staging, journal). *)
FailStaging(w) == pc[w] = "owned" /\ conn[w] = None /\ Resign(w)
-----------------------------------------------------------------------------
(***************************************************************************)
(* CloseForFileSwap.                                                       *)
(***************************************************************************)

(* The database went away: the restore opens the live file again. *)
Reopen(w) ==
  /\ goal' = [goal EXCEPT ![w] = RecoveryGoal(w)]
  /\ Goto(w, "init")

(* restorestate.EnsureIdle: no other restore has its journal open. *)
Idle(w) ==
  \A q \in Restorers \ {w} : pc[q] \notin OwnerSteps \ {"owned"}

(* Admissions and new connections are frozen, idle ones closed; or the     *)
(* shutdown closed the database first.                                     *)
CloseForFileSwap(w) ==
  /\ pc[w] = "owned" /\ conn[w] = None
  /\ Idle(w)
  /\ \/ /\ maintenance = w /\ db # None
        /\ phase' = [phase EXCEPT ![active] = "draining"]
        /\ target' = [target EXCEPT ![w] = active]
        /\ CloseIdle(active)
        /\ Changed
        /\ Goto(w, "conns")
        /\ UNCHANGED << handles, leaked, conn, leases, maintenance, goal >>
     \/ /\ db = None
        /\ Reopen(w)
        /\ UNCHANGED << phase, handles, pools, leases, maintenance, target,
                        asleep >>
     \/ /\ maintenance # w /\ db # None
        /\ Resign(w)

(* The connections are closed; the checkpoint uses one of its own. *)
StartCheckpoint(w) ==
  /\ Awake(w, "conns")
  /\ ConnectionsEnded(target[w])
  /\ Goto(w, "checkpoint")
  /\ UNCHANGED << phase, handles, pools, leases, maintenance, scripts,
                  asleep >>

FinishCheckpoint(w) ==
  /\ pc[w] = "checkpoint" /\ conn[w] = None
  /\ Permitted(w, target[w])
  /\ Goto(w, "retire")
  /\ UNCHANGED << phase, handles, pools, leases, maintenance, scripts,
                  asleep >>

(* The last look at the connections and the retirement are one step. *)
Retire(w) ==
  /\ Awake(w, "retire")
  /\ ConnectionsEnded(target[w])
  /\ phase' = [phase EXCEPT ![target[w]] = "retired"]
  /\ db' = None
  /\ Changed
  /\ Goto(w, "finish")
  /\ UNCHANGED << active, opening, pools, leases, maintenance, scripts >>

(* resumeGeneration: a drain or the checkpoint failed and the generation   *)
(* is the live one again, unless the shutdown retired it.                  *)
ResumeGeneration(w) ==
  /\ pc[w] \in {"conns", "checkpoint", "retire"} /\ conn[w] = None
  /\ \/ /\ active = target[w] /\ phase[active] # "retired"
        /\ phase' = [phase EXCEPT ![active] = "active"]
        /\ Changed
     \/ /\ active # target[w] \/ phase[target[w]] = "retired"
        /\ Wake(w)
        /\ UNCHANGED phase
  /\ Goto(w, "resumed")
  /\ UNCHANGED << handles, pools, leases, maintenance, scripts >>

(* CloseForFileSwap returned an error: the request fails, or the live file *)
(* has to be opened again.                                                 *)
FailSwapClose(w) ==
  \/ /\ pc[w] = "resumed" /\ db # None
     /\ Resign(w)
  \/ /\ pc[w] = "finish" \/ (pc[w] = "resumed" /\ db = None)
     /\ Reopen(w)
     /\ Wake(w)
     /\ UNCHANGED << phase, handles, pools, leases, maintenance, target >>

(* finishRetiredGeneration forgets a retired generation that has ended. *)
Forget(g) == active' = IF active = g THEN None ELSE active

FinishSwapClose(w) ==
  /\ Awake(w, "finish")
  /\ Ended(target[w])
  /\ Forget(target[w])
  /\ Changed
  /\ Goto(w, "swap")
  /\ UNCHANGED << phase, db, opening, pools, leases, maintenance, scripts >>

(* The files are moved; RestoreSwap has the steps. *)
SwapFiles(w) ==
  /\ pc[w] = "swap"
  /\ \/ Goto(w, "init") /\ UNCHANGED goal
     \/ Reopen(w)
  /\ UNCHANGED << phase, handles, pools, leases, maintenance, target,
                  asleep >>
-----------------------------------------------------------------------------
(***************************************************************************)
(* InitContext, under initMu.                                              *)
(***************************************************************************)
InitSteps == {"prepare", "opening", "opened"}

(* InitContext fails: an install is rolled back, which closes what is open *)
(* with a context of its own; a reopened fallback is closed with the       *)
(* context at hand, if that is still worth something.                      *)
FailInit(w) ==
  /\ pc[w] \in InitSteps \union {"init"} /\ conn[w] = None
  /\ \/ /\ goal[w] = "install"
        /\ goal' = [goal EXCEPT ![w] = RecoveryGoal(w)]
        /\ Goto(w, "close")
     \/ /\ pc[w] = "opened" /\ goal[w] # "install"
        /\ goal' = [goal EXCEPT ![w] = IF goal[w] = "recover" THEN "giveup"
                                       ELSE "giveupBare"]
        /\ Goto(w, "close")
     \/ /\ pc[w] # "opened" /\ goal[w] # "install"
        /\ Goto(w, "stuck")
        /\ UNCHANGED goal
  /\ \/ /\ pc[w] # "opening"
        /\ Wake(w)
        /\ UNCHANGED << connections, opening, phase >>
     \/ /\ pc[w] = "opening"
        /\ connections' = [connections EXCEPT ![opening] = @ - 1]
        /\ phase' = [phase EXCEPT ![opening] = "retired"]
        /\ opening' = None
        /\ Changed
  /\ UNCHANGED << active, db, idle, leaked, conn, leases, maintenance,
                  target >>

(* Fault variant of PrepareForInit: a retired generation is forgotten. *)
PrepareForInitHastily(w) ==
  /\ pc[w] = "init"
  /\ \A q \in Workers : pc[q] \notin InitSteps
  /\ Carries(w) => maintenance = w
  /\ maintenance \in {w, Nobody}
  /\ db = None
  /\ target' = [target EXCEPT ![w] = None]
  /\ Goto(w, "prepare")
  /\ UNCHANGED << phase, handles, pools, leases, maintenance, goal, asleep >>

(* prepareForInit: no expired capability, nobody else's maintenance, no    *)
(* database open; what is left of the last one has to end first.           *)
PrepareForInit(w) ==
  /\ pc[w] = "init"
  /\ \A q \in Workers : pc[q] \notin InitSteps
  /\ Carries(w) => maintenance = w
  /\ maintenance \in {w, Nobody}
  /\ db = None
  /\ target' = [target EXCEPT ![w] = active]
  /\ Goto(w, "prepare")
  /\ UNCHANGED << phase, handles, pools, leases, maintenance, goal, asleep >>

(* Fault variant of OpenContext: the candidate is public at once. *)
OpenContextPublicly(w) ==
  /\ Awake(w, "prepare")
  /\ Ended(target[w])
  /\ \E g \in Gens :
       /\ \A h \in Gens : phase[h] = "unused" <=> h >= g
       /\ opening' = g
       /\ phase' = [phase EXCEPT ![g] = "active"]
       /\ connections' = [connections EXCEPT ![g] = 1]
  /\ Forget(target[w])
  /\ Changed
  /\ Goto(w, "opening")
  /\ UNCHANGED << db, idle, leaked, conn, leases, maintenance, scripts >>

(* openContext: the next generation, private under a maintenance; its      *)
(* constructor queries use a connection before anybody can see the pool.   *)
OpenContext(w) ==
  /\ Awake(w, "prepare")
  /\ Ended(target[w])
  /\ maintenance = Nobody \/ (maintenance = w /\ Carries(w))
  /\ \E g \in Gens :
       /\ \A h \in Gens : phase[h] = "unused" <=> h >= g
       /\ opening' = g
       /\ phase' = [phase EXCEPT ![g] = IF maintenance = Nobody
                                        THEN "active" ELSE "private"]
       /\ connections' = [connections EXCEPT ![g] = 1]
  /\ Forget(target[w])
  /\ Changed
  /\ Goto(w, "opening")
  /\ UNCHANGED << db, idle, leaked, conn, leases, maintenance, scripts >>

(* The end of openContext: the handle is replaced.  Schema migrations use  *)
(* it next, with the caller's context.                                     *)
PublishHandle(w) ==
  /\ pc[w] = "opening"
  /\ db' = opening /\ active' = opening
  /\ opening' = None
  /\ connections' = [connections EXCEPT ![opening] = @ - 1]
  /\ Changed
  /\ Goto(w, "opened")
  /\ UNCHANGED << phase, idle, leaked, conn, leases, maintenance, scripts >>

(* InitContext succeeded: a candidate awaits acceptance, a reopened        *)
(* fallback is published once the caches are rebound.                      *)
FinishInit(w) ==
  /\ pc[w] = "opened" /\ conn[w] = None
  /\ db # None /\ Permitted(w, db)
  /\ \/ /\ goal[w] = "install"
        /\ Goto(w, "candidate")
        /\ UNCHANGED << phase, handles, pools, leases, maintenance, scripts,
                        asleep >>
     \/ /\ goal[w] # "install"
        /\ Resign(w)

(* CompletePendingRestore publishes the accepted candidate. *)
Accept(w) == pc[w] = "candidate" /\ conn[w] = None /\ Resign(w)

(* AbortPendingRestore or rollbackImportedDB closes it. *)
Reject(w) ==
  /\ pc[w] = "candidate" /\ conn[w] = None
  /\ goal' = [goal EXCEPT ![w] = RecoveryGoal(w)]
  /\ Goto(w, "close")
  /\ UNCHANGED << phase, handles, pools, leases, maintenance, target,
                  asleep >>

(* The request of an unaccepted candidate was cancelled, or the caches of  *)
(* the reopened fallback cannot be rebound: the maintenance is kept.       *)
KeepPrivate(w) ==
  /\ \/ pc[w] = "candidate"
     \/ pc[w] = "opened" /\ goal[w] # "install"
  /\ conn[w] = None
  /\ Goto(w, "stuck")
  /\ UNCHANGED << phase, handles, pools, leases, maintenance, scripts,
                  asleep >>
-----------------------------------------------------------------------------
(***************************************************************************)
(* CloseContext, for a rejected candidate and for the shutdown.            *)
(***************************************************************************)
Shutdown ==
  /\ pc[App] = "idle"
  /\ Goto(App, "close")
  /\ UNCHANGED << phase, handles, pools, leases, maintenance, scripts,
                  asleep >>

(* The handle is taken away and the generation retired. *)
CloseContext(p) ==
  /\ pc[p] = "close"
  /\ \/ /\ Carries(p) /\ maintenance # p
        /\ Goto(p, "stuck")
        /\ UNCHANGED << phase, db, target, asleep >>
     \/ /\ Carries(p) => maintenance = p
        /\ db' = None
        /\ target' = [target EXCEPT ![p] = active]
        /\ phase' = [g \in Gens |-> IF g = active THEN "retired"
                                    ELSE phase[g]]
        /\ Changed
        /\ Goto(p, "closing")
  /\ UNCHANGED << active, opening, pools, leases, maintenance, goal >>

(* The pool is closed, and the maintenance of anybody else ends. *)
ClosePool(p) ==
  /\ pc[p] = "closing"
  /\ CloseIdle(target[p])
  /\ \/ /\ maintenance # Nobody
        /\ ~(Carries(p) /\ maintenance = p)
        /\ End(maintenance)
     \/ /\ maintenance = Nobody \/ (Carries(p) /\ maintenance = p)
        /\ Changed
        /\ UNCHANGED << phase, leases, maintenance >>
  /\ Goto(p, "closeWait")
  /\ UNCHANGED << handles, leaked, conn, scripts >>

AfterClose(p) ==
  IF p = App THEN "closed"
  ELSE IF goal[p] \in {"recover", "recoverBare"} THEN "init" ELSE "stuck"

FinishClose(p) ==
  /\ Awake(p, "closeWait")
  /\ Ended(target[p])
  /\ Forget(target[p])
  /\ Changed
  /\ Goto(p, AfterClose(p))
  /\ UNCHANGED << phase, db, opening, pools, leases, maintenance, scripts >>

(* What is in use does not end in time, or could not be closed. *)
FailClose(p) ==
  /\ pc[p] = "closeWait"
  /\ ~Ended(target[p])
  /\ Goto(p, IF p = App THEN "unclosed" ELSE "stuck")
  /\ Wake(p)
  /\ UNCHANGED << phase, handles, pools, leases, maintenance, scripts >>
-----------------------------------------------------------------------------
OperationStep(w) ==
  \/ StartBare(w)
  \/ AcquireOperation(w)
  \/ ReleaseEarly(w)
  \/ EndOperation(w)
  \/ \E g \in Gens : Connect(w, g)
  \/ Disconnect(w)

SwapStep(w) ==
  \/ BeginMaintenance(w)
  \/ FinishDrain(w)
  \/ FailDrain(w)
  \/ FailStaging(w)
  \/ CloseForFileSwap(w)
  \/ StartCheckpoint(w)
  \/ FinishCheckpoint(w)
  \/ Retire(w)
  \/ ResumeGeneration(w)
  \/ FailSwapClose(w)
  \/ FinishSwapClose(w)
  \/ SwapFiles(w)

InitStep(w) ==
  \/ FailInit(w)
  \/ PrepareForInit(w)
  \/ OpenContext(w)
  \/ PublishHandle(w)
  \/ FinishInit(w)
  \/ Accept(w)
  \/ Reject(w)
  \/ KeepPrivate(w)

CloseStep(p) ==
  \/ CloseContext(p)
  \/ ClosePool(p)
  \/ FinishClose(p)
  \/ FailClose(p)

Next ==
  \/ \E w \in Workers : OperationStep(w) \/ SwapStep(w) \/ InitStep(w)
  \/ \E p \in Actors : CloseStep(p) \/ Sleep(p)
  \/ Shutdown

Spec == Init /\ [][Next]_vars

(***************************************************************************)
(* Fairness: operations are finite and close what they opened, a restore   *)
(* goes on, and one that waits for the operations looks again when it is   *)
(* woken; its deadline does not have to pass.                              *)
(***************************************************************************)
Fairness ==
  \A w \in Workers :
    /\ WF_vars(Disconnect(w))
    /\ WF_vars(ReleaseEarly(w))
    /\ WF_vars(FinishDrain(w))
    /\ WF_vars(pc[w] \in OwnerSteps
               /\ (SwapStep(w) \/ InitStep(w) \/ CloseStep(w)))

FairSpec == Spec /\ Fairness
-----------------------------------------------------------------------------
(***************************************************************************)
(* Properties.                                                             *)
(***************************************************************************)
TypeOK ==
  /\ phase \in [Gens -> Phases]
  /\ {active, db, opening} \subseteq Gens \union {None}
  /\ {operations, connections, idle, leaked} \subseteq [Gens -> Nat]
  /\ maintenance \in Workers \union {Nobody}
  /\ lease \in [Workers -> [state : LeaseStates, gen : Gens \union {None}]]
  /\ conn \in [Workers -> Gens \union {None}]
  /\ pc \in [Actors -> Steps]
  /\ goal \in [Actors -> Goals]
  /\ target \in [Actors -> Gens \union {None}]
  /\ asleep \subseteq Actors

(* The counters the drains rely on are exact, through suspension, rebinding *)
(* to another generation, early release and connections that fail to close. *)
CountsAreExact ==
  \A g \in Gens :
    /\ operations[g] = Cardinality({w \in Workers :
                          lease[w] = [state |-> "live", gen |-> g]})
    /\ connections[g] = Cardinality({w \in Workers : conn[w] = g})
                        + idle[g] + leaked[g] + (IF opening = g THEN 1 ELSE 0)

(* While a restore moves the database files no driver connection is open,  *)
(* whatever the shutdown of the panel does in the meantime.                *)
SwapIsAlone ==
  (\E r \in Restorers : pc[r] = "swap") =>
    opening = None /\ \A g \in Gens : connections[g] = 0

(* There are never connections of two generations at once: a database that *)
(* did not close in time is still in the way of the next one.              *)
OneDatabase ==
  \A g, h \in Gens : connections[g] > 0 /\ connections[h] > 0 => g = h

(* The database does not change under an admitted operation: its lease is  *)
(* one of the active generation, and of a live one until a shutdown.       *)
OperationKeepsItsDatabase ==
  \A w \in Workers : lease[w].state = "live" =>
    /\ lease[w].gen = active
    /\ phase[active] = "active" \/ pc[App] # "idle"

(* Nobody but the restore uses a candidate that has not been accepted.     *)
CandidateIsPrivate ==
  \A r \in Restorers :
    maintenance = r /\ pc[r] \in {"opening", "opened", "candidate"} =>
      \A w \in Workers \ {r} : conn[w] = None /\ lease[w].state # "live"

(* A restore that waits for the admitted operations gets the database as   *)
(* soon as they have ended: no wake-up is lost, and no new ones are        *)
(* admitted, unless the shutdown takes the maintenance away from it.       *)
DrainCompletes ==
  \A r \in Restorers :
    pc[r] = "drain" ~> pc[r] # "drain" \/ pc[App] # "idle"
=============================================================================
