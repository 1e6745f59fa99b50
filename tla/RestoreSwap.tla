----------------------------- MODULE RestoreSwap -----------------------------
(***************************************************************************)
(* A database restore replaces the live SQLite file by an uploaded         *)
(* candidate under a durable marker file, and startup recovery finishes or *)
(* undoes a swap that a crash interrupted.                                 *)
(*                                                                         *)
(*   database/restorestate/state.go      the marker and the file moves     *)
(*   database/backup/restore.go          the restore procedure             *)
(*   database/backup/restore_actions.go  what runs on the candidate        *)
(*   service/datalifecycle/restore.go    the operation row of a restore    *)
(*   service/datalifecycle/reconcile.go  rows found at startup             *)
(*   service/datalifecycle/retention.go  rows that are dropped             *)
(*   database/backup/export.go           rows a backup carries             *)
(*   app/app.go                          Init: recover, open, reconcile    *)
(*                                                                         *)
(* Every rename, removal and marker write is a step of its own: a crash    *)
(* can come between any two, and any of them can fail.  A file is the      *)
(* identity of the database stored in it; sidecar files (-wal, -shm) move  *)
(* with it.  A database holds one operation row per restore request (its   *)
(* operation id and idempotency key); rows that came with a backup are     *)
(* marked untrusted.                                                       *)
(***************************************************************************)
EXTENDS Naturals

CONSTANTS
  Restores,    (* restore requests: their idempotency keys                *)
  Databases,   (* contents a database file can have                       *)
  Genesis,     (* the database the panel starts with                      *)
  CarriedStates, (* states of the operation rows an uploaded backup holds *)
  None,        (* no file, no request, no open database                   *)
  Partial,     (* a staging file whose copy has not finished              *)
  MaxFaults    (* crashes and I/O failures of one behaviour, at most      *)

RowStates ==
  {"none", "ADMITTED", "RESTORING", "APPLIED", "FAILED", "ROLLED_BACK",
   "RECOVERY_REQUIRED"}

ASSUME ConstantsDistinct ==
  /\ Genesis \in Databases
  /\ None \notin Databases \union Restores
  /\ Partial \notin Databases \union {None}

ASSUME CarriedStatesAreStates == CarriedStates \subseteq RowStates

ASSUME MaxFaultsIsNat == MaxFaults \in Nat

VARIABLES
  live, staging, fallback,  (* sui.db, sui.db.temp, sui.db.backup         *)
  marker,      (* sui.db.restore-state.json: its state and digest         *)
  pc,          (* the next step of the process                            *)
  task,        (* the caller of a shared file procedure                   *)
  request,     (* the restore being executed                              *)
  opened,      (* the database the process has connections to             *)
  gate,        (* "held" while a maintenance owner shuts others out       *)
  rows,        (* rows[d][r]: state of operation r as stored in d         *)
  untrusted,   (* untrusted[d]: operations of d that came with a backup   *)
  accepted,    (* history: the database that must survive                 *)
  source,      (* history: the restore that made it, until its row is     *)
               (* dropped by retention                                    *)
  faults       (* crashes and failures so far                             *)

files == << live, staging, fallback, marker >>
records == << rows, untrusted, source >>
vars == << live, staging, fallback, marker, pc, task, request, opened,
           gate, rows, untrusted, accepted, source, faults >>

MarkerStates ==
  {"STAGED", "LIVE_MOVE_PENDING", "CANDIDATE_INSTALL_PENDING", "COMMITTED"}

NoMarker == [state |-> "NONE", digest |-> None]

(* The digest pins the candidate the marker was written for. *)
Markers == [state : MarkerStates, digest : Databases] \union {NoMarker}

(* terminalDataLifecycleState; operations in other states block new ones. *)
Terminal == {"APPLIED", "FAILED", "ROLLED_BACK"}

(* States in which a row may name a pre-restore backup. *)
Referencing == {"APPLIED", "ROLLED_BACK", "RECOVERY_REQUIRED"}

NoRows == [q \in Restores |-> "none"]

(* "cancelOpen", "cancelClosed": CancelStaged after a failed close, the    *)
(* database still open or not; "recover": Recover called by the restore;   *)
(* "reject", "abort": rollbackImportedDB and AbortPendingRestore;          *)
(* "complete": CompletePendingRestore; "boot": app.Init.                   *)
Tasks == {"none", "boot", "cancelOpen", "cancelClosed", "recover",
          "reject", "abort", "complete"}

Steps ==
  {"down", "recover", "refused", "opening", "reconcile", "serving",
   "admitted", "restoring", "maintenance", "copying", "staged",
   "journaled", "closed", "moveLive", "liveMoved", "install", "installed",
   "verified", "authorized", "committed", "finalizeFallback",
   "finalizeStaging", "finalizeMarker", "restartApp", "reject", "rollback",
   "rollbackRemove", "rollbackRename", "cancelStaging", "cancelMarker",
   "release", "reopen", "recordFailure", "wedged", "abandoned"}

(***************************************************************************)
(* Where a shared file procedure returns to.                               *)
(***************************************************************************)
AfterSuccess(t) ==
  CASE t = "boot"       -> "opening"
    [] t = "complete"   -> "restartApp"
    [] t = "cancelOpen" -> "release"
    [] OTHER            -> "reopen"

(* Init gives up; a failed rollback leaves the process without a database; *)
(* the other callers only report the error and carry on.                   *)
AfterError(t) ==
  CASE t = "boot"              -> "down"
    [] t \in {"reject", "abort"} -> "wedged"
    [] OTHER                   -> AfterSuccess(t)

AfterRefusal(t) == IF t = "boot" THEN "refused" ELSE AfterError(t)

Fault == faults < MaxFaults /\ faults' = faults + 1

NoFault == UNCHANGED faults

(* A file operation or a database call fails and has no effect. *)
FailTo(step) ==
  /\ Fault
  /\ pc' = step
  /\ UNCHANGED << files, task, request, opened, gate, records, accepted >>

Init ==
  /\ live = Genesis /\ staging = None /\ fallback = None
  /\ marker = NoMarker
  /\ pc = "down" /\ task = "none" /\ request = None
  /\ opened = None /\ gate = "open"
  /\ rows = [d \in Databases |-> NoRows]
  /\ untrusted = [d \in Databases |-> {}]
  /\ accepted = Genesis /\ source = None
  /\ faults = 0
-----------------------------------------------------------------------------
(***************************************************************************)
(* The restore request.                                                    *)
(***************************************************************************)

(* pruneLocked: the trusted terminal rows in drop fall to a limit on       *)
(* count, age or size.  Untrusted rows are never dropped.                  *)
Prune(f, u, drop) ==
  [q \in Restores |->
     IF q \in drop /\ f[q] \in Terminal /\ q \notin u THEN "none" ELSE f[q]]

(* reconcileRecoveryReferencesLocked: the backups named by the rows in     *)
(* lost cannot be verified, or are not on this host.                       *)
Degrade(f, lost) ==
  [q \in Restores |->
     IF q \in lost /\ f[q] \in Referencing THEN "RECOVERY_REQUIRED"
                                           ELSE f[q]]

(* maintainLocked; a failure on the way leaves the effect of smaller sets. *)
Maintained(f, u, drop, lost) == Degrade(Prune(f, u, drop), lost)

(* The source of the open database, unless its row is missing from f. *)
SourceIn(f) == IF source # None /\ f[source] = "none" THEN None ELSE source

StoreRows(d, f) ==
  /\ rows' = [rows EXCEPT ![d] = f]
  /\ source' = SourceIn(f)
  /\ UNCHANGED untrusted

(* No durable operation is still running; untrusted rows count as well. *)
Unblocked(f) == \A q \in Restores : f[q] \in Terminal \union {"none"}

(* ExecuteRestore up to the admission of its row, maintenance included. *)
AdmitRestore(r) ==
  /\ pc = "serving" /\ gate = "open"
  /\ \E drop, lost \in SUBSET Restores :
       LET f == Maintained(rows[opened], untrusted[opened], drop, lost) IN
         /\ f[r] = "none"
         /\ Unblocked(f)
         /\ rows' = [rows EXCEPT ![opened] = [f EXCEPT ![r] = "ADMITTED"]]
         /\ source' = SourceIn(f)
  /\ request' = r
  /\ pc' = "admitted"
  /\ NoFault
  /\ UNCHANGED << files, task, opened, gate, untrusted, accepted >>

(* Prune, or a request that ends after the maintenance: it failed, the     *)
(* idempotency key already has a row, or another operation blocks it.      *)
Maintain ==
  /\ pc = "serving" /\ gate = "open"
  /\ \E drop, lost \in SUBSET Restores :
       StoreRows(opened, Maintained(rows[opened], untrusted[opened], drop,
                                    lost))
  /\ NoFault
  /\ UNCHANGED << files, pc, task, request, opened, gate, accepted >>

(* A failed transition returns to the caller; the row stays ADMITTED. *)
StartRestoring ==
  /\ pc = "admitted"
  /\ UNCHANGED << files, task, opened, gate, untrusted, accepted, source >>
  /\ \/ /\ rows' = [rows EXCEPT ![opened][request] = "RESTORING"]
        /\ pc' = "restoring"
        /\ NoFault
        /\ UNCHANGED request
     \/ /\ Fault
        /\ pc' = "serving" /\ request' = None
        /\ UNCHANGED rows

(* ensureNoAuthority *)
Idle == marker = NoMarker /\ fallback = None

(* Fault variant of EnterMaintenance: ordinary operations stay admitted. *)
EnterMaintenanceOpenly ==
  /\ pc = "restoring"
  /\ Idle
  /\ staging' = None
  /\ pc' = "maintenance"
  /\ NoFault
  /\ UNCHANGED << live, fallback, marker, task, request, opened, gate, records,
                  accepted >>

(* EnsureIdle, BeginMaintenance, EnsureIdle again. *)
EnterMaintenance ==
  /\ pc = "restoring"
  /\ UNCHANGED << live, fallback, marker, task, request, opened, records,
                  accepted >>
  /\ \/ /\ Idle
        /\ staging' = None
        /\ gate' = "held"
        /\ pc' = "maintenance"
        /\ NoFault
     \/ /\ \/ ~Idle /\ NoFault
           \/ Fault
        /\ pc' = "recordFailure"
        /\ UNCHANGED << staging, gate >>

(* preservePreRestoreBackupAt, then the staging file is created. *)
StageCandidate ==
  /\ pc = "maintenance"
  /\ UNCHANGED << live, fallback, marker, task, request, opened, records,
                  accepted >>
  /\ \/ /\ staging' = Partial
        /\ pc' = "copying"
        /\ NoFault
        /\ UNCHANGED gate
     \/ /\ Fault
        /\ gate' = "open"
        /\ pc' = "recordFailure"
        /\ UNCHANGED staging

(* An upload is an export: it may carry the operation rows of the database *)
(* it was taken from, states kept and all marked untrusted, even the row   *)
(* of this very request.                                                   *)
CarriedRows == [Restores -> CarriedStates \union {"none"}]

(* The upload is copied and validated. *)
FinishStaging ==
  /\ pc = "copying"
  /\ UNCHANGED << live, fallback, marker, task, request, opened, accepted,
                  source >>
  /\ \/ /\ staging' \in Databases \ {live}
        /\ \E carried \in CarriedRows :
             /\ rows' = [rows EXCEPT ![staging'] = carried]
             /\ untrusted' = [untrusted EXCEPT ![staging'] =
                                {q \in Restores : carried[q] # "none"}]
        /\ pc' = "staged"
        /\ NoFault
        /\ UNCHANGED gate
     \/ /\ Fault
        /\ staging' = None
        /\ gate' = "open"
        /\ pc' = "recordFailure"
        /\ UNCHANGED << rows, untrusted >>

(* restorestate.Begin *)
BeginJournal ==
  /\ pc = "staged"
  /\ UNCHANGED << live, fallback, task, request, opened, records, accepted >>
  /\ \/ /\ Idle /\ live # None /\ staging # None
        /\ marker' = [state |-> "STAGED", digest |-> staging]
        /\ pc' = "journaled"
        /\ NoFault
        /\ UNCHANGED << staging, gate >>
     \/ /\ Fault
        /\ staging' = None
        /\ gate' = "open"
        /\ pc' = "recordFailure"
        /\ UNCHANGED marker

(* A drain or checkpoint failure resumes the open database; an error from  *)
(* closing the retired pool does not.                                      *)
CloseForFileSwap ==
  /\ pc = "journaled"
  /\ UNCHANGED << files, request, gate, records, accepted >>
  /\ \/ /\ opened' = None
        /\ pc' = "closed"
        /\ NoFault
        /\ UNCHANGED task
     \/ /\ Fault
        /\ pc' = "cancelStaging"
        /\ \/ task' = "cancelOpen" /\ UNCHANGED opened
           \/ task' = "cancelClosed" /\ opened' = None

(* Transition: the marker moves on only from the expected state. *)
Transition(expected, next) ==
  /\ marker.state = expected
  /\ marker' = [marker EXCEPT !.state = next]

JournalLiveMove ==
  /\ pc = "closed"
  /\ \/ /\ Transition("STAGED", "LIVE_MOVE_PENDING")
        /\ pc' = "moveLive"
        /\ NoFault
        /\ UNCHANGED << live, staging, fallback, task, request, opened,
                        gate, records, accepted >>
     \/ FailTo("reopen")

(* os.Rename(dbPath, fallbackPath); on an error Recover undoes the marker. *)
MoveLive ==
  /\ pc = "moveLive"
  /\ UNCHANGED << staging, marker, request, opened, gate, records, accepted >>
  /\ \/ /\ fallback' = live
        /\ live' = None
        /\ pc' = "liveMoved"
        /\ NoFault
        /\ UNCHANGED task
     \/ /\ Fault
        /\ pc' = "recover" /\ task' = "recover"
        /\ UNCHANGED << live, fallback >>

(* rollbackImportedDB and AbortPendingRestore both start by closing. *)
RejectAs(t) ==
  /\ Fault
  /\ pc' = "reject" /\ task' = t

JournalInstall ==
  /\ pc = "liveMoved"
  /\ UNCHANGED << live, staging, fallback, request, opened, gate, records,
                  accepted >>
  /\ \/ /\ Transition("LIVE_MOVE_PENDING", "CANDIDATE_INSTALL_PENDING")
        /\ pc' = "install"
        /\ NoFault
        /\ UNCHANGED task
     \/ RejectAs("reject") /\ UNCHANGED marker

(* os.Rename(tempPath, dbPath) *)
InstallCandidate ==
  /\ pc = "install"
  /\ UNCHANGED << fallback, marker, request, opened, gate, records, accepted >>
  /\ \/ /\ live' = staging
        /\ staging' = None
        /\ pc' = "installed"
        /\ NoFault
        /\ UNCHANGED task
     \/ RejectAs("reject") /\ UNCHANGED << live, staging >>

(* Fault variant of RunPostActions: the candidate is published on open. *)
RunPostActionsPublished ==
  /\ pc = "installed"
  /\ opened' = live
  /\ gate' = "open"
  /\ pc' = "verified"
  /\ NoFault
  /\ UNCHANGED << files, task, request, records, accepted >>

(* The protected actions migrate, open, normalise and rebind the           *)
(* candidate.  An action that fails, before or after the open, is rolled   *)
(* back; a request cancelled after the last one is reported as an error    *)
(* that nothing rolls back.                                                *)
RunPostActions ==
  /\ pc = "installed"
  /\ UNCHANGED << files, request, gate, records, accepted >>
  /\ \/ /\ opened' = live
        /\ pc' = "verified"
        /\ NoFault
        /\ UNCHANGED task
     \/ /\ RejectAs("reject")
        /\ opened' \in {None, live}
     \/ /\ Fault
        /\ opened' = live
        /\ pc' = "abandoned"
        /\ UNCHANGED task

(* Fault variant of WriteRestoredOperation: a row the backup carried for   *)
(* the request is left as it is.                                           *)
WriteRestoredOperationUnlessCarried ==
  /\ pc = "verified"
  /\ pc' = "authorized"
  /\ IF rows[opened][request] = "none"
     THEN rows' = [rows EXCEPT ![opened][request] = "APPLIED"]
     ELSE UNCHANGED rows
  /\ NoFault
  /\ UNCHANGED << files, task, request, opened, gate, untrusted, accepted,
                  source >>

(* writeRestoredOperation: the candidate carries the row of its restore,   *)
(* in place of one the backup brought along.                               *)
WriteRestoredOperation ==
  /\ pc = "verified"
  /\ UNCHANGED << files, request, opened, gate, accepted, source >>
  /\ \/ /\ rows' = [rows EXCEPT ![opened][request] = "APPLIED"]
        /\ untrusted' = [untrusted EXCEPT ![opened] = @ \ {request}]
        /\ pc' = "authorized"
        /\ NoFault
        /\ UNCHANGED task
     \/ RejectAs("abort") /\ UNCHANGED << rows, untrusted >>

(* MarkCommitted: from here on the candidate is the database to keep. *)
MarkCommitted ==
  /\ pc = "authorized"
  /\ UNCHANGED << live, staging, fallback, request, opened, gate, rows,
                  untrusted >>
  /\ \/ /\ Transition("CANDIDATE_INSTALL_PENDING", "COMMITTED")
        /\ accepted' = opened /\ source' = request
        /\ pc' = "committed"
        /\ NoFault
        /\ UNCHANGED task
     \/ RejectAs("abort") /\ UNCHANGED << marker, accepted, source >>

(* finishMaintenance publishes the candidate before the cleanup. *)
PublishCandidate ==
  /\ pc = "committed"
  /\ gate' = "open"
  /\ pc' = "finalizeFallback" /\ task' = "complete"
  /\ NoFault
  /\ UNCHANGED << files, request, opened, records, accepted >>

(* SendSighup: the panel restarts in process on the open database; then    *)
(* ExecuteRestore prunes.                                                  *)
RestartApp ==
  /\ pc = "restartApp"
  /\ pc' = "serving" /\ task' = "none" /\ request' = None
  /\ \E drop \in SUBSET Restores :
       StoreRows(opened, Prune(rows[opened], untrusted[opened], drop))
  /\ NoFault
  /\ UNCHANGED << files, opened, gate, accepted >>
-----------------------------------------------------------------------------
(***************************************************************************)
(* File procedures shared by the restore and by startup.                   *)
(***************************************************************************)

(* Fault variant of FinalizeFallback: the fallback is forgotten. *)
FinalizeFallbackForgotten ==
  /\ pc = "finalizeFallback"
  /\ pc' = "finalizeStaging"
  /\ NoFault
  /\ UNCHANGED << files, task, request, opened, gate, records, accepted >>

(* FinalizeCommitted: fallback, staging and marker go, in this order. *)
FinalizeFallback ==
  /\ pc = "finalizeFallback"
  /\ \/ /\ fallback' = None
        /\ pc' = "finalizeStaging"
        /\ NoFault
        /\ UNCHANGED << live, staging, marker, task, request, opened, gate,
                        records, accepted >>
     \/ FailTo(AfterError(task))

FinalizeStaging ==
  /\ pc = "finalizeStaging"
  /\ \/ /\ staging' = None
        /\ pc' = "finalizeMarker"
        /\ NoFault
        /\ UNCHANGED << live, fallback, marker, task, request, opened, gate,
                        records, accepted >>
     \/ FailTo(AfterError(task))

FinalizeMarker ==
  /\ pc = "finalizeMarker"
  /\ \/ /\ marker' = NoMarker
        /\ pc' = AfterSuccess(task)
        /\ NoFault
        /\ UNCHANGED << live, staging, fallback, task, request, opened,
                        gate, records, accepted >>
     \/ FailTo(AfterError(task))

(* CloseContext of the rejected candidate. *)
CloseRejected ==
  /\ pc = "reject"
  /\ \/ /\ opened' = None
        /\ pc' = "rollback"
        /\ NoFault
        /\ UNCHANGED << files, task, request, gate, records, accepted >>
     \/ FailTo("wedged")

(* The checks rollbackToFallback makes before it touches a file: the       *)
(* fallback exists, and a live file that appeared while the live database  *)
(* was being moved is the candidate of this marker.                        *)
RollbackPermitted ==
  /\ fallback # None
  /\ marker.state = "LIVE_MOVE_PENDING" => live \in {None, marker.digest}

Rollback ==
  /\ pc = "rollback"
  /\ pc' = IF RollbackPermitted THEN "rollbackRemove" ELSE AfterRefusal(task)
  /\ NoFault
  /\ UNCHANGED << files, task, request, opened, gate, records, accepted >>

RollbackRemove ==
  /\ pc = "rollbackRemove"
  /\ \/ /\ live' = None
        /\ pc' = "rollbackRename"
        /\ NoFault
        /\ UNCHANGED << staging, fallback, marker, task, request, opened,
                        gate, records, accepted >>
     \/ FailTo(AfterError(task))

RollbackRename ==
  /\ pc = "rollbackRename"
  /\ \/ /\ live' = fallback
        /\ fallback' = None
        /\ pc' = "cancelStaging"
        /\ NoFault
        /\ UNCHANGED << staging, marker, task, request, opened, gate, records,
                        accepted >>
     \/ FailTo(AfterError(task))

(* CancelStaged, cancelIntent and the end of rollbackToFallback. *)
CancelStaging ==
  /\ pc = "cancelStaging"
  /\ \/ /\ staging' = None
        /\ pc' = "cancelMarker"
        /\ NoFault
        /\ UNCHANGED << live, fallback, marker, task, request, opened, gate,
                        records, accepted >>
     \/ FailTo(AfterError(task))

CancelMarker ==
  /\ pc = "cancelMarker"
  /\ \/ /\ marker' = NoMarker
        /\ pc' = AfterSuccess(task)
        /\ NoFault
        /\ UNCHANGED << live, staging, fallback, task, request, opened,
                        gate, records, accepted >>
     \/ FailTo(AfterError(task))

(* finishMaintenance after a failed close that left the database open. *)
ReleaseMaintenance ==
  /\ pc = "release"
  /\ gate' = "open"
  /\ pc' = "recordFailure"
  /\ NoFault
  /\ UNCHANGED << files, task, request, opened, records, accepted >>

(* reopenLiveDBAfterImportError: open, rebind the owners, end maintenance. *)
(* When the rebinding fails the maintenance stays; Manager.fail then runs  *)
(* under it and may still record the failure in the reopened database.     *)
ReopenLive ==
  /\ pc = "reopen"
  /\ UNCHANGED << files, task, request, accepted >>
  /\ \/ /\ opened' = live
        /\ gate' = "open"
        /\ pc' = "recordFailure"
        /\ NoFault
        /\ UNCHANGED records
     \/ /\ Fault
        /\ pc' = "wedged"
        /\ \/ opened' \in {None, live} /\ UNCHANGED records
           \/ /\ task # "abort"
              /\ opened' = live
              /\ \E drop \in SUBSET Restores :
                   StoreRows(live,
                     Prune([rows[live] EXCEPT ![request] = "FAILED"],
                           untrusted[live], drop))
        /\ UNCHANGED gate

(* Manager.fail, or the ROLLED_BACK transition after an abort: both are    *)
(* fenced on the RESTORING row of the database that is open again, and     *)
(* both prune.                                                             *)
RecordFailure ==
  /\ pc = "recordFailure"
  /\ pc' = "serving" /\ task' = "none" /\ request' = None
  /\ UNCHANGED << files, opened, gate, accepted >>
  /\ \/ /\ rows[opened][request] = "RESTORING"
        /\ \E drop \in SUBSET Restores :
             StoreRows(opened,
               Prune([rows[opened] EXCEPT ![request] =
                        IF task = "abort" THEN "ROLLED_BACK" ELSE "FAILED"],
                     untrusted[opened], drop))
        /\ NoFault
     \/ Fault /\ UNCHANGED records
-----------------------------------------------------------------------------
(***************************************************************************)
(* Startup, shutdown and crashes.                                          *)
(***************************************************************************)
Boot ==
  /\ pc = "down"
  /\ pc' = "recover" /\ task' = "boot"
  /\ NoFault
  /\ UNCHANGED << files, request, opened, gate, records, accepted >>

(* Fault variants of RecoverStep: an installed candidate is taken for an   *)
(* accepted one; an interrupted live move that never happened is not       *)
(* cancelled.                                                              *)
RecoverStepAccepts ==
  IF marker.state \in {"CANDIDATE_INSTALL_PENDING", "COMMITTED"}
  THEN "finalizeFallback" ELSE AfterSuccess(task)

RecoverStepNoCancel ==
  CASE marker.state = "NONE" -> AfterSuccess(task)
    [] marker.state = "STAGED" -> "cancelStaging"
    [] marker.state = "COMMITTED" -> "finalizeFallback"
    [] OTHER -> IF fallback # None THEN "rollback" ELSE AfterError(task)

(* Where Recover goes for the marker it finds. *)
RecoverStep ==
  CASE marker.state = "NONE" ->
         IF fallback = None THEN AfterSuccess(task) ELSE AfterRefusal(task)
    [] marker.state = "STAGED" ->
         IF live # None /\ fallback = None
         THEN "cancelStaging" ELSE AfterRefusal(task)
    [] marker.state = "LIVE_MOVE_PENDING" ->
         IF fallback # None THEN "rollback"
         ELSE IF live # None THEN "cancelStaging" ELSE AfterRefusal(task)
    [] marker.state = "CANDIDATE_INSTALL_PENDING" -> "rollback"
    [] marker.state = "COMMITTED" ->
         IF live # None THEN "finalizeFallback" ELSE AfterRefusal(task)

Recover ==
  /\ pc = "recover"
  /\ \/ /\ pc' = RecoverStep
        /\ staging' = IF Idle THEN None ELSE staging
        /\ NoFault
        /\ UNCHANGED << live, fallback, marker, task, request, opened, gate,
                        records, accepted >>
     \/ FailTo(AfterError(task))

(* dbsqlite.Init creates the file when it is absent. *)
OpenAtBoot ==
  /\ pc = "opening"
  /\ \/ /\ opened' = live
        /\ pc' = "reconcile"
        /\ NoFault
        /\ UNCHANGED << files, task, request, gate, records, accepted >>
     \/ FailTo("down")

(* startupDisposition, applied to the rows in handled.  An untrusted row   *)
(* stays untrusted.                                                        *)
Dispose(f, u, handled) ==
  [q \in Restores |->
     IF q \notin handled \/ f[q] = "none" THEN f[q]
     ELSE IF q \in u THEN "RECOVERY_REQUIRED"
     ELSE IF f[q] \in {"ADMITTED", "RESTORING"} THEN "ROLLED_BACK"
     ELSE f[q]]

(* ReconcileStartup closes rows one by one, and then maintains them.  At   *)
(* an error or at the 33rd open row it stops where it is; app.Init only    *)
(* logs that.                                                              *)
ReconcileStartup ==
  /\ pc = "reconcile"
  /\ pc' = "serving" /\ task' = "none"
  /\ LET f == rows[opened]
         u == untrusted[opened] IN
       \/ \E handled \in SUBSET Restores :
            StoreRows(opened, Dispose(f, u, handled))
       \/ \E drop, lost \in SUBSET Restores :
            StoreRows(opened,
              Maintained(Dispose(f, u, Restores), u, drop, lost))
  /\ NoFault
  /\ UNCHANGED << files, request, opened, gate, accepted >>

(* The process ends: its memory, connections and maintenance go with it. *)
EndProcess ==
  /\ pc' = "down" /\ task' = "none" /\ request' = None
  /\ opened' = None /\ gate' = "open"
  /\ UNCHANGED << files, records, accepted >>

(* The operator stops a panel, or the supervisor restarts one whose Init   *)
(* refused to start.                                                       *)
StopProcess ==
  /\ pc \in {"serving", "wedged", "abandoned", "refused"}
  /\ EndProcess
  /\ NoFault

Crash ==
  /\ pc # "down"
  /\ EndProcess
  /\ Fault

RestoreStep ==
  \/ StartRestoring \/ EnterMaintenance \/ StageCandidate \/ FinishStaging
  \/ BeginJournal \/ CloseForFileSwap \/ JournalLiveMove \/ MoveLive
  \/ JournalInstall \/ InstallCandidate \/ RunPostActions
  \/ WriteRestoredOperation \/ MarkCommitted \/ PublishCandidate
  \/ RestartApp \/ CloseRejected \/ ReleaseMaintenance \/ ReopenLive
  \/ RecordFailure

FileStep ==
  \/ FinalizeFallback \/ FinalizeStaging \/ FinalizeMarker
  \/ Rollback \/ RollbackRemove \/ RollbackRename
  \/ CancelStaging \/ CancelMarker

StartupStep == Boot \/ Recover \/ OpenAtBoot \/ ReconcileStartup

Next ==
  \/ \E r \in Restores : AdmitRestore(r)
  \/ Maintain
  \/ RestoreStep
  \/ FileStep
  \/ StartupStep
  \/ StopProcess
  \/ Crash

Spec == Init /\ [][Next]_vars

(* A step the process has begun is taken: the code between two steps is    *)
(* straight-line.  The supervisor restarts a process that ended (Boot).    *)
(* Nobody promises requests, an operator, or that faults happen.           *)
FairSpec == Spec /\ WF_vars(RestoreStep \/ FileStep \/ StartupStep)
-----------------------------------------------------------------------------
TypeOK ==
  /\ live \in Databases \union {None}
  /\ staging \in Databases \union {None, Partial}
  /\ fallback \in Databases \union {None}
  /\ marker \in Markers
  /\ pc \in Steps
  /\ task \in Tasks
  /\ request \in Restores \union {None}
  /\ opened \in Databases \union {None}
  /\ gate \in {"open", "held"}
  /\ rows \in [Databases -> [Restores -> RowStates]]
  /\ untrusted \in [Databases -> SUBSET Restores]
  /\ accepted \in Databases
  /\ source \in Restores \union {None}
  /\ faults \in 0..MaxFaults

(* Startup refuses to run only in the state a rollback leaves when it was  *)
(* cut off after the fallback went back to the live path and before the    *)
(* marker was removed; the data is then intact.                            *)
RefusesOnlyHalfRollback ==
  pc = "refused" =>
    /\ live = accepted /\ fallback = None
    /\ marker.state = "CANDIDATE_INSTALL_PENDING"

(* MarkCommitted's contract: every authority that must survive with the    *)
(* candidate is in it before the candidate is accepted.  Whatever rows its *)
(* backup carried, the accepted database claims with a trusted APPLIED row *)
(* no restore but the one that made it; and of that one it never says that *)
(* it failed, was rolled back or is still running, nor takes it for a row  *)
(* of the backup, until retention drops the row.                           *)
AppliedRowIsTruthful ==
  /\ \A r \in Restores :
       rows[accepted][r] = "APPLIED" /\ r \notin untrusted[accepted] =>
         r = source
  /\ source # None =>
       /\ source \notin untrusted[accepted]
       /\ rows[accepted][source] \in {"APPLIED", "RECOVERY_REQUIRED"}

(***************************************************************************)
(* The inductive invariant: what the files hold for each marker, and what  *)
(* the process has established before each of its steps.                   *)
(***************************************************************************)

(* Whoever runs, the files alone tell recovery what to do. *)
DiskInv ==
  /\ marker.state \in {"NONE", "STAGED"} => live = accepted /\ fallback = None
  /\ marker.state = "LIVE_MOVE_PENDING" =>
       \/ live = accepted /\ fallback = None
       \/ live = None /\ fallback = accepted
  /\ marker.state = "CANDIDATE_INSTALL_PENDING" =>
       \/ live = accepted /\ fallback = None
       \/ live \in {None, marker.digest} /\ fallback = accepted
  /\ marker.state = "COMMITTED" => live = accepted

ServingSteps ==
  {"reconcile", "serving", "admitted", "restoring", "restartApp",
   "recordFailure"}

SwapSteps ==
  {"closed", "moveLive", "liveMoved", "install", "installed", "verified",
   "authorized", "reject", "reopen"}

StagedSteps ==
  {"maintenance", "copying", "staged", "journaled"}

(* Connections and maintenance at each step. *)
AccessInv ==
  /\ pc \in ServingSteps => opened = live /\ live = accepted /\ gate = "open"
  /\ pc \in {"down", "refused", "opening"} => opened = None /\ gate = "open"
  /\ pc \in StagedSteps => opened = live /\ live = accepted /\ gate = "held"
  /\ pc \in {"closed", "moveLive", "liveMoved", "install", "installed",
             "reopen"} => opened = None /\ gate = "held"
  /\ pc \in {"verified", "authorized", "committed"} =>
       opened = live /\ gate = "held"
  /\ pc \in {"wedged", "abandoned"} => gate = "held"
  /\ pc = "reject" => gate = "held" /\ task \in {"reject", "abort"}
  /\ pc = "release" => opened = live /\ live = accepted /\ gate = "held"
  /\ pc \in {"recover", "rollback", "rollbackRemove", "rollbackRename",
             "cancelStaging", "cancelMarker"} =>
       \/ task = "boot" /\ opened = None /\ gate = "open"
       \/ task \in {"cancelClosed", "recover", "reject", "abort"}
          /\ opened = None /\ gate = "held"
       \/ task = "cancelOpen" /\ opened = live /\ live = accepted
          /\ gate = "held" /\ pc \in {"cancelStaging", "cancelMarker"}
  /\ pc \in {"finalizeFallback", "finalizeStaging", "finalizeMarker"} =>
       \/ task = "boot" /\ opened = None /\ gate = "open"
       \/ task = "complete" /\ opened = live /\ gate = "open"

(* The restore in flight, and the row that will tell its outcome. *)
RequestInv ==
  /\ \/ pc \in SwapSteps \union StagedSteps
     \/ pc \in {"restoring", "recordFailure", "release"}
     \/ /\ pc \in {"recover", "rollback", "rollbackRemove",
                    "rollbackRename", "cancelStaging", "cancelMarker"}
        /\ task # "boot"
     => /\ request \in Restores /\ request # source
        /\ rows[accepted][request] = "RESTORING"
  /\ pc = "admitted" => request \in Restores /\ request # source
  /\ pc \in {"staged", "journaled", "closed", "moveLive", "liveMoved",
             "install"} =>
       /\ staging \in Databases /\ staging # accepted
       /\ \A q \in Restores :
            rows[staging][q] = "none" \/ q \in untrusted[staging]
  /\ pc \in {"installed", "verified", "authorized"} =>
       /\ live # accepted
       /\ \A q \in Restores :
            \/ q = request /\ pc = "authorized"
            \/ rows[live][q] = "none" \/ q \in untrusted[live]
  /\ pc = "authorized" =>
       rows[live][request] = "APPLIED" /\ request \notin untrusted[live]

(* The marker and the files the process knows of at each step. *)
ProgressInv ==
  /\ pc \in {"maintenance", "copying", "staged"} => marker = NoMarker
  /\ pc \in {"journaled", "closed", "moveLive", "liveMoved", "install"} =>
       marker.digest = staging
  /\ pc \in {"journaled", "closed"} => marker.state = "STAGED"
  /\ pc \in {"moveLive", "liveMoved"} => marker.state = "LIVE_MOVE_PENDING"
  /\ pc = "moveLive" => live = accepted /\ fallback = None
  /\ pc \in {"liveMoved", "install"} => live = None /\ fallback = accepted
  /\ pc \in {"install", "installed", "verified", "authorized"} =>
       marker.state = "CANDIDATE_INSTALL_PENDING"
  /\ pc \in {"installed", "verified", "authorized"} =>
       live = marker.digest /\ fallback = accepted
  /\ pc \in {"committed", "finalizeFallback", "finalizeStaging",
             "finalizeMarker"} => marker.state = "COMMITTED"
  /\ pc \in {"finalizeStaging", "finalizeMarker"} => fallback = None
  /\ pc = "recover" /\ task # "boot" =>
       /\ task = "recover" /\ marker.state = "LIVE_MOVE_PENDING"
       /\ live = accepted /\ fallback = None
  /\ pc = "rollback" =>
       /\ marker.state \in {"LIVE_MOVE_PENDING", "CANDIDATE_INSTALL_PENDING"}
       /\ task \in {"boot", "reject", "abort"}
  /\ \/ pc = "reject"
     \/ pc = "rollback" /\ task # "boot"
     \/ pc = "rollback" /\ marker.state = "LIVE_MOVE_PENDING"
     \/ pc \in {"rollbackRemove", "rollbackRename"}
     => /\ fallback = accepted
        /\ marker.state \in {"LIVE_MOVE_PENDING",
                             "CANDIDATE_INSTALL_PENDING"}
  /\ pc \in {"rollbackRemove", "rollbackRename"} =>
       task \in {"boot", "reject", "abort"}
  /\ pc = "rollbackRename" => live = None
  /\ pc \in {"cancelStaging", "cancelMarker"} =>
       /\ live = accepted /\ fallback = None
       /\ marker.state # "COMMITTED"
  /\ pc \in {"opening", "reopen"} => live = accepted

IInv ==
  /\ TypeOK
  /\ DiskInv
  /\ AppliedRowIsTruthful
  /\ AccessInv
  /\ RequestInv
  /\ ProgressInv
  /\ RefusesOnlyHalfRollback

(* Whatever crashes and failures did, the database that must survive is    *)
(* on disk, at the place where startup recovery will look for it: the      *)
(* live path, or the fallback path under a marker that orders a rollback.  *)
AcceptedSurvives ==
  \/ live = accepted
  \/ /\ fallback = accepted
     /\ marker.state \in {"LIVE_MOVE_PENDING", "CANDIDATE_INSTALL_PENDING"}

(* Ordinary operations never reach a candidate that was not accepted, nor  *)
(* the old database after the candidate was (dbsqlite.Maintenance.End      *)
(* publishes only after acceptance or exact recovery).                     *)
ServedIsAccepted ==
  opened # None /\ gate = "open" => opened = accepted /\ live = accepted

(* Neither startup nor a failed restore ever opens an absent database      *)
(* file, which SQLite would answer with a fresh, empty database.           *)
NeverOpensEmpty == pc \in {"opening", "reopen", "installed"} => live # None

(* Database files are moved or removed only while no connection to the     *)
(* live file exists, and a committed candidate is never moved away.        *)
FilesMoveWhileClosed ==
  [][live' # live =>
       /\ opened = None
       /\ marker.state \in {"LIVE_MOVE_PENDING",
                            "CANDIDATE_INSTALL_PENDING"}]_vars

(* Every startup reaches a serving panel or the refusal above, however     *)
(* many crashes interrupt the recovery, once the faults stop.              *)
StartupCompletes == pc = "down" ~> pc \in {"serving", "refused"}

(* Recover's comment: any non-committed swap is rolled back; a committed   *)
(* swap keeps the candidate.  So recovery never refuses to start.          *)
RecoverAlwaysReconciles == pc # "refused"

(* A restore that ended without a failed recovery step has the accepted    *)
(* database in place: a rejected request is rolled back even when it was   *)
(* cancelled.                                                              *)
RejectedIsRolledBack == pc \in {"serving", "abandoned"} => live = accepted

(* The restore procedure as an atomic replacement. *)
View == IF opened # None /\ gate = "open" THEN opened ELSE None

Atomic == INSTANCE AtomicRestore
            WITH First <- Genesis, Hidden <- None,
                 authority <- accepted, view <- View

AtomicSpec == Atomic!Spec
=============================================================================
