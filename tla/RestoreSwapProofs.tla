-------------------------- MODULE RestoreSwapProofs --------------------------
(***************************************************************************)
(* The database swap is correct for any set of restore requests and any    *)
(* number of crashes and failures.  IInv of RestoreSwap is inductive:      *)
(* DiskInv says what the files hold for each marker, whoever runs; the     *)
(* other conjuncts say what the process has established before each step.  *)
(* The safety properties, the action property and the refinement of        *)
(* AtomicRestore follow from it.                                           *)
(***************************************************************************)
EXTENDS RestoreSwap, TLAPS

USE ConstantsDistinct, CarriedStatesAreStates, MaxFaultsIsNat

USE DEF Markers, MarkerStates, NoMarker, RowStates, NoRows, Tasks, Steps,
        ServingSteps, SwapSteps, StagedSteps, Fault, NoFault, files, records

(* g is what maintenance and reconciliation may make of the rows f of a    *)
(* database whose rows in u are untrusted: nothing becomes APPLIED, and a  *)
(* trusted APPLIED row stays, needs recovery or is dropped.                *)
Settles(g, f, u) ==
  /\ g \in [Restores -> RowStates]
  /\ \A q \in Restores :
       /\ g[q] = "APPLIED" => f[q] = "APPLIED"
       /\ f[q] \in {"APPLIED", "RECOVERY_REQUIRED"} /\ q \notin u =>
            g[q] \in {"APPLIED", "RECOVERY_REQUIRED", "none"}

LEMMA SettlesTwice ==
  ASSUME NEW f, NEW g, NEW h, NEW u, Settles(g, f, u), Settles(h, g, u),
         \A q \in Restores : g[q] = "none" => h[q] = "none"
  PROVE  Settles(h, f, u)
BY DEF Settles

(* pruneLocked *)
LEMMA PruneSettles ==
  ASSUME NEW f \in [Restores -> RowStates], NEW u, NEW drop
  PROVE  Settles(Prune(f, u, drop), f, u)
BY DEF Prune, Settles, Terminal

(* reconcileRecoveryReferencesLocked *)
LEMMA DegradeSettles ==
  ASSUME NEW f \in [Restores -> RowStates], NEW u, NEW lost
  PROVE  /\ Settles(Degrade(f, lost), f, u)
         /\ \A q \in Restores : f[q] = "none" => Degrade(f, lost)[q] = "none"
BY DEF Degrade, Settles, Referencing

(* maintainLocked *)
LEMMA MaintainedSettles ==
  ASSUME NEW f \in [Restores -> RowStates], NEW u, NEW drop, NEW lost
  PROVE  Settles(Maintained(f, u, drop, lost), f, u)
<1> DEFINE g == Prune(f, u, drop)
<1>1. Settles(g, f, u)
  BY PruneSettles
<1>2. g \in [Restores -> RowStates]
  BY <1>1 DEF Settles
<1> HIDE DEF g
<1>3. /\ Settles(Degrade(g, lost), g, u)
      /\ \A q \in Restores : g[q] = "none" => Degrade(g, lost)[q] = "none"
  BY <1>2, DegradeSettles
<1>4. Settles(Degrade(g, lost), f, u)
  BY <1>1, <1>3, SettlesTwice
<1>5. QED
  BY <1>4 DEF Maintained, g

(* startupDisposition *)
LEMMA DisposeSettles ==
  ASSUME NEW f \in [Restores -> RowStates], NEW u, NEW handled
  PROVE  Settles(Dispose(f, u, handled), f, u)
BY DEF Dispose, Settles

LEMMA DisposedMaintainedSettles ==
  ASSUME NEW f \in [Restores -> RowStates], NEW u, NEW drop, NEW lost
  PROVE  Settles(Maintained(Dispose(f, u, Restores), u, drop, lost), f, u)
<1> DEFINE g == Dispose(f, u, Restores)
           h == Maintained(g, u, drop, lost)
<1>1. Settles(g, f, u)
  BY DisposeSettles
<1>2. g \in [Restores -> RowStates]
  BY <1>1 DEF Settles
<1>3. \A q \in Restores : g[q] = "none" => h[q] = "none"
  BY DEF Maintained, Degrade, Prune, Referencing
<1> HIDE DEF g
<1>4. Settles(h, g, u)
  BY <1>2, MaintainedSettles
<1> HIDE DEF h
<1>5. Settles(h, f, u)
  BY <1>1, <1>3, <1>4, SettlesTwice
<1>6. QED
  BY <1>5 DEF g, h

(* Storing such rows in the accepted database keeps what it says true. *)
LEMMA StoreKeeps ==
  ASSUME TypeOK, AppliedRowIsTruthful, NEW g, NEW d, d = accepted,
         accepted' = accepted, Settles(g, rows[accepted], untrusted[accepted]),
         StoreRows(d, g)
  PROVE  /\ rows' \in [Databases -> [Restores -> RowStates]]
         /\ untrusted' = untrusted
         /\ source' \in Restores \union {None}
         /\ rows'[accepted] = g
         /\ AppliedRowIsTruthful'
<1> USE DEF Settles, StoreRows, SourceIn, TypeOK
<1>1. rows' \in [Databases -> [Restores -> RowStates]] /\ rows'[accepted] = g
  OBVIOUS
<1>2. untrusted' = untrusted /\ source' \in Restores \union {None}
  OBVIOUS
<1>3. AppliedRowIsTruthful'
  BY <1>1, <1>2 DEF AppliedRowIsTruthful
<1>4. QED
  BY <1>1, <1>2, <1>3

(* Manager.fail and the rejection after an abort close a RESTORING row, and *)
(* prune.                                                                  *)
LEMMA ClosedSettles ==
  ASSUME NEW f \in [Restores -> RowStates], NEW u, NEW drop,
         NEW r \in Restores, f[r] = "RESTORING",
         NEW end \in {"FAILED", "ROLLED_BACK"}
  PROVE  Settles(Prune([f EXCEPT ![r] = end], u, drop), f, u)
<1> DEFINE g == [f EXCEPT ![r] = end]
           h == Prune(g, u, drop)
<1>1. g \in [Restores -> RowStates] /\ Settles(g, f, u)
  BY DEF Settles
<1>2. \A q \in Restores : g[q] = "none" => h[q] = "none"
  BY DEF Prune, Terminal
<1> HIDE DEF g
<1>3. Settles(h, g, u)
  BY <1>1, PruneSettles
<1> HIDE DEF h
<1>4. Settles(h, f, u)
  BY <1>1, <1>2, <1>3, SettlesTwice
<1>5. QED
  BY <1>4 DEF g, h

(* The panel starts with its database live, no marker and nothing open. *)
LEMMA InitEstablishes == Init => IInv
BY DEF Init, IInv, TypeOK, DiskInv, AppliedRowIsTruthful, AccessInv, RequestInv,
       ProgressInv, RefusesOnlyHalfRollback

(* Every step of the restore request keeps the invariant. *)
LEMMA RestoreStepKeeps == IInv /\ RestoreStep => IInv'
<1> SUFFICES ASSUME IInv, RestoreStep PROVE IInv'
  OBVIOUS
<1> USE DEF IInv, TypeOK, DiskInv, AppliedRowIsTruthful, AccessInv, RequestInv, ProgressInv,
            RefusesOnlyHalfRollback
<1>1. CASE StartRestoring
  BY <1>1 DEF StartRestoring
<1>2. CASE EnterMaintenance
  BY <1>2 DEF EnterMaintenance, Idle
<1>3. CASE StageCandidate
  BY <1>3 DEF StageCandidate
<1>4. CASE FinishStaging
  <2>1. CASE pc' = "recordFailure"
    BY <1>4, <2>1 DEF FinishStaging
  <2>2. CASE pc' = "staged"
    <3>1. PICK carried \in CarriedRows :
            /\ rows' = [rows EXCEPT ![staging'] = carried]
            /\ untrusted' = [untrusted EXCEPT ![staging'] =
                               {q \in Restores : carried[q] # "none"}]
      BY <1>4, <2>2 DEF FinishStaging
    <3>2. staging' \in Databases /\ staging' # accepted
      BY <1>4, <2>2 DEF FinishStaging
    <3>3. carried \in [Restores -> RowStates]
      BY DEF CarriedRows
    <3>4. /\ rows' \in [Databases -> [Restores -> RowStates]]
          /\ untrusted' \in [Databases -> SUBSET Restores]
          /\ rows'[accepted] = rows[accepted]
          /\ untrusted'[accepted] = untrusted[accepted]
          /\ rows'[staging'] = carried
          /\ untrusted'[staging'] = {q \in Restores : carried[q] # "none"}
      BY <3>1, <3>2, <3>3
    <3>5. \A q \in Restores :
            rows'[staging'][q] = "none" \/ q \in untrusted'[staging']
      BY <3>4
    <3>6. QED
      BY <1>4, <2>2, <3>2, <3>4, <3>5 DEF FinishStaging
  <2>3. QED
    BY <1>4, <2>1, <2>2 DEF FinishStaging
<1>5. CASE BeginJournal
  BY <1>5 DEF BeginJournal, Idle
<1>6. CASE CloseForFileSwap
  BY <1>6 DEF CloseForFileSwap
<1>7. CASE JournalLiveMove
  BY <1>7 DEF JournalLiveMove, FailTo, Transition
<1>8. CASE MoveLive
  BY <1>8 DEF MoveLive
<1>9. CASE JournalInstall
  BY <1>9 DEF JournalInstall, RejectAs, Transition
<1>10. CASE InstallCandidate
  BY <1>10 DEF InstallCandidate, RejectAs
<1>11. CASE RunPostActions
  BY <1>11 DEF RunPostActions, RejectAs
<1>12. CASE WriteRestoredOperation
  <2>1. CASE RejectAs("abort") /\ UNCHANGED << rows, untrusted >>
    BY <1>12, <2>1 DEF WriteRestoredOperation, RejectAs
  <2>2. CASE /\ rows' = [rows EXCEPT ![opened][request] = "APPLIED"]
             /\ untrusted' = [untrusted EXCEPT ![opened] = @ \ {request}]
             /\ pc' = "authorized"
             /\ NoFault
             /\ UNCHANGED task
    <3>1. /\ opened = live /\ live \in Databases /\ live # accepted
          /\ request \in Restores
      BY <1>12, <2>2 DEF WriteRestoredOperation
    <3>2. /\ rows' \in [Databases -> [Restores -> RowStates]]
          /\ untrusted' \in [Databases -> SUBSET Restores]
          /\ rows'[accepted] = rows[accepted]
          /\ untrusted'[accepted] = untrusted[accepted]
          /\ rows'[live] = [rows[live] EXCEPT ![request] = "APPLIED"]
          /\ untrusted'[live] = untrusted[live] \ {request}
      BY <2>2, <3>1
    <3>3. QED
      BY <1>12, <2>2, <3>1, <3>2 DEF WriteRestoredOperation
  <2>3. QED
    BY <1>12, <2>1, <2>2 DEF WriteRestoredOperation
<1>13. CASE MarkCommitted
  BY <1>13 DEF MarkCommitted, RejectAs, Transition
<1>14. CASE PublishCandidate
  BY <1>14 DEF PublishCandidate
<1>15. CASE RestartApp
  <2>1. PICK drop \in SUBSET Restores :
          StoreRows(opened, Prune(rows[opened], untrusted[opened], drop))
    BY <1>15 DEF RestartApp
  <2>2. opened = accepted /\ accepted' = accepted
    BY <1>15 DEF RestartApp
  <2>3. Settles(Prune(rows[opened], untrusted[opened], drop),
                rows[accepted], untrusted[accepted])
    BY <2>2, PruneSettles
  <2>4. /\ rows' \in [Databases -> [Restores -> RowStates]]
        /\ untrusted' = untrusted
        /\ source' \in Restores \union {None}
        /\ AppliedRowIsTruthful'
    BY <2>1, <2>2, <2>3, StoreKeeps
  <2>5. QED
    BY <1>15, <2>4 DEF RestartApp
<1>16. CASE CloseRejected
  BY <1>16 DEF CloseRejected, FailTo
<1>17. CASE ReleaseMaintenance
  BY <1>17 DEF ReleaseMaintenance
<1>18. CASE ReopenLive
  <2>1. CASE UNCHANGED records
    BY <1>18, <2>1 DEF ReopenLive
  <2>2. ASSUME NEW drop,
               StoreRows(live, Prune([rows[live] EXCEPT ![request] = "FAILED"],
                                     untrusted[live], drop)),
               pc' = "wedged", opened' = live, UNCHANGED gate, Fault
        PROVE  IInv'
    <3>1. /\ live = accepted /\ accepted' = accepted
          /\ request \in Restores /\ rows[accepted][request] = "RESTORING"
          /\ rows[accepted] \in [Restores -> RowStates]
      BY <1>18 DEF ReopenLive
    <3>2. Settles(Prune([rows[live] EXCEPT ![request] = "FAILED"],
                        untrusted[live], drop),
                  rows[accepted], untrusted[accepted])
      BY <3>1, ClosedSettles
    <3>3. /\ rows' \in [Databases -> [Restores -> RowStates]]
          /\ untrusted' = untrusted
          /\ source' \in Restores \union {None}
          /\ AppliedRowIsTruthful'
      BY <2>2, <3>1, <3>2, StoreKeeps
    <3>4. QED
      BY <1>18, <2>2, <3>1, <3>3 DEF ReopenLive
  <2>3. QED
    BY <1>18, <2>1, <2>2 DEF ReopenLive
<1>19. CASE RecordFailure
  <2>1. CASE UNCHANGED records
    BY <1>19, <2>1 DEF RecordFailure
  <2>2. ASSUME NEW drop,
               StoreRows(opened,
                 Prune([rows[opened] EXCEPT ![request] =
                          IF task = "abort" THEN "ROLLED_BACK" ELSE "FAILED"],
                       untrusted[opened], drop)),
               NoFault
        PROVE  IInv'
    <3>1. /\ opened = accepted /\ accepted' = accepted
          /\ request \in Restores /\ rows[accepted][request] = "RESTORING"
          /\ rows[accepted] \in [Restores -> RowStates]
      BY <1>19 DEF RecordFailure
    <3> DEFINE end == IF task = "abort" THEN "ROLLED_BACK" ELSE "FAILED"
    <3>2. end \in {"FAILED", "ROLLED_BACK"}
      OBVIOUS
    <3>3. StoreRows(opened, Prune([rows[opened] EXCEPT ![request] = end],
                                  untrusted[opened], drop))
      BY <2>2
    <3> HIDE DEF end
    <3>4. Settles(Prune([rows[opened] EXCEPT ![request] = end],
                        untrusted[opened], drop),
                  rows[accepted], untrusted[accepted])
      BY <3>1, <3>2, ClosedSettles
    <3>5. /\ rows' \in [Databases -> [Restores -> RowStates]]
          /\ untrusted' = untrusted
          /\ source' \in Restores \union {None}
          /\ AppliedRowIsTruthful'
      BY <3>1, <3>3, <3>4, StoreKeeps
    <3>6. QED
      BY <1>19, <2>2, <3>1, <3>5 DEF RecordFailure
  <2>3. QED
    BY <1>19, <2>1, <2>2 DEF RecordFailure
<1> HIDE DEF IInv
<1>20. QED
  BY <1>1, <1>2, <1>3, <1>4, <1>5, <1>6, <1>7, <1>8, <1>9, <1>10, <1>11,
     <1>12, <1>13, <1>14, <1>15, <1>16, <1>17, <1>18, <1>19 DEF RestoreStep

(* So does every step of the file procedures restore and startup share. *)
LEMMA FileStepKeeps == IInv /\ FileStep => IInv'
<1> SUFFICES ASSUME IInv, FileStep PROVE IInv'
  OBVIOUS
<1> USE DEF IInv, TypeOK, DiskInv, AppliedRowIsTruthful, AccessInv, RequestInv, ProgressInv,
            RefusesOnlyHalfRollback
<1>1. CASE FinalizeFallback
  BY <1>1 DEF FinalizeFallback, FailTo, AfterError, AfterSuccess
<1>2. CASE FinalizeStaging
  BY <1>2 DEF FinalizeStaging, FailTo, AfterError, AfterSuccess
<1>3. CASE FinalizeMarker
  BY <1>3 DEF FinalizeMarker, FailTo, AfterSuccess, AfterError
<1>4. CASE Rollback
  BY <1>4 DEF Rollback, AfterRefusal, AfterError, AfterSuccess,
         RollbackPermitted
<1>5. CASE RollbackRemove
  BY <1>5 DEF RollbackRemove, FailTo, AfterError, AfterSuccess
<1>6. CASE RollbackRename
  BY <1>6 DEF RollbackRename, FailTo, AfterError, AfterSuccess
<1>7. CASE CancelStaging
  BY <1>7 DEF CancelStaging, FailTo, AfterError, AfterSuccess
<1>8. CASE CancelMarker
  BY <1>8 DEF CancelMarker, FailTo, AfterSuccess, AfterError
<1> HIDE DEF IInv
<1>9. QED
  BY <1>1, <1>2, <1>3, <1>4, <1>5, <1>6, <1>7, <1>8 DEF FileStep

(* And every step of startup. *)
LEMMA StartupStepKeeps == IInv /\ StartupStep => IInv'
<1> SUFFICES ASSUME IInv, StartupStep PROVE IInv'
  OBVIOUS
<1> USE DEF IInv, TypeOK, DiskInv, AppliedRowIsTruthful, AccessInv, RequestInv, ProgressInv,
            RefusesOnlyHalfRollback
<1>1. CASE Boot
  BY <1>1 DEF Boot
<1>2. CASE Recover
  BY <1>2 DEF Recover, FailTo, Idle, AfterError, AfterSuccess, RecoverStep,
         AfterRefusal
<1>3. CASE OpenAtBoot
  BY <1>3 DEF OpenAtBoot, FailTo
<1>4. CASE ReconcileStartup
  <2>1. /\ opened = accepted /\ accepted' = accepted
        /\ rows[accepted] \in [Restores -> RowStates]
    BY <1>4 DEF ReconcileStartup
  <2>2. ASSUME NEW g, StoreRows(opened, g),
               Settles(g, rows[accepted], untrusted[accepted])
        PROVE  IInv'
    <3>1. /\ rows' \in [Databases -> [Restores -> RowStates]]
          /\ untrusted' = untrusted
          /\ source' \in Restores \union {None}
          /\ AppliedRowIsTruthful'
      BY <2>1, <2>2, StoreKeeps
    <3>2. QED
      BY <1>4, <3>1 DEF ReconcileStartup
  <2>3. ASSUME NEW handled,
               StoreRows(opened,
                 Dispose(rows[opened], untrusted[opened], handled))
        PROVE  IInv'
    BY <2>1, <2>2, <2>3, DisposeSettles
  <2>4. ASSUME NEW drop, NEW lost,
               StoreRows(opened,
                 Maintained(Dispose(rows[opened], untrusted[opened], Restores),
                            untrusted[opened], drop, lost))
        PROVE  IInv'
    BY <2>1, <2>2, <2>4, DisposedMaintainedSettles
  <2> HIDE DEF IInv
  <2>5. QED
    BY <1>4, <2>3, <2>4 DEF ReconcileStartup
<1> HIDE DEF IInv
<1>5. QED
  BY <1>1, <1>2, <1>3, <1>4 DEF StartupStep

(* The invariant is inductive: the end of a process only forgets memory,   *)
(* and DiskInv speaks of no memory.                                        *)
LEMMA NextKeeps == IInv /\ [Next]_vars => IInv'
<1> SUFFICES ASSUME IInv, [Next]_vars PROVE IInv'
  OBVIOUS
<1>1. ASSUME NEW r \in Restores, AdmitRestore(r) PROVE IInv'
  <2> USE DEF IInv, TypeOK, DiskInv, AccessInv, RequestInv, ProgressInv,
              RefusesOnlyHalfRollback
  <2>1. PICK drop, lost \in SUBSET Restores :
          LET f == Maintained(rows[opened], untrusted[opened], drop, lost) IN
            /\ f[r] = "none"
            /\ rows' = [rows EXCEPT ![opened] = [f EXCEPT ![r] = "ADMITTED"]]
            /\ source' = SourceIn(f)
    BY <1>1 DEF AdmitRestore
  <2> DEFINE f == Maintained(rows[opened], untrusted[opened], drop, lost)
  <2>2. /\ opened = accepted /\ accepted' = accepted
        /\ untrusted' = untrusted
        /\ rows[accepted] \in [Restores -> RowStates]
    BY <1>1 DEF AdmitRestore
  <2>3. Settles(f, rows[accepted], untrusted[accepted])
    BY <2>2, MaintainedSettles
  <2>4. /\ f[r] = "none" /\ source' = SourceIn(f)
        /\ rows' = [rows EXCEPT ![accepted] = [f EXCEPT ![r] = "ADMITTED"]]
    BY <2>1, <2>2
  <2> HIDE DEF f
  <2>5. /\ rows' \in [Databases -> [Restores -> RowStates]]
        /\ rows'[accepted] = [f EXCEPT ![r] = "ADMITTED"]
        /\ source' \in Restores \union {None} /\ source' # r
    BY <2>3, <2>4 DEF Settles, SourceIn
  <2>6. AppliedRowIsTruthful'
    BY <2>2, <2>3, <2>4, <2>5 DEF Settles, SourceIn, AppliedRowIsTruthful
  <2>7. QED
    BY <1>1, <2>2, <2>5, <2>6 DEF AdmitRestore
<1>0. CASE Maintain
  <2> USE DEF IInv, TypeOK, DiskInv, AccessInv, RequestInv, ProgressInv,
              RefusesOnlyHalfRollback
  <2>1. PICK drop, lost \in SUBSET Restores :
          StoreRows(opened,
            Maintained(rows[opened], untrusted[opened], drop, lost))
    BY <1>0 DEF Maintain
  <2>2. /\ opened = accepted /\ accepted' = accepted
        /\ rows[accepted] \in [Restores -> RowStates]
    BY <1>0 DEF Maintain
  <2>3. Settles(Maintained(rows[opened], untrusted[opened], drop, lost),
                rows[accepted], untrusted[accepted])
    BY <2>2, MaintainedSettles
  <2>4. /\ rows' \in [Databases -> [Restores -> RowStates]]
        /\ untrusted' = untrusted
        /\ source' \in Restores \union {None}
        /\ AppliedRowIsTruthful'
    BY <2>1, <2>2, <2>3, StoreKeeps
  <2>5. QED
    BY <1>0, <2>4 DEF Maintain
<1>2. CASE RestoreStep
  BY <1>2, RestoreStepKeeps
<1>3. CASE FileStep
  BY <1>3, FileStepKeeps
<1>4. CASE StartupStep
  BY <1>4, StartupStepKeeps
<1>5. CASE StopProcess
  BY <1>5 DEF StopProcess, EndProcess, IInv, TypeOK, DiskInv, AppliedRowIsTruthful,
              AccessInv, RequestInv, ProgressInv, RefusesOnlyHalfRollback
<1>6. CASE Crash
  BY <1>6 DEF Crash, EndProcess, IInv, TypeOK, DiskInv, AppliedRowIsTruthful,
              AccessInv, RequestInv, ProgressInv, RefusesOnlyHalfRollback
<1>7. CASE UNCHANGED vars
  BY <1>7 DEF vars, IInv, TypeOK, DiskInv, AppliedRowIsTruthful, AccessInv, RequestInv,
              ProgressInv, RefusesOnlyHalfRollback
<1>8. QED
  BY <1>0, <1>1, <1>2, <1>3, <1>4, <1>5, <1>6, <1>7 DEF Next

(* Every reachable state satisfies the inductive invariant, and with it    *)
(* the type invariant and the refusal property it contains.                *)
THEOREM SwapInvariant == Spec => []IInv
BY InitEstablishes, NextKeeps, PTL DEF Spec

(* Type correctness of the restore procedure and its recovery. *)
THEOREM SwapTypeOK == Spec => []TypeOK
<1>1. IInv => TypeOK
  BY DEF IInv
<1>2. QED
  BY <1>1, SwapInvariant, PTL

(* Crashes and failures never lose the database that must survive: it is   *)
(* where Recover will look for it.                                         *)
THEOREM AcceptedDatabaseSurvives == Spec => []AcceptedSurvives
<1>1. IInv => AcceptedSurvives
  BY DEF IInv, TypeOK, DiskInv, AcceptedSurvives
<1>2. QED
  BY <1>1, SwapInvariant, PTL

(* Ordinary operations only ever reach the accepted database. *)
THEOREM PublishedIsAccepted == Spec => []ServedIsAccepted
<1>1. IInv => ServedIsAccepted
  BY DEF IInv, TypeOK, DiskInv, AccessInv, ProgressInv, ServedIsAccepted
<1>2. QED
  BY <1>1, SwapInvariant, PTL

(* MarkCommitted's contract: whatever rows the backup carried and whatever *)
(* maintenance does, the accepted database claims no restore but the one   *)
(* that made it, and never denies that one.                                *)
THEOREM AppliedRowsTruthful == Spec => []AppliedRowIsTruthful
<1>1. IInv => AppliedRowIsTruthful
  BY DEF IInv
<1>2. QED
  BY <1>1, SwapInvariant, PTL

(* No path opens an absent file and so creates an empty database. *)
THEOREM OpensExistingDatabase == Spec => []NeverOpensEmpty
<1>1. IInv => NeverOpensEmpty
  BY DEF IInv, TypeOK, RequestInv, ProgressInv, NeverOpensEmpty
<1>2. QED
  BY <1>1, SwapInvariant, PTL

(* Startup refuses only the half-finished rollback. *)
THEOREM RefusalIsHalfRollback == Spec => []RefusesOnlyHalfRollback
<1>1. IInv => RefusesOnlyHalfRollback
  BY DEF IInv
<1>2. QED
  BY <1>1, SwapInvariant, PTL

(* The live file moves only under a pending marker and with no connection  *)
(* to it.                                                                  *)
THEOREM FilesMoveSafely == Spec => FilesMoveWhileClosed
<1> DEFINE Move == live' # live =>
                     /\ opened = None
                     /\ marker.state \in {"LIVE_MOVE_PENDING",
                                          "CANDIDATE_INSTALL_PENDING"}
<1>1. IInv /\ [Next]_vars => [Move]_vars
  <2> SUFFICES ASSUME IInv, Next, live' # live
               PROVE  /\ opened = None
                      /\ marker.state \in {"LIVE_MOVE_PENDING",
                                           "CANDIDATE_INSTALL_PENDING"}
    BY DEF vars
  <2>1. MoveLive \/ InstallCandidate \/ RollbackRemove \/ RollbackRename
    BY DEF Next, AdmitRestore, Maintain, RestoreStep, FileStep, StartupStep,
           StartRestoring, EnterMaintenance, StageCandidate, FinishStaging,
           BeginJournal, CloseForFileSwap, JournalLiveMove, JournalInstall,
           RunPostActions,
           WriteRestoredOperation, MarkCommitted, PublishCandidate,
           RestartApp, CloseRejected, ReleaseMaintenance, ReopenLive,
           RecordFailure, FinalizeFallback, FinalizeStaging, FinalizeMarker,
           Rollback, CancelStaging, CancelMarker, Boot, Recover, OpenAtBoot,
           ReconcileStartup, StopProcess, Crash, EndProcess, FailTo
  <2>2. QED
    BY <2>1 DEF MoveLive, InstallCandidate, RollbackRemove, RollbackRename,
                IInv, AccessInv, ProgressInv, RequestInv
<1>2. QED
  BY <1>1, SwapInvariant, PTL DEF Spec, FilesMoveWhileClosed

(* The restore procedure implements the atomic replacement: acceptance is  *)
(* the only step that changes the authority, it happens while nothing is   *)
(* published, and only the authority is ever published.                    *)
THEOREM SwapIsAtomic == Spec => AtomicSpec
<1>1. Init => Atomic!Init
  BY DEF Init, Atomic!Init, View
<1>2. IInv /\ IInv' /\ [Next]_vars => [Atomic!Next]_Atomic!vars
  <2> SUFFICES ASSUME IInv, IInv', [Next]_vars
               PROVE  [Atomic!Next]_Atomic!vars
    OBVIOUS
  <2>1. View = None \/ View = accepted
    BY DEF View, IInv, TypeOK, DiskInv, AccessInv, ProgressInv
  <2>2. View' = None \/ View' = accepted'
    BY DEF View, IInv, TypeOK, DiskInv, AccessInv, ProgressInv
  <2>3. CASE accepted' = accepted
    BY <2>1, <2>2, <2>3 DEF Atomic!Next, Atomic!vars, Atomic!Publish,
                            Atomic!Withdraw
  <2>4. CASE accepted' # accepted
    <3>1. MarkCommitted
      BY <2>4 DEF Next, AdmitRestore, Maintain, RestoreStep, FileStep, StartupStep,
           StartRestoring, EnterMaintenance, StageCandidate, FinishStaging,
           BeginJournal, CloseForFileSwap, JournalLiveMove, MoveLive,
           JournalInstall, InstallCandidate, RunPostActions,
           WriteRestoredOperation,
           PublishCandidate, RestartApp, CloseRejected, ReleaseMaintenance,
           ReopenLive, RecordFailure, FinalizeFallback, FinalizeStaging,
           FinalizeMarker, Rollback, RollbackRemove, RollbackRename,
           CancelStaging, CancelMarker, Boot, Recover, OpenAtBoot,
           ReconcileStartup, StopProcess, Crash, EndProcess, FailTo, vars
    <3>2. View = None /\ View' = None /\ accepted' \in Databases
      BY <3>1 DEF MarkCommitted, View, IInv, TypeOK, AccessInv
    <3>3. QED
      BY <3>2 DEF Atomic!Next, Atomic!Replace
  <2>5. QED
    BY <2>3, <2>4
<1>3. QED
  BY <1>1, <1>2, SwapInvariant, PTL DEF Spec, AtomicSpec, Atomic!Spec
=============================================================================
