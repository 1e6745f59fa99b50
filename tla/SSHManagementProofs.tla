------------------------ MODULE SSHManagementProofs ------------------------
(***************************************************************************)
(* The safety of SSH management for any number of operations, crashes and  *)
(* faults.                                                                 *)
(*                                                                         *)
(* None of the properties is inductive.  That one operation at a time is   *)
(* active rests on who holds admissionMu and on the state a call found its *)
(* row in; what a rollback leaves on the host rests on what the            *)
(* checkpoints and the broker's retained stage say was there before; that  *)
(* a commit was proven in time rests on the clock the call read.           *)
(***************************************************************************)
EXTENDS SSHManagement, FiniteSetTheorems, TLAPS

USE DistinctAssumption, NoneIsNoName, BoundAssumption

(* The state in which the manager's call finds the row it works on. *)
JobInv ==
  /\ \/ job.at \in {"admit", "check", "create"}
     \/ job.at \in {"debts", "release", "released"} /\ job.call = "start"
     => job.op \in Operations /\ row[job.op].state = None
  /\ job.at = "preflight" => job.op \in Operations /\ row[job.op].state = "DRAFT"
  /\ job.at \in {"stage", "checkpoint", "staged", "recovercheckpoint", "recoverstaged"} =>
       job.op \in Operations /\ row[job.op].state = "PREFLIGHTED"
  /\ job.at \in {"validate", "validated"} => job.op \in Operations /\ row[job.op].state = "STAGED"
  /\ job.at = "pending" => job.op \in Operations /\ row[job.op].state = "VALIDATED"
  /\ job.at \in {"reload", "challenge", "arm", "reconnect"} =>
       job.op \in Operations /\ row[job.op].state = "RELOAD_PENDING"
  /\ job.at \in {"verify", "inspect", "commit"} =>
       /\ job.call = "confirm" /\ job.op \in Operations
       /\ row[job.op].state = "RECONNECT_REQUIRED" /\ row[job.op].challenge = "issued"
  /\ job.at \in {"rollback", "manual"} => job.op \in Operations /\ row[job.op].state \in Active
  /\ job.at \in {"attempt", "restore", "recoveryreload", "exact"} =>
       job.op \in Operations /\ row[job.op].state = "ROLLBACK_PENDING" /\ row[job.op].checkpoint # None

(* What is still to be released is there, and only finished rows have been. *)
ReleaseInv ==
  /\ job.at \in {"release", "released"} => Debts # {}
  /\ \A o \in Operations : row[o].released => row[o].state \in {"COMMITTED", "ROLLED_BACK"}

(* Whoever is between the blocker's answer and the new row holds the lock. *)
AdmissionInv ==
  /\ job.at \in {"check", "create"} => admission = "ssh"
  /\ otherAt \in {"check", "create"} => admission = "other"
  /\ job.at = "create" => ~otherOp /\ ~BlockedBySSH
  /\ otherAt = "create" => ~BlockedBySSH

(* One operation at a time, without counting. *)
Exclusive ==
  /\ \A o, p \in Operations : row[o].state \in Active /\ row[p].state \in Active => o = p
  /\ otherOp => \A o \in Operations : row[o].state \notin Active

(* A drop-in that no later step of its operation will remove. *)
Settled(p) == p = Genesis \/ (p \in Operations /\ row[p].state \in {"COMMITTED", "MANUAL_RECOVERY_REQUIRED"})

(* What was on the host before an operation is still accounted for. *)
HostInv ==
  /\ HostChangeIsOwned
  /\ job.at = "stage" => job.op \notin {host.artifact, host.loaded}
  /\ job.at = "commit" => host = [artifact |-> job.op, loaded |-> job.op]
  /\ job.at \in {"checkpoint", "recovercheckpoint"} => retained \in StageResults /\ retained.op = job.op
  /\ retained \in StageResults => Settled(retained.prior)
  /\ \A o \in Operations : row[o].checkpoint # None => Settled(row[o].checkpoint)

(* The clock that was read before the deadline vouches for the login. *)
ProofInv ==
  /\ job.at = "inspect" /\ clock[job.op] = "open" => job.op \in proven
  /\ job.at = "commit" /\ job.timely => job.op \in proven

(* Up to its stage an operation finds the committed policy on the host, and *)
(* that is what its checkpoint and the broker keep for its rollback.        *)
PolicyInv ==
  /\ SettledHostRunsPolicy
  /\ job.at = "stage" => host = [artifact |-> policy, loaded |-> policy]
  /\ \A o \in Operations : row[o].state = "DRAFT" => host = [artifact |-> policy, loaded |-> policy]
  /\ \A o \in Operations : row[o].checkpoint # None =>
       row[o].state \notin {None, "DRAFT"} /\ (row[o].state \in Active => row[o].checkpoint = policy)
  /\ retained \in StageResults =>
       /\ row[retained.op].state \notin {None, "DRAFT"}
       /\ row[retained.op].state \in Active => retained.prior = policy

IInv == TypeOK /\ JobInv /\ ReleaseInv /\ AdmissionInv /\ Exclusive /\ HostInv /\ ProofInv /\ PolicyInv

-----------------------------------------------------------------------------

(* CHOOSE finds an operation to release when there is one. *)
LEMMA DebtIsOne == Debts # {} => Debt \in Debts
BY DEF Debt

(* Where the watchdog or the startup takes up the active candidate. *)
LEMMA ResumeTarget ==
  ASSUME NEW o \in Operations
  PROVE  /\ Resume(o) \in {"rollback", "return", "manual", "recoverstaged", "recovercheckpoint"}
         /\ Resume(o) \in {"recoverstaged", "recovercheckpoint"} => row[o].state = "PREFLIGHTED"
         /\ Resume(o) = "recovercheckpoint" => retained # None /\ retained.op = o
BY DEF Resume

(* Every step keeps the invariant. *)
LEMMA NextKeeps == IInv /\ Next => IInv'
  <1> SUFFICES ASSUME IInv, Next PROVE IInv'
    OBVIOUS
  <1> USE DEF IInv, TypeOK, Rows, Active, Terminal, Steps, NoJob, At, Goto, Fault, NoFault, Rest, manager, broker, others, history
  <1>1. ASSUME NEW o \in Operations, Start(o) PROVE IInv'
    <2>1. TypeOK'
      BY <1>1 DEF Start, Call, JobInv, Policies, StageResults
    <2>2. JobInv'
      BY <1>1 DEF Start, Call, JobInv
    <2>3. ReleaseInv'
      BY <1>1 DEF Start, Call, ReleaseInv, JobInv, Debts
    <2>4. AdmissionInv'
      BY <1>1 DEF Start, Call, AdmissionInv, JobInv, BlockedBySSH
    <2>5. Exclusive'
      BY <1>1 DEF Start, Call, Exclusive, JobInv, AdmissionInv, BlockedBySSH
    <2>6. HostInv'
      BY <1>1 DEF Start, Call, HostInv, HostChangeIsOwned, JobInv, Exclusive, Settled, StageResults, Policies
    <2>7. ProofInv'
      BY <1>1 DEF Start, Call, ProofInv, JobInv
    <2>8. PolicyInv'
      BY <1>1 DEF Start, Call, PolicyInv, SettledHostRunsPolicy, HostInv, JobInv, AdmissionInv, BlockedBySSH, Exclusive, StageResults, Policies
    <2> QED
      BY <2>1, <2>2, <2>3, <2>4, <2>5, <2>6, <2>7, <2>8
  <1>2. ASSUME NEW o \in Operations, Confirm(o) PROVE IInv'
    <2>1. TypeOK'
      BY <1>2 DEF Confirm, Call, JobInv, Policies, StageResults
    <2>2. JobInv'
      BY <1>2 DEF Confirm, Call, JobInv
    <2>3. ReleaseInv'
      BY <1>2 DEF Confirm, Call, ReleaseInv, JobInv, Debts
    <2>4. AdmissionInv'
      BY <1>2 DEF Confirm, Call, AdmissionInv, JobInv, BlockedBySSH
    <2>5. Exclusive'
      BY <1>2 DEF Confirm, Call, Exclusive, JobInv, AdmissionInv, BlockedBySSH
    <2>6. HostInv'
      BY <1>2 DEF Confirm, Call, HostInv, HostChangeIsOwned, JobInv, Exclusive, Settled, StageResults, Policies
    <2>7. ProofInv'
      BY <1>2 DEF Confirm, Call, ProofInv, JobInv
    <2>8. PolicyInv'
      BY <1>2 DEF Confirm, Call, PolicyInv, SettledHostRunsPolicy, HostInv, JobInv, AdmissionInv, BlockedBySSH, Exclusive, StageResults, Policies
    <2> QED
      BY <2>1, <2>2, <2>3, <2>4, <2>5, <2>6, <2>7, <2>8
  <1>3. ASSUME NEW o \in Operations, Rollback(o) PROVE IInv'
    <2>1. TypeOK'
      BY <1>3 DEF Rollback, Call, CanRollBack, JobInv, Policies, StageResults
    <2>2. JobInv'
      BY <1>3 DEF Rollback, Call, CanRollBack, JobInv
    <2>3. ReleaseInv'
      BY <1>3 DEF Rollback, Call, CanRollBack, ReleaseInv, JobInv, Debts
    <2>4. AdmissionInv'
      BY <1>3 DEF Rollback, Call, CanRollBack, AdmissionInv, JobInv, BlockedBySSH
    <2>5. Exclusive'
      BY <1>3 DEF Rollback, Call, CanRollBack, Exclusive, JobInv, AdmissionInv, BlockedBySSH
    <2>6. HostInv'
      BY <1>3 DEF Rollback, Call, CanRollBack, HostInv, HostChangeIsOwned, JobInv, Exclusive, Settled, StageResults, Policies
    <2>7. ProofInv'
      BY <1>3 DEF Rollback, Call, CanRollBack, ProofInv, JobInv
    <2>8. PolicyInv'
      BY <1>3 DEF Rollback, Call, CanRollBack, PolicyInv, SettledHostRunsPolicy, HostInv, JobInv, AdmissionInv, BlockedBySSH, Exclusive, StageResults, Policies
    <2> QED
      BY <2>1, <2>2, <2>3, <2>4, <2>5, <2>6, <2>7, <2>8
  <1>4. ASSUME NEW o \in Operations, Expire(o) PROVE IInv'
    <2>1. TypeOK'
      BY <1>4 DEF Expire, JobInv, Policies, StageResults
    <2>2. JobInv'
      BY <1>4 DEF Expire, JobInv
    <2>3. ReleaseInv'
      BY <1>4 DEF Expire, ReleaseInv, JobInv, Debts
    <2>4. AdmissionInv'
      BY <1>4 DEF Expire, AdmissionInv, JobInv, BlockedBySSH
    <2>5. Exclusive'
      BY <1>4 DEF Expire, Exclusive, JobInv, AdmissionInv, BlockedBySSH
    <2>6. HostInv'
      BY <1>4 DEF Expire, HostInv, HostChangeIsOwned, JobInv, Exclusive, Settled, StageResults, Policies
    <2>7. ProofInv'
      BY <1>4 DEF Expire, ProofInv, JobInv
    <2>8. PolicyInv'
      BY <1>4 DEF Expire, PolicyInv, SettledHostRunsPolicy, HostInv, JobInv, AdmissionInv, BlockedBySSH, Exclusive, StageResults, Policies
    <2> QED
      BY <2>1, <2>2, <2>3, <2>4, <2>5, <2>6, <2>7, <2>8
  <1>5. CASE WatchdogTick
    <2>1. TypeOK'
      BY <1>5 DEF WatchdogTick, Call, JobInv, Policies, StageResults
    <2>2. JobInv'
      BY <1>5 DEF WatchdogTick, Call, JobInv
    <2>3. ReleaseInv'
      BY <1>5 DEF WatchdogTick, Call, ReleaseInv, JobInv, Debts
    <2>4. AdmissionInv'
      BY <1>5 DEF WatchdogTick, Call, AdmissionInv, JobInv, BlockedBySSH
    <2>5. Exclusive'
      BY <1>5 DEF WatchdogTick, Call, Exclusive, JobInv, AdmissionInv, BlockedBySSH
    <2>6. HostInv'
      BY <1>5 DEF WatchdogTick, Call, HostInv, HostChangeIsOwned, JobInv, Exclusive, Settled, StageResults, Policies
    <2>7. ProofInv'
      BY <1>5 DEF WatchdogTick, Call, ProofInv, JobInv
    <2>8. PolicyInv'
      BY <1>5 DEF WatchdogTick, Call, PolicyInv, SettledHostRunsPolicy, HostInv, JobInv, AdmissionInv, BlockedBySSH, Exclusive, StageResults, Policies
    <2> QED
      BY <2>1, <2>2, <2>3, <2>4, <2>5, <2>6, <2>7, <2>8
  <1>6. CASE ReconcileStartup
    <2>1. TypeOK'
      BY <1>6 DEF ReconcileStartup, JobInv, Policies, StageResults
    <2>2. JobInv'
      BY <1>6 DEF ReconcileStartup, JobInv
    <2>3. ReleaseInv'
      BY <1>6 DEF ReconcileStartup, ReleaseInv, JobInv, Debts
    <2>4. AdmissionInv'
      BY <1>6 DEF ReconcileStartup, AdmissionInv, JobInv, BlockedBySSH
    <2>5. Exclusive'
      BY <1>6 DEF ReconcileStartup, Exclusive, JobInv, AdmissionInv, BlockedBySSH
    <2>6. HostInv'
      BY <1>6 DEF ReconcileStartup, HostInv, HostChangeIsOwned, JobInv, Exclusive, Settled, StageResults, Policies
    <2>7. ProofInv'
      BY <1>6 DEF ReconcileStartup, ProofInv, JobInv
    <2>8. PolicyInv'
      BY <1>6 DEF ReconcileStartup, PolicyInv, SettledHostRunsPolicy, HostInv, JobInv, AdmissionInv, BlockedBySSH, Exclusive, StageResults, Policies
    <2> QED
      BY <2>1, <2>2, <2>3, <2>4, <2>5, <2>6, <2>7, <2>8
  <1>7. CASE Abandon
    <2>1. TypeOK'
      BY <1>7 DEF Abandon, Return, Fault, JobInv, Policies, StageResults
    <2>2. JobInv'
      BY <1>7 DEF Abandon, Return, Fault, JobInv
    <2>3. ReleaseInv'
      BY <1>7 DEF Abandon, Return, Fault, ReleaseInv, JobInv, Debts
    <2>4. AdmissionInv'
      BY <1>7 DEF Abandon, Return, Fault, AdmissionInv, JobInv, BlockedBySSH
    <2>5. Exclusive'
      BY <1>7 DEF Abandon, Return, Fault, Exclusive, JobInv, AdmissionInv, BlockedBySSH
    <2>6. HostInv'
      BY <1>7 DEF Abandon, Return, Fault, HostInv, HostChangeIsOwned, JobInv, Exclusive, Settled, StageResults, Policies
    <2>7. ProofInv'
      BY <1>7 DEF Abandon, Return, Fault, ProofInv, JobInv
    <2>8. PolicyInv'
      BY <1>7 DEF Abandon, Return, Fault, PolicyInv, SettledHostRunsPolicy, HostInv, JobInv, AdmissionInv, BlockedBySSH, Exclusive, StageResults, Policies
    <2> QED
      BY <2>1, <2>2, <2>3, <2>4, <2>5, <2>6, <2>7, <2>8
  <1>8. CASE Crash
    <2>1. TypeOK'
      <3>1. crashes' \in Nat
        BY <1>8 DEF Crash
      <3>2. up' \in BOOLEAN /\ admission' = None /\ otherAt' = None /\ job' = NoJob
        BY <1>8 DEF Crash
      <3>3. UNCHANGED <<row, clock, otherOp, host, fence, unresolved, retained, faults, history>>
        BY <1>8 DEF Crash
      <3> QED
        BY <3>1, <3>2, <3>3
    <2>2. JobInv'
      BY <1>8 DEF Crash, JobInv
    <2>3. ReleaseInv'
      BY <1>8 DEF Crash, ReleaseInv, JobInv, Debts
    <2>4. AdmissionInv'
      BY <1>8 DEF Crash, AdmissionInv, JobInv, BlockedBySSH
    <2>5. Exclusive'
      BY <1>8 DEF Crash, Exclusive, JobInv, AdmissionInv, BlockedBySSH
    <2>6. HostInv'
      BY <1>8 DEF Crash, HostInv, HostChangeIsOwned, JobInv, Exclusive, Settled, StageResults, Policies
    <2>7. ProofInv'
      BY <1>8 DEF Crash, ProofInv, JobInv
    <2>8. PolicyInv'
      BY <1>8 DEF Crash, PolicyInv, SettledHostRunsPolicy, HostInv, JobInv, AdmissionInv, BlockedBySSH, Exclusive, StageResults, Policies
    <2> QED
      BY <2>1, <2>2, <2>3, <2>4, <2>5, <2>6, <2>7, <2>8
  <1>9. CASE OtherAdmits
    <2>1. TypeOK'
      <3>1. otherOp' \in BOOLEAN /\ otherAt' \in {None, "check", "create"} /\ admission' \in {None, "ssh", "other"}
        BY <1>9 DEF OtherAdmits
      <3>2. UNCHANGED <<row, job, clock, host, fence, unresolved, retained, up, crashes, faults, history>>
        BY <1>9 DEF OtherAdmits
      <3> QED
        BY <3>1, <3>2
    <2>2. JobInv'
      BY <1>9 DEF OtherAdmits, JobInv
    <2>3. ReleaseInv'
      BY <1>9 DEF OtherAdmits, ReleaseInv, JobInv, Debts
    <2>4. AdmissionInv'
      BY <1>9 DEF OtherAdmits, AdmissionInv, JobInv, BlockedBySSH
    <2>5. Exclusive'
      BY <1>9 DEF OtherAdmits, Exclusive, JobInv, AdmissionInv, BlockedBySSH
    <2>6. HostInv'
      BY <1>9 DEF OtherAdmits, HostInv, HostChangeIsOwned, JobInv, Exclusive, Settled, StageResults, Policies
    <2>7. ProofInv'
      BY <1>9 DEF OtherAdmits, ProofInv, JobInv
    <2>8. PolicyInv'
      BY <1>9 DEF OtherAdmits, PolicyInv, SettledHostRunsPolicy, HostInv, JobInv, AdmissionInv, BlockedBySSH, Exclusive, StageResults, Policies
    <2> QED
      BY <2>1, <2>2, <2>3, <2>4, <2>5, <2>6, <2>7, <2>8
  <1>10. CASE OtherEnds
    <2>1. TypeOK'
      <3>1. otherOp' \in BOOLEAN
        BY <1>10 DEF OtherEnds
      <3>2. UNCHANGED <<row, job, clock, admission, otherAt, host, fence, unresolved, retained, up, crashes, faults, history>>
        BY <1>10 DEF OtherEnds
      <3> QED
        BY <3>1, <3>2
    <2>2. JobInv'
      BY <1>10 DEF OtherEnds, JobInv
    <2>3. ReleaseInv'
      BY <1>10 DEF OtherEnds, ReleaseInv, JobInv, Debts
    <2>4. AdmissionInv'
      BY <1>10 DEF OtherEnds, AdmissionInv, JobInv, BlockedBySSH
    <2>5. Exclusive'
      BY <1>10 DEF OtherEnds, Exclusive, JobInv, AdmissionInv, BlockedBySSH
    <2>6. HostInv'
      BY <1>10 DEF OtherEnds, HostInv, HostChangeIsOwned, JobInv, Exclusive, Settled, StageResults, Policies
    <2>7. ProofInv'
      BY <1>10 DEF OtherEnds, ProofInv, JobInv
    <2>8. PolicyInv'
      BY <1>10 DEF OtherEnds, PolicyInv, SettledHostRunsPolicy, HostInv, JobInv, AdmissionInv, BlockedBySSH, Exclusive, StageResults, Policies
    <2> QED
      BY <2>1, <2>2, <2>3, <2>4, <2>5, <2>6, <2>7, <2>8
  <1>11. CASE ReconcileDebts
    <2>1. TypeOK'
      BY <1>11 DEF ReconcileDebts, JobInv, Policies, StageResults
    <2>2. JobInv'
      BY <1>11 DEF ReconcileDebts, JobInv
    <2>3. ReleaseInv'
      BY <1>11 DEF ReconcileDebts, ReleaseInv, JobInv, Debts
    <2>4. AdmissionInv'
      BY <1>11 DEF ReconcileDebts, AdmissionInv, JobInv, BlockedBySSH
    <2>5. Exclusive'
      BY <1>11 DEF ReconcileDebts, Exclusive, JobInv, AdmissionInv, BlockedBySSH
    <2>6. HostInv'
      BY <1>11 DEF ReconcileDebts, HostInv, HostChangeIsOwned, JobInv, Exclusive, Settled, StageResults, Policies
    <2>7. ProofInv'
      BY <1>11 DEF ReconcileDebts, ProofInv, JobInv
    <2>8. PolicyInv'
      BY <1>11 DEF ReconcileDebts, PolicyInv, SettledHostRunsPolicy, HostInv, JobInv, AdmissionInv, BlockedBySSH, Exclusive, StageResults, Policies
    <2> QED
      BY <2>1, <2>2, <2>3, <2>4, <2>5, <2>6, <2>7, <2>8
  <1>12. CASE ReleaseCompletedStage
    <2>1. Debt \in Operations
      BY <1>12, DebtIsOne DEF ReleaseCompletedStage, ReleaseInv, Debts
    <2>2. Mutate(Debt, 8, retained # None /\ retained.op = Debt, host,
                None, "released", "return")
      BY <1>12 DEF ReleaseCompletedStage
    <2>3. /\ job' \in [call : {job.call}, op : {job.op}, at : {"released", "return"}, timely : {job.timely}]
          /\ host' \in {host, host}
          /\ retained' \in {retained, None}
          /\ job'.at = "released" => retained' = None
      BY <2>2 DEF Mutate
    <2>4. fence' \in Nat /\ unresolved' \in BOOLEAN /\ faults' \in Nat
      BY <2>1, <2>2 DEF Mutate, Sequence
    <2>5. job.at = "release" /\ UNCHANGED <<row, admission, clock, others, up, crashes, history>>
      BY <1>12 DEF ReleaseCompletedStage
    <2>6. TypeOK'
      BY <2>1, <2>3, <2>4, <2>5 DEF JobInv, Policies, StageResults
    <2>7. JobInv'
      BY <2>1, <2>3, <2>4, <2>5 DEF JobInv
    <2>8. ReleaseInv'
      BY <2>1, <2>3, <2>4, <2>5 DEF ReleaseInv, JobInv, Debts
    <2>9. AdmissionInv'
      BY <2>1, <2>3, <2>4, <2>5 DEF AdmissionInv, JobInv, BlockedBySSH
    <2>10. Exclusive'
      BY <2>1, <2>3, <2>4, <2>5 DEF Exclusive, JobInv, AdmissionInv, BlockedBySSH
    <2>11. HostInv'
      BY <2>1, <2>3, <2>4, <2>5 DEF HostInv, HostChangeIsOwned, JobInv, Exclusive, Settled, StageResults, Policies
    <2>12. ProofInv'
      BY <2>1, <2>3, <2>4, <2>5 DEF ProofInv, JobInv
    <2>13. PolicyInv'
      BY <2>1, <2>3, <2>4, <2>5 DEF PolicyInv, SettledHostRunsPolicy, HostInv, JobInv, AdmissionInv, BlockedBySSH, Exclusive, StageResults, Policies
    <2> QED
      BY <2>6, <2>7, <2>8, <2>9, <2>10, <2>11, <2>12, <2>13
  <1>13. CASE RecordReleased
    <2>1. TypeOK'
      BY <1>13, DebtIsOne DEF RecordReleased, ReleaseInv, Debts, JobInv, Policies, StageResults
    <2>2. JobInv'
      BY <1>13, DebtIsOne DEF RecordReleased, ReleaseInv, Debts, JobInv
    <2>3. ReleaseInv'
      BY <1>13, DebtIsOne DEF RecordReleased, ReleaseInv, Debts, JobInv
    <2>4. AdmissionInv'
      BY <1>13, DebtIsOne DEF RecordReleased, ReleaseInv, Debts, AdmissionInv, JobInv, BlockedBySSH
    <2>5. Exclusive'
      BY <1>13, DebtIsOne DEF RecordReleased, ReleaseInv, Debts, Exclusive, JobInv, AdmissionInv, BlockedBySSH
    <2>6. HostInv'
      BY <1>13, DebtIsOne DEF RecordReleased, ReleaseInv, Debts, HostInv, HostChangeIsOwned, JobInv, Exclusive, Settled, StageResults, Policies
    <2>7. ProofInv'
      BY <1>13, DebtIsOne DEF RecordReleased, ReleaseInv, Debts, ProofInv, JobInv
    <2>8. PolicyInv'
      BY <1>13, DebtIsOne DEF RecordReleased, ReleaseInv, Debts, PolicyInv, SettledHostRunsPolicy, HostInv, JobInv, AdmissionInv, BlockedBySSH, Exclusive, StageResults, Policies
    <2> QED
      BY <2>1, <2>2, <2>3, <2>4, <2>5, <2>6, <2>7, <2>8
  <1>14. CASE EndCall
    <2>1. TypeOK'
      BY <1>14 DEF EndCall, Return, JobInv, Policies, StageResults
    <2>2. JobInv'
      BY <1>14 DEF EndCall, Return, JobInv
    <2>3. ReleaseInv'
      BY <1>14 DEF EndCall, Return, ReleaseInv, JobInv, Debts
    <2>4. AdmissionInv'
      BY <1>14 DEF EndCall, Return, AdmissionInv, JobInv, BlockedBySSH
    <2>5. Exclusive'
      BY <1>14 DEF EndCall, Return, Exclusive, JobInv, AdmissionInv, BlockedBySSH
    <2>6. HostInv'
      BY <1>14 DEF EndCall, Return, HostInv, HostChangeIsOwned, JobInv, Exclusive, Settled, StageResults, Policies
    <2>7. ProofInv'
      BY <1>14 DEF EndCall, Return, ProofInv, JobInv
    <2>8. PolicyInv'
      BY <1>14 DEF EndCall, Return, PolicyInv, SettledHostRunsPolicy, HostInv, JobInv, AdmissionInv, BlockedBySSH, Exclusive, StageResults, Policies
    <2> QED
      BY <2>1, <2>2, <2>3, <2>4, <2>5, <2>6, <2>7, <2>8
  <1>15. CASE TakeAdmission
    <2>1. TypeOK'
      BY <1>15 DEF TakeAdmission, JobInv, Policies, StageResults
    <2>2. JobInv'
      BY <1>15 DEF TakeAdmission, JobInv
    <2>3. ReleaseInv'
      BY <1>15 DEF TakeAdmission, ReleaseInv, JobInv, Debts
    <2>4. AdmissionInv'
      BY <1>15 DEF TakeAdmission, AdmissionInv, JobInv, BlockedBySSH
    <2>5. Exclusive'
      BY <1>15 DEF TakeAdmission, Exclusive, JobInv, AdmissionInv, BlockedBySSH
    <2>6. HostInv'
      BY <1>15 DEF TakeAdmission, HostInv, HostChangeIsOwned, JobInv, Exclusive, Settled, StageResults, Policies
    <2>7. ProofInv'
      BY <1>15 DEF TakeAdmission, ProofInv, JobInv
    <2>8. PolicyInv'
      BY <1>15 DEF TakeAdmission, PolicyInv, SettledHostRunsPolicy, HostInv, JobInv, AdmissionInv, BlockedBySSH, Exclusive, StageResults, Policies
    <2> QED
      BY <2>1, <2>2, <2>3, <2>4, <2>5, <2>6, <2>7, <2>8
  <1>16. CASE CheckAdmission
    <2>1. TypeOK'
      BY <1>16 DEF CheckAdmission, BlockedBySSH, JobInv, Policies, StageResults
    <2>2. JobInv'
      BY <1>16 DEF CheckAdmission, BlockedBySSH, JobInv
    <2>3. ReleaseInv'
      BY <1>16 DEF CheckAdmission, BlockedBySSH, ReleaseInv, JobInv, Debts
    <2>4. AdmissionInv'
      BY <1>16 DEF CheckAdmission, BlockedBySSH, AdmissionInv, JobInv
    <2>5. Exclusive'
      BY <1>16 DEF CheckAdmission, BlockedBySSH, Exclusive, JobInv, AdmissionInv
    <2>6. HostInv'
      BY <1>16 DEF CheckAdmission, BlockedBySSH, HostInv, HostChangeIsOwned, JobInv, Exclusive, Settled, StageResults, Policies
    <2>7. ProofInv'
      BY <1>16 DEF CheckAdmission, BlockedBySSH, ProofInv, JobInv
    <2>8. PolicyInv'
      BY <1>16 DEF CheckAdmission, BlockedBySSH, PolicyInv, SettledHostRunsPolicy, HostInv, JobInv, AdmissionInv, BlockedBySSH, Exclusive, StageResults, Policies
    <2> QED
      BY <2>1, <2>2, <2>3, <2>4, <2>5, <2>6, <2>7, <2>8
  <1>17. CASE CreateCandidate
    <2>1. TypeOK'
      BY <1>17 DEF CreateCandidate, JobInv, Policies, StageResults
    <2>2. JobInv'
      BY <1>17 DEF CreateCandidate, JobInv
    <2>3. ReleaseInv'
      BY <1>17 DEF CreateCandidate, ReleaseInv, JobInv, Debts
    <2>4. AdmissionInv'
      BY <1>17 DEF CreateCandidate, AdmissionInv, JobInv, BlockedBySSH
    <2>5. Exclusive'
      BY <1>17 DEF CreateCandidate, Exclusive, JobInv, AdmissionInv, BlockedBySSH
    <2>6. HostInv'
      BY <1>17 DEF CreateCandidate, HostInv, HostChangeIsOwned, JobInv, Exclusive, Settled, StageResults, Policies
    <2>7. ProofInv'
      BY <1>17 DEF CreateCandidate, ProofInv, JobInv
    <2>8. PolicyInv'
      BY <1>17 DEF CreateCandidate, PolicyInv, SettledHostRunsPolicy, HostInv, JobInv, AdmissionInv, BlockedBySSH, Exclusive, StageResults, Policies
    <2> QED
      BY <2>1, <2>2, <2>3, <2>4, <2>5, <2>6, <2>7, <2>8
  <1>18. CASE Preflight
    <2>1. TypeOK'
      BY <1>18 DEF Preflight, AdvanceTo, Advance, JobInv, Policies, StageResults
    <2>2. JobInv'
      BY <1>18 DEF Preflight, AdvanceTo, Advance, JobInv
    <2>3. ReleaseInv'
      BY <1>18 DEF Preflight, AdvanceTo, Advance, ReleaseInv, JobInv, Debts
    <2>4. AdmissionInv'
      BY <1>18 DEF Preflight, AdvanceTo, Advance, AdmissionInv, JobInv, BlockedBySSH
    <2>5. Exclusive'
      BY <1>18 DEF Preflight, AdvanceTo, Advance, Exclusive, JobInv, AdmissionInv, BlockedBySSH
    <2>6. HostInv'
      BY <1>18 DEF Preflight, AdvanceTo, Advance, HostInv, HostChangeIsOwned, JobInv, Exclusive, Settled, StageResults, Policies
    <2>7. ProofInv'
      BY <1>18 DEF Preflight, AdvanceTo, Advance, ProofInv, JobInv
    <2>8. PolicyInv'
      BY <1>18 DEF Preflight, AdvanceTo, Advance, PolicyInv, SettledHostRunsPolicy, HostInv, JobInv, AdmissionInv, BlockedBySSH, Exclusive, StageResults, Policies
    <2> QED
      BY <2>1, <2>2, <2>3, <2>4, <2>5, <2>6, <2>7, <2>8
  <1>19. CASE StageManagedPolicy
    <2>1. job.op \in Operations
      BY <1>19 DEF StageManagedPolicy, JobInv
    <2>2. Mutate(job.op, 1, TRUE, [host EXCEPT !.artifact = job.op],
                [op |-> job.op, prior |-> host.artifact], "checkpoint", "manual")
      BY <1>19 DEF StageManagedPolicy
    <2>3. /\ job' \in [call : {job.call}, op : {job.op}, at : {"checkpoint", "manual"}, timely : {job.timely}]
          /\ host' \in {host, [host EXCEPT !.artifact = job.op]}
          /\ retained' \in {retained, [op |-> job.op, prior |-> host.artifact]}
          /\ job'.at = "checkpoint" => retained' = [op |-> job.op, prior |-> host.artifact]
      BY <2>2 DEF Mutate
    <2>4. fence' \in Nat /\ unresolved' \in BOOLEAN /\ faults' \in Nat
      BY <2>1, <2>2 DEF Mutate, Sequence
    <2>5. job.at = "stage" /\ UNCHANGED <<row, admission, clock, others, up, crashes, history>>
      BY <1>19 DEF StageManagedPolicy
    <2>6. TypeOK'
      BY <2>1, <2>3, <2>4, <2>5 DEF JobInv, Policies, StageResults
    <2>7. JobInv'
      BY <2>1, <2>3, <2>4, <2>5 DEF JobInv
    <2>8. ReleaseInv'
      BY <2>1, <2>3, <2>4, <2>5 DEF ReleaseInv, JobInv, Debts
    <2>9. AdmissionInv'
      BY <2>1, <2>3, <2>4, <2>5 DEF AdmissionInv, JobInv, BlockedBySSH
    <2>10. Exclusive'
      BY <2>1, <2>3, <2>4, <2>5 DEF Exclusive, JobInv, AdmissionInv, BlockedBySSH
    <2>11. HostInv'
      BY <2>1, <2>3, <2>4, <2>5 DEF HostInv, HostChangeIsOwned, JobInv, Exclusive, Settled, StageResults, Policies
    <2>12. ProofInv'
      BY <2>1, <2>3, <2>4, <2>5 DEF ProofInv, JobInv
    <2>13. PolicyInv'
      BY <2>1, <2>3, <2>4, <2>5 DEF PolicyInv, SettledHostRunsPolicy, HostInv, JobInv, AdmissionInv, BlockedBySSH, Exclusive, StageResults, Policies
    <2> QED
      BY <2>6, <2>7, <2>8, <2>9, <2>10, <2>11, <2>12, <2>13
  <1>20. CASE SaveCheckpoint
    <2>1. TypeOK'
      BY <1>20 DEF SaveCheckpoint, HostInv, StageResults, Policies, JobInv
    <2>2. JobInv'
      BY <1>20 DEF SaveCheckpoint, HostInv, StageResults, Policies, JobInv
    <2>3. ReleaseInv'
      BY <1>20 DEF SaveCheckpoint, HostInv, StageResults, Policies, ReleaseInv, JobInv, Debts
    <2>4. AdmissionInv'
      BY <1>20 DEF SaveCheckpoint, HostInv, StageResults, Policies, AdmissionInv, JobInv, BlockedBySSH
    <2>5. Exclusive'
      BY <1>20 DEF SaveCheckpoint, HostInv, StageResults, Policies, Exclusive, JobInv, AdmissionInv, BlockedBySSH
    <2>6. HostInv'
      BY <1>20 DEF SaveCheckpoint, HostInv, StageResults, Policies, HostChangeIsOwned, JobInv, Exclusive, Settled
    <2>7. ProofInv'
      BY <1>20 DEF SaveCheckpoint, ProofInv, JobInv
    <2>8. PolicyInv'
      BY <1>20 DEF SaveCheckpoint, PolicyInv, SettledHostRunsPolicy, HostInv, JobInv, AdmissionInv, BlockedBySSH, Exclusive, StageResults, Policies
    <2> QED
      BY <2>1, <2>2, <2>3, <2>4, <2>5, <2>6, <2>7, <2>8
  <1>21. CASE MarkStaged
    <2>1. TypeOK'
      BY <1>21 DEF MarkStaged, AdvanceTo, Advance, JobInv, Policies, StageResults
    <2>2. JobInv'
      BY <1>21 DEF MarkStaged, AdvanceTo, Advance, JobInv
    <2>3. ReleaseInv'
      BY <1>21 DEF MarkStaged, AdvanceTo, Advance, ReleaseInv, JobInv, Debts
    <2>4. AdmissionInv'
      BY <1>21 DEF MarkStaged, AdvanceTo, Advance, AdmissionInv, JobInv, BlockedBySSH
    <2>5. Exclusive'
      BY <1>21 DEF MarkStaged, AdvanceTo, Advance, Exclusive, JobInv, AdmissionInv, BlockedBySSH
    <2>6. HostInv'
      BY <1>21 DEF MarkStaged, AdvanceTo, Advance, HostInv, HostChangeIsOwned, JobInv, Exclusive, Settled, StageResults, Policies
    <2>7. ProofInv'
      BY <1>21 DEF MarkStaged, AdvanceTo, Advance, ProofInv, JobInv
    <2>8. PolicyInv'
      BY <1>21 DEF MarkStaged, AdvanceTo, Advance, PolicyInv, SettledHostRunsPolicy, HostInv, JobInv, AdmissionInv, BlockedBySSH, Exclusive, StageResults, Policies
    <2> QED
      BY <2>1, <2>2, <2>3, <2>4, <2>5, <2>6, <2>7, <2>8
  <1>22. CASE ValidateManagedPolicy
    <2>1. job.op \in Operations
      BY <1>22 DEF ValidateManagedPolicy, JobInv
    <2>2. PICK valid \in BOOLEAN : Mutate(job.op, 2, valid, host,
                retained, "validated", "rollback")
      BY <1>22 DEF ValidateManagedPolicy
    <2>3. /\ job' \in [call : {job.call}, op : {job.op}, at : {"validated", "rollback"}, timely : {job.timely}]
          /\ host' \in {host, host}
          /\ retained' \in {retained, retained}
          /\ job'.at = "validated" => retained' = retained
      BY <2>2 DEF Mutate
    <2>4. fence' \in Nat /\ unresolved' \in BOOLEAN /\ faults' \in Nat
      BY <2>1, <2>2 DEF Mutate, Sequence
    <2>5. job.at = "validate" /\ UNCHANGED <<row, admission, clock, others, up, crashes, history>>
      BY <1>22 DEF ValidateManagedPolicy
    <2>6. TypeOK'
      BY <2>1, <2>3, <2>4, <2>5 DEF JobInv, Policies, StageResults
    <2>7. JobInv'
      BY <2>1, <2>3, <2>4, <2>5 DEF JobInv
    <2>8. ReleaseInv'
      BY <2>1, <2>3, <2>4, <2>5 DEF ReleaseInv, JobInv, Debts
    <2>9. AdmissionInv'
      BY <2>1, <2>3, <2>4, <2>5 DEF AdmissionInv, JobInv, BlockedBySSH
    <2>10. Exclusive'
      BY <2>1, <2>3, <2>4, <2>5 DEF Exclusive, JobInv, AdmissionInv, BlockedBySSH
    <2>11. HostInv'
      BY <2>1, <2>3, <2>4, <2>5 DEF HostInv, HostChangeIsOwned, JobInv, Exclusive, Settled, StageResults, Policies
    <2>12. ProofInv'
      BY <2>1, <2>3, <2>4, <2>5 DEF ProofInv, JobInv
    <2>13. PolicyInv'
      BY <2>1, <2>3, <2>4, <2>5 DEF PolicyInv, SettledHostRunsPolicy, HostInv, JobInv, AdmissionInv, BlockedBySSH, Exclusive, StageResults, Policies
    <2> QED
      BY <2>6, <2>7, <2>8, <2>9, <2>10, <2>11, <2>12, <2>13
  <1>23. CASE MarkValidated
    <2>1. TypeOK'
      BY <1>23 DEF MarkValidated, AdvanceTo, Advance, JobInv, Policies, StageResults
    <2>2. JobInv'
      BY <1>23 DEF MarkValidated, AdvanceTo, Advance, JobInv
    <2>3. ReleaseInv'
      BY <1>23 DEF MarkValidated, AdvanceTo, Advance, ReleaseInv, JobInv, Debts
    <2>4. AdmissionInv'
      BY <1>23 DEF MarkValidated, AdvanceTo, Advance, AdmissionInv, JobInv, BlockedBySSH
    <2>5. Exclusive'
      BY <1>23 DEF MarkValidated, AdvanceTo, Advance, Exclusive, JobInv, AdmissionInv, BlockedBySSH
    <2>6. HostInv'
      BY <1>23 DEF MarkValidated, AdvanceTo, Advance, HostInv, HostChangeIsOwned, JobInv, Exclusive, Settled, StageResults, Policies
    <2>7. ProofInv'
      BY <1>23 DEF MarkValidated, AdvanceTo, Advance, ProofInv, JobInv
    <2>8. PolicyInv'
      BY <1>23 DEF MarkValidated, AdvanceTo, Advance, PolicyInv, SettledHostRunsPolicy, HostInv, JobInv, AdmissionInv, BlockedBySSH, Exclusive, StageResults, Policies
    <2> QED
      BY <2>1, <2>2, <2>3, <2>4, <2>5, <2>6, <2>7, <2>8
  <1>24. CASE MarkReloadPending
    <2>1. TypeOK'
      BY <1>24 DEF MarkReloadPending, AdvanceTo, Advance, JobInv, Policies, StageResults
    <2>2. JobInv'
      BY <1>24 DEF MarkReloadPending, AdvanceTo, Advance, JobInv
    <2>3. ReleaseInv'
      BY <1>24 DEF MarkReloadPending, AdvanceTo, Advance, ReleaseInv, JobInv, Debts
    <2>4. AdmissionInv'
      BY <1>24 DEF MarkReloadPending, AdvanceTo, Advance, AdmissionInv, JobInv, BlockedBySSH
    <2>5. Exclusive'
      BY <1>24 DEF MarkReloadPending, AdvanceTo, Advance, Exclusive, JobInv, AdmissionInv, BlockedBySSH
    <2>6. HostInv'
      BY <1>24 DEF MarkReloadPending, AdvanceTo, Advance, HostInv, HostChangeIsOwned, JobInv, Exclusive, Settled, StageResults, Policies
    <2>7. ProofInv'
      BY <1>24 DEF MarkReloadPending, AdvanceTo, Advance, ProofInv, JobInv
    <2>8. PolicyInv'
      BY <1>24 DEF MarkReloadPending, AdvanceTo, Advance, PolicyInv, SettledHostRunsPolicy, HostInv, JobInv, AdmissionInv, BlockedBySSH, Exclusive, StageResults, Policies
    <2> QED
      BY <2>1, <2>2, <2>3, <2>4, <2>5, <2>6, <2>7, <2>8
  <1>25. CASE ReloadSelectedService
    <2>1. job.op \in Operations
      BY <1>25 DEF ReloadSelectedService, JobInv
    <2>2. Mutate(job.op, 3, TRUE, [host EXCEPT !.loaded = host.artifact],
                retained, "challenge", "rollback")
      BY <1>25 DEF ReloadSelectedService
    <2>3. /\ job' \in [call : {job.call}, op : {job.op}, at : {"challenge", "rollback"}, timely : {job.timely}]
          /\ host' \in {host, [host EXCEPT !.loaded = host.artifact]}
          /\ retained' \in {retained, retained}
          /\ job'.at = "challenge" => retained' = retained
      BY <2>2 DEF Mutate
    <2>4. fence' \in Nat /\ unresolved' \in BOOLEAN /\ faults' \in Nat
      BY <2>1, <2>2 DEF Mutate, Sequence
    <2>5. job.at = "reload" /\ UNCHANGED <<row, admission, clock, others, up, crashes, history>>
      BY <1>25 DEF ReloadSelectedService
    <2>6. TypeOK'
      BY <2>1, <2>3, <2>4, <2>5 DEF JobInv, Policies, StageResults
    <2>7. JobInv'
      BY <2>1, <2>3, <2>4, <2>5 DEF JobInv
    <2>8. ReleaseInv'
      BY <2>1, <2>3, <2>4, <2>5 DEF ReleaseInv, JobInv, Debts
    <2>9. AdmissionInv'
      BY <2>1, <2>3, <2>4, <2>5 DEF AdmissionInv, JobInv, BlockedBySSH
    <2>10. Exclusive'
      BY <2>1, <2>3, <2>4, <2>5 DEF Exclusive, JobInv, AdmissionInv, BlockedBySSH
    <2>11. HostInv'
      BY <2>1, <2>3, <2>4, <2>5 DEF HostInv, HostChangeIsOwned, JobInv, Exclusive, Settled, StageResults, Policies
    <2>12. ProofInv'
      BY <2>1, <2>3, <2>4, <2>5 DEF ProofInv, JobInv
    <2>13. PolicyInv'
      BY <2>1, <2>3, <2>4, <2>5 DEF PolicyInv, SettledHostRunsPolicy, HostInv, JobInv, AdmissionInv, BlockedBySSH, Exclusive, StageResults, Policies
    <2> QED
      BY <2>6, <2>7, <2>8, <2>9, <2>10, <2>11, <2>12, <2>13
  <1>26. CASE SaveChallenge
    <2>1. TypeOK'
      BY <1>26 DEF SaveChallenge, JobInv, Policies, StageResults
    <2>2. JobInv'
      BY <1>26 DEF SaveChallenge, JobInv
    <2>3. ReleaseInv'
      BY <1>26 DEF SaveChallenge, ReleaseInv, JobInv, Debts
    <2>4. AdmissionInv'
      BY <1>26 DEF SaveChallenge, AdmissionInv, JobInv, BlockedBySSH
    <2>5. Exclusive'
      BY <1>26 DEF SaveChallenge, Exclusive, JobInv, AdmissionInv, BlockedBySSH
    <2>6. HostInv'
      BY <1>26 DEF SaveChallenge, HostInv, HostChangeIsOwned, JobInv, Exclusive, Settled, StageResults, Policies
    <2>7. ProofInv'
      BY <1>26 DEF SaveChallenge, ProofInv, JobInv
    <2>8. PolicyInv'
      <3>1. \A o \in Operations : row'[o].state = row[o].state /\ row'[o].checkpoint = row[o].checkpoint
        BY <1>26 DEF SaveChallenge, JobInv
      <3>2. job'.at \in {"arm", "rollback"} /\ UNCHANGED <<host, retained, policy>>
        BY <1>26 DEF SaveChallenge
      <3> QED
        BY <3>1, <3>2 DEF PolicyInv, SettledHostRunsPolicy, StageResults
    <2> QED
      BY <2>1, <2>2, <2>3, <2>4, <2>5, <2>6, <2>7, <2>8
  <1>27. CASE ArmReconnect
    <2>1. job.op \in Operations
      BY <1>27 DEF ArmReconnect, JobInv
    <2>2. Mutate(job.op, 4, TRUE, host,
                retained, "reconnect", "rollback")
      BY <1>27 DEF ArmReconnect
    <2>3. /\ job' \in [call : {job.call}, op : {job.op}, at : {"reconnect", "rollback"}, timely : {job.timely}]
          /\ host' \in {host, host}
          /\ retained' \in {retained, retained}
          /\ job'.at = "reconnect" => retained' = retained
      BY <2>2 DEF Mutate
    <2>4. fence' \in Nat /\ unresolved' \in BOOLEAN /\ faults' \in Nat
      BY <2>1, <2>2 DEF Mutate, Sequence
    <2>5. job.at = "arm" /\ UNCHANGED <<row, admission, clock, others, up, crashes, history>>
      BY <1>27 DEF ArmReconnect
    <2>6. TypeOK'
      BY <2>1, <2>3, <2>4, <2>5 DEF JobInv, Policies, StageResults
    <2>7. JobInv'
      BY <2>1, <2>3, <2>4, <2>5 DEF JobInv
    <2>8. ReleaseInv'
      BY <2>1, <2>3, <2>4, <2>5 DEF ReleaseInv, JobInv, Debts
    <2>9. AdmissionInv'
      BY <2>1, <2>3, <2>4, <2>5 DEF AdmissionInv, JobInv, BlockedBySSH
    <2>10. Exclusive'
      BY <2>1, <2>3, <2>4, <2>5 DEF Exclusive, JobInv, AdmissionInv, BlockedBySSH
    <2>11. HostInv'
      BY <2>1, <2>3, <2>4, <2>5 DEF HostInv, HostChangeIsOwned, JobInv, Exclusive, Settled, StageResults, Policies
    <2>12. ProofInv'
      BY <2>1, <2>3, <2>4, <2>5 DEF ProofInv, JobInv
    <2>13. PolicyInv'
      BY <2>1, <2>3, <2>4, <2>5 DEF PolicyInv, SettledHostRunsPolicy, HostInv, JobInv, AdmissionInv, BlockedBySSH, Exclusive, StageResults, Policies
    <2> QED
      BY <2>6, <2>7, <2>8, <2>9, <2>10, <2>11, <2>12, <2>13
  <1>28. CASE RequireReconnect
    <2>1. TypeOK'
      BY <1>28 DEF RequireReconnect, AdvanceTo, Advance, JobInv, Policies, StageResults
    <2>2. JobInv'
      BY <1>28 DEF RequireReconnect, AdvanceTo, Advance, JobInv
    <2>3. ReleaseInv'
      BY <1>28 DEF RequireReconnect, AdvanceTo, Advance, ReleaseInv, JobInv, Debts
    <2>4. AdmissionInv'
      BY <1>28 DEF RequireReconnect, AdvanceTo, Advance, AdmissionInv, JobInv, BlockedBySSH
    <2>5. Exclusive'
      BY <1>28 DEF RequireReconnect, AdvanceTo, Advance, Exclusive, JobInv, AdmissionInv, BlockedBySSH
    <2>6. HostInv'
      BY <1>28 DEF RequireReconnect, AdvanceTo, Advance, HostInv, HostChangeIsOwned, JobInv, Exclusive, Settled, StageResults, Policies
    <2>7. ProofInv'
      BY <1>28 DEF RequireReconnect, AdvanceTo, Advance, ProofInv, JobInv
    <2>8. PolicyInv'
      BY <1>28 DEF RequireReconnect, AdvanceTo, Advance, PolicyInv, SettledHostRunsPolicy, HostInv, JobInv, AdmissionInv, BlockedBySSH, Exclusive, StageResults, Policies
    <2> QED
      BY <2>1, <2>2, <2>3, <2>4, <2>5, <2>6, <2>7, <2>8
  <1>29. CASE RequireManualRecovery
    <2>1. TypeOK'
      BY <1>29 DEF RequireManualRecovery, AdvanceTo, Advance, JobInv, Policies, StageResults
    <2>2. JobInv'
      BY <1>29 DEF RequireManualRecovery, AdvanceTo, Advance, JobInv
    <2>3. ReleaseInv'
      BY <1>29 DEF RequireManualRecovery, AdvanceTo, Advance, ReleaseInv, JobInv, Debts
    <2>4. AdmissionInv'
      BY <1>29 DEF RequireManualRecovery, AdvanceTo, Advance, AdmissionInv, JobInv, BlockedBySSH
    <2>5. Exclusive'
      BY <1>29 DEF RequireManualRecovery, AdvanceTo, Advance, Exclusive, JobInv, AdmissionInv, BlockedBySSH
    <2>6. HostInv'
      BY <1>29 DEF RequireManualRecovery, AdvanceTo, Advance, HostInv, HostChangeIsOwned, JobInv, Exclusive, Settled, StageResults, Policies
    <2>7. ProofInv'
      BY <1>29 DEF RequireManualRecovery, AdvanceTo, Advance, ProofInv, JobInv
    <2>8. PolicyInv'
      BY <1>29 DEF RequireManualRecovery, AdvanceTo, Advance, PolicyInv, SettledHostRunsPolicy, HostInv, JobInv, AdmissionInv, BlockedBySSH, Exclusive, StageResults, Policies
    <2> QED
      BY <2>1, <2>2, <2>3, <2>4, <2>5, <2>6, <2>7, <2>8
  <1>30. CASE VerifyReconnect
    <2>1. job.op \in Operations
      BY <1>30 DEF VerifyReconnect, JobInv
    <2>2. PICK fresh \in BOOLEAN : Mutate(job.op, 6, fresh, host,
                retained, "inspect", "return")
      BY <1>30 DEF VerifyReconnect
    <2>3. /\ job' \in [call : {job.call}, op : {job.op}, at : {"inspect", "return"}, timely : {job.timely}]
          /\ host' \in {host, host}
          /\ retained' \in {retained, retained}
          /\ job'.at = "inspect" => retained' = retained
      BY <2>2 DEF Mutate
    <2>4. fence' \in Nat /\ unresolved' \in BOOLEAN /\ faults' \in Nat
      BY <2>1, <2>2 DEF Mutate, Sequence
    <2>5. job.at = "verify" /\ UNCHANGED <<row, admission, clock, others, up, crashes, policy>>
      BY <1>30 DEF VerifyReconnect
    <2>6. proven' = IF job'.at = "inspect" /\ clock[job.op] = "open" THEN proven \union {job.op} ELSE proven
      BY <1>30 DEF VerifyReconnect
    <2>7. TypeOK'
      BY <2>1, <2>3, <2>4, <2>5, <2>6 DEF JobInv, Policies, StageResults
    <2>8. JobInv'
      BY <2>1, <2>3, <2>4, <2>5 DEF JobInv
    <2>9. ReleaseInv'
      BY <2>1, <2>3, <2>4, <2>5 DEF ReleaseInv, JobInv, Debts
    <2>10. AdmissionInv'
      BY <2>1, <2>3, <2>4, <2>5 DEF AdmissionInv, JobInv, BlockedBySSH
    <2>11. Exclusive'
      BY <2>1, <2>3, <2>4, <2>5 DEF Exclusive, JobInv, AdmissionInv, BlockedBySSH
    <2>12. HostInv'
      BY <2>1, <2>3, <2>4, <2>5 DEF HostInv, HostChangeIsOwned, JobInv, Exclusive, Settled, StageResults, Policies
    <2>13. ProofInv'
      BY <2>1, <2>3, <2>4, <2>5, <2>6 DEF ProofInv, JobInv
    <2>14. PolicyInv'
      BY <2>1, <2>3, <2>4, <2>5 DEF PolicyInv, SettledHostRunsPolicy, HostInv, JobInv, AdmissionInv, BlockedBySSH, Exclusive, StageResults, Policies
    <2> QED
      BY <2>7, <2>8, <2>9, <2>10, <2>11, <2>12, <2>13, <2>14
  <1>31. CASE InspectBeforeCommit
    <2>1. job.at = "inspect" /\ job.op \in Operations
      BY <1>31 DEF InspectBeforeCommit, JobInv
    <2>2. UNCHANGED <<row, admission, broker, clock, others, up, crashes, history>> /\ faults' \in Nat
      BY <1>31 DEF InspectBeforeCommit
    <2>3. job' \in [call : {job.call}, op : {job.op}, at : {"commit", "rollback"}, timely : BOOLEAN]
      <3>1. CASE job' = [job EXCEPT !.at = "commit", !.timely = clock[job.op] = "open"]
        <4>1. (clock[job.op] = "open") \in BOOLEAN
          OBVIOUS
        <4> DEFINE t == clock[job.op] = "open"
        <4>2. job' = [job EXCEPT !.at = "commit", !.timely = t] /\ t \in BOOLEAN
          BY <3>1, <4>1
        <4> HIDE DEF t
        <4> QED
          BY <4>2
      <3>2. CASE job' = [job EXCEPT !.at = "rollback"]
        BY <3>2
      <3> QED
        BY <1>31, <3>1, <3>2 DEF InspectBeforeCommit
    <2>4. job'.at = "commit" => host = [artifact |-> job.op, loaded |-> job.op]
      BY <1>31 DEF InspectBeforeCommit
    <2>5. job'.at = "commit" /\ job'.timely => clock[job.op] = "open"
      BY <1>31 DEF InspectBeforeCommit
    <2>6. proven' = proven
      BY <2>2
    <2>7. job'.op = job.op /\ job'.at \in {"commit", "rollback"}
      BY <2>3
    <2>8. TypeOK'
      BY <2>1, <2>2, <2>3, <2>4 DEF JobInv, Policies, StageResults
    <2>9. JobInv'
      BY <2>1, <2>2, <2>3, <2>4 DEF JobInv
    <2>10. ReleaseInv'
      BY <2>1, <2>2, <2>3, <2>4 DEF ReleaseInv, JobInv, Debts
    <2>11. AdmissionInv'
      BY <2>1, <2>2, <2>3, <2>4 DEF AdmissionInv, JobInv, BlockedBySSH
    <2>12. Exclusive'
      BY <2>1, <2>2, <2>3, <2>4 DEF Exclusive
    <2>13. HostInv'
      <3>1. job'.at = "commit" => host' = [artifact |-> job'.op, loaded |-> job'.op]
        BY <2>2, <2>4, <2>7
      <3> QED
        BY <3>1, <2>2, <2>7 DEF HostInv, HostChangeIsOwned, Settled, StageResults
    <2>14. ProofInv'
      <3>1. clock[job.op] = "open" => job.op \in proven
        BY <2>1 DEF ProofInv
      <3>2. job'.at = "commit" /\ job'.timely => job'.op \in proven'
        BY <2>7, <2>5, <2>6, <3>1, Zenon
      <3> QED
        BY <3>2, <2>7 DEF ProofInv
    <2>15. PolicyInv'
      BY <2>1, <2>2, <2>3, <2>4 DEF PolicyInv, SettledHostRunsPolicy, StageResults
    <2> QED
      BY <2>8, <2>9, <2>10, <2>11, <2>12, <2>13, <2>14, <2>15
  <1>32. CASE CommitCandidate
    <2>1. TypeOK'
      BY <1>32 DEF CommitCandidate, Commit, Debts, JobInv, Policies, StageResults
    <2>2. JobInv'
      BY <1>32 DEF CommitCandidate, Commit, Debts, JobInv
    <2>3. ReleaseInv'
      BY <1>32 DEF CommitCandidate, Commit, Debts, ReleaseInv, JobInv
    <2>4. AdmissionInv'
      BY <1>32 DEF CommitCandidate, Commit, Debts, AdmissionInv, JobInv, BlockedBySSH
    <2>5. Exclusive'
      BY <1>32 DEF CommitCandidate, Commit, Debts, Exclusive, JobInv, AdmissionInv, BlockedBySSH
    <2>6. HostInv'
      BY <1>32 DEF CommitCandidate, Commit, Debts, HostInv, HostChangeIsOwned, JobInv, Exclusive, Settled, StageResults, Policies
    <2>7. ProofInv'
      BY <1>32 DEF CommitCandidate, Commit, Debts, ProofInv, JobInv
    <2>8. PolicyInv'
      BY <1>32 DEF CommitCandidate, Commit, Debts, PolicyInv, SettledHostRunsPolicy, HostInv, JobInv, AdmissionInv, BlockedBySSH, Exclusive, StageResults, Policies
    <2> QED
      BY <2>1, <2>2, <2>3, <2>4, <2>5, <2>6, <2>7, <2>8
  <1>33. CASE BeginRollback
    <2>1. TypeOK'
      BY <1>33 DEF BeginRollback, Advance, CanRollBack, JobInv, Policies, StageResults
    <2>2. JobInv'
      BY <1>33 DEF BeginRollback, Advance, CanRollBack, JobInv
    <2>3. ReleaseInv'
      BY <1>33 DEF BeginRollback, Advance, CanRollBack, ReleaseInv, JobInv, Debts
    <2>4. AdmissionInv'
      BY <1>33 DEF BeginRollback, Advance, CanRollBack, AdmissionInv, JobInv, BlockedBySSH
    <2>5. Exclusive'
      BY <1>33 DEF BeginRollback, Advance, CanRollBack, Exclusive, JobInv, AdmissionInv, BlockedBySSH
    <2>6. HostInv'
      BY <1>33 DEF BeginRollback, Advance, CanRollBack, HostInv, HostChangeIsOwned, JobInv, Exclusive, Settled, StageResults, Policies
    <2>7. ProofInv'
      BY <1>33 DEF BeginRollback, Advance, CanRollBack, ProofInv, JobInv
    <2>8. PolicyInv'
      BY <1>33 DEF BeginRollback, Advance, CanRollBack, PolicyInv, SettledHostRunsPolicy, HostInv, JobInv, AdmissionInv, BlockedBySSH, Exclusive, StageResults, Policies
    <2> QED
      BY <2>1, <2>2, <2>3, <2>4, <2>5, <2>6, <2>7, <2>8
  <1>34. CASE CountAttempt
    <2>1. TypeOK'
      BY <1>34 DEF CountAttempt, JobInv, Policies, StageResults
    <2>2. JobInv'
      BY <1>34 DEF CountAttempt, JobInv
    <2>3. ReleaseInv'
      BY <1>34 DEF CountAttempt, ReleaseInv, JobInv, Debts
    <2>4. AdmissionInv'
      BY <1>34 DEF CountAttempt, AdmissionInv, JobInv, BlockedBySSH
    <2>5. Exclusive'
      BY <1>34 DEF CountAttempt, Exclusive, JobInv, AdmissionInv, BlockedBySSH
    <2>6. HostInv'
      BY <1>34 DEF CountAttempt, HostInv, HostChangeIsOwned, JobInv, Exclusive, Settled, StageResults, Policies
    <2>7. ProofInv'
      BY <1>34 DEF CountAttempt, ProofInv, JobInv
    <2>8. PolicyInv'
      BY <1>34 DEF CountAttempt, PolicyInv, SettledHostRunsPolicy, HostInv, JobInv, AdmissionInv, BlockedBySSH, Exclusive, StageResults, Policies
    <2> QED
      BY <2>1, <2>2, <2>3, <2>4, <2>5, <2>6, <2>7, <2>8
  <1>35. CASE RestoreManagedPolicy
    <2>1. job.op \in Operations /\ row[job.op].checkpoint \in Policies
      BY <1>35 DEF RestoreManagedPolicy, JobInv
    <2>2. Mutate(job.op, 5, retained = [op |-> job.op, prior |-> row[job.op].checkpoint] /\ host.artifact = job.op, [host EXCEPT !.artifact = row[job.op].checkpoint],
                None, "recoveryreload", "manual")
      BY <1>35 DEF RestoreManagedPolicy
    <2>3. /\ job' \in [call : {job.call}, op : {job.op}, at : {"recoveryreload", "manual"}, timely : {job.timely}]
          /\ host' \in {host, [host EXCEPT !.artifact = row[job.op].checkpoint]}
          /\ retained' \in {retained, None}
          /\ job'.at = "recoveryreload" => retained' = None
      BY <2>2 DEF Mutate
    <2>4. fence' \in Nat /\ unresolved' \in BOOLEAN /\ faults' \in Nat
      BY <2>1, <2>2 DEF Mutate, Sequence
    <2>5. job.at = "restore" /\ UNCHANGED <<row, admission, clock, others, up, crashes, history>>
      BY <1>35 DEF RestoreManagedPolicy
    <2>6. TypeOK'
      BY <2>1, <2>3, <2>4, <2>5 DEF JobInv, Policies, StageResults
    <2>7. JobInv'
      BY <2>1, <2>3, <2>4, <2>5 DEF JobInv
    <2>8. ReleaseInv'
      BY <2>1, <2>3, <2>4, <2>5 DEF ReleaseInv, JobInv, Debts
    <2>9. AdmissionInv'
      BY <2>1, <2>3, <2>4, <2>5 DEF AdmissionInv, JobInv, BlockedBySSH
    <2>10. Exclusive'
      BY <2>1, <2>3, <2>4, <2>5 DEF Exclusive, JobInv, AdmissionInv, BlockedBySSH
    <2>11. HostInv'
      BY <2>1, <2>3, <2>4, <2>5 DEF HostInv, HostChangeIsOwned, JobInv, Exclusive, Settled, StageResults, Policies
    <2>12. ProofInv'
      BY <2>1, <2>3, <2>4, <2>5 DEF ProofInv, JobInv
    <2>13. PolicyInv'
      BY <2>1, <2>3, <2>4, <2>5 DEF PolicyInv, SettledHostRunsPolicy, HostInv, JobInv, AdmissionInv, BlockedBySSH, Exclusive, StageResults, Policies
    <2> QED
      BY <2>6, <2>7, <2>8, <2>9, <2>10, <2>11, <2>12, <2>13
  <1>36. CASE RecoveryReload
    <2>1. job.op \in Operations
      BY <1>36 DEF RecoveryReload, JobInv
    <2>2. Mutate(job.op, 7, TRUE, [host EXCEPT !.loaded = host.artifact],
                retained, "exact", "manual")
      BY <1>36 DEF RecoveryReload
    <2>3. /\ job' \in [call : {job.call}, op : {job.op}, at : {"exact", "manual"}, timely : {job.timely}]
          /\ host' \in {host, [host EXCEPT !.loaded = host.artifact]}
          /\ retained' \in {retained, retained}
          /\ job'.at = "exact" => retained' = retained
      BY <2>2 DEF Mutate
    <2>4. fence' \in Nat /\ unresolved' \in BOOLEAN /\ faults' \in Nat
      BY <2>1, <2>2 DEF Mutate, Sequence
    <2>5. job.at = "recoveryreload" /\ UNCHANGED <<row, admission, clock, others, up, crashes, history>>
      BY <1>36 DEF RecoveryReload
    <2>6. TypeOK'
      BY <2>1, <2>3, <2>4, <2>5 DEF JobInv, Policies, StageResults
    <2>7. JobInv'
      BY <2>1, <2>3, <2>4, <2>5 DEF JobInv
    <2>8. ReleaseInv'
      BY <2>1, <2>3, <2>4, <2>5 DEF ReleaseInv, JobInv, Debts
    <2>9. AdmissionInv'
      BY <2>1, <2>3, <2>4, <2>5 DEF AdmissionInv, JobInv, BlockedBySSH
    <2>10. Exclusive'
      BY <2>1, <2>3, <2>4, <2>5 DEF Exclusive, JobInv, AdmissionInv, BlockedBySSH
    <2>11. HostInv'
      BY <2>1, <2>3, <2>4, <2>5 DEF HostInv, HostChangeIsOwned, JobInv, Exclusive, Settled, StageResults, Policies
    <2>12. ProofInv'
      BY <2>1, <2>3, <2>4, <2>5 DEF ProofInv, JobInv
    <2>13. PolicyInv'
      BY <2>1, <2>3, <2>4, <2>5 DEF PolicyInv, SettledHostRunsPolicy, HostInv, JobInv, AdmissionInv, BlockedBySSH, Exclusive, StageResults, Policies
    <2> QED
      BY <2>6, <2>7, <2>8, <2>9, <2>10, <2>11, <2>12, <2>13
  <1>37. CASE VerifyRestored
    <2>1. TypeOK'
      BY <1>37 DEF VerifyRestored, JobInv, Policies, StageResults
    <2>2. JobInv'
      BY <1>37 DEF VerifyRestored, JobInv
    <2>3. ReleaseInv'
      BY <1>37 DEF VerifyRestored, ReleaseInv, JobInv, Debts
    <2>4. AdmissionInv'
      BY <1>37 DEF VerifyRestored, AdmissionInv, JobInv, BlockedBySSH
    <2>5. Exclusive'
      BY <1>37 DEF VerifyRestored, Exclusive, JobInv, AdmissionInv, BlockedBySSH
    <2>6. HostInv'
      BY <1>37 DEF VerifyRestored, HostInv, HostChangeIsOwned, JobInv, Exclusive, Settled, StageResults, Policies
    <2>7. ProofInv'
      BY <1>37 DEF VerifyRestored, ProofInv, JobInv
    <2>8. PolicyInv'
      BY <1>37 DEF VerifyRestored, PolicyInv, SettledHostRunsPolicy, HostInv, JobInv, AdmissionInv, BlockedBySSH, Exclusive, StageResults, Policies
    <2> QED
      BY <2>1, <2>2, <2>3, <2>4, <2>5, <2>6, <2>7, <2>8
  <1>38. CASE ReconcileActive
    <2> DEFINE next == {"rollback", "return", "manual", "recoverstaged", "recovercheckpoint"}
    <2>1. CASE ActiveCandidates = {}
      <3>1. TypeOK'
        BY <1>38, <2>1 DEF ReconcileActive, JobInv, Policies, StageResults
      <3>2. JobInv'
        BY <1>38, <2>1 DEF ReconcileActive, JobInv
      <3>3. ReleaseInv'
        BY <1>38, <2>1 DEF ReconcileActive, ReleaseInv, JobInv, Debts
      <3>4. AdmissionInv'
        BY <1>38, <2>1 DEF ReconcileActive, AdmissionInv, JobInv, BlockedBySSH
      <3>5. Exclusive'
        BY <1>38, <2>1 DEF ReconcileActive, Exclusive, JobInv, AdmissionInv, BlockedBySSH
      <3>6. HostInv'
        BY <1>38, <2>1 DEF ReconcileActive, HostInv, HostChangeIsOwned, JobInv, Exclusive, Settled, StageResults, Policies
      <3>7. ProofInv'
        BY <1>38, <2>1 DEF ReconcileActive, ProofInv, JobInv
      <3>8. PolicyInv'
        BY <1>38, <2>1 DEF ReconcileActive, PolicyInv, SettledHostRunsPolicy, HostInv, JobInv, AdmissionInv, BlockedBySSH, Exclusive, StageResults, Policies
      <3> QED
        BY <3>1, <3>2, <3>3, <3>4, <3>5, <3>6, <3>7, <3>8
    <2>2. CASE ActiveCandidates # {}
      <3>1. PICK o \in ActiveCandidates : job' = [job EXCEPT !.op = o, !.at = Resume(o)]
        BY <1>38, <2>2 DEF ReconcileActive
      <3>2. o \in Operations /\ row[o].state \in Active
        BY DEF ActiveCandidates
      <3>3. job' \in [call : {job.call}, op : {o}, at : next, timely : {job.timely}]
        BY <3>1, <3>2, ResumeTarget
      <3>4. /\ job'.at \in {"recoverstaged", "recovercheckpoint"} => row[o].state = "PREFLIGHTED"
            /\ job'.at = "recovercheckpoint" => retained # None /\ retained.op = o
        BY <3>1, <3>2, ResumeTarget
      <3>5. UNCHANGED <<row, admission, broker, faults, clock, others, up, crashes, history>>
        BY <1>38 DEF ReconcileActive
      <3>6. TypeOK'
        BY <3>2, <3>3, <3>4, <3>5 DEF JobInv, Policies, StageResults
      <3>7. JobInv'
        BY <3>2, <3>3, <3>4, <3>5 DEF JobInv
      <3>8. ReleaseInv'
        BY <3>2, <3>3, <3>4, <3>5 DEF ReleaseInv, JobInv, Debts
      <3>9. AdmissionInv'
        BY <3>2, <3>3, <3>4, <3>5 DEF AdmissionInv, JobInv, BlockedBySSH
      <3>10. Exclusive'
        BY <3>2, <3>3, <3>4, <3>5 DEF Exclusive, JobInv, AdmissionInv, BlockedBySSH
      <3>11. HostInv'
        BY <3>2, <3>3, <3>4, <3>5 DEF HostInv, HostChangeIsOwned, JobInv, Exclusive, Settled, StageResults, Policies
      <3>12. ProofInv'
        BY <3>2, <3>3, <3>4, <3>5 DEF ProofInv, JobInv
      <3>13. PolicyInv'
        BY <3>2, <3>3, <3>4, <3>5 DEF PolicyInv, SettledHostRunsPolicy, HostInv, JobInv, AdmissionInv, BlockedBySSH, Exclusive, StageResults, Policies
      <3> QED
        BY <3>6, <3>7, <3>8, <3>9, <3>10, <3>11, <3>12, <3>13
    <2> QED
      BY <2>1, <2>2
  <1>39. CASE RecoverCheckpoint
    <2>1. TypeOK'
      BY <1>39 DEF RecoverCheckpoint, HostInv, StageResults, Policies, JobInv
    <2>2. JobInv'
      BY <1>39 DEF RecoverCheckpoint, HostInv, StageResults, Policies, JobInv
    <2>3. ReleaseInv'
      BY <1>39 DEF RecoverCheckpoint, HostInv, StageResults, Policies, ReleaseInv, JobInv, Debts
    <2>4. AdmissionInv'
      BY <1>39 DEF RecoverCheckpoint, HostInv, StageResults, Policies, AdmissionInv, JobInv, BlockedBySSH
    <2>5. Exclusive'
      BY <1>39 DEF RecoverCheckpoint, HostInv, StageResults, Policies, Exclusive, JobInv, AdmissionInv, BlockedBySSH
    <2>6. HostInv'
      BY <1>39 DEF RecoverCheckpoint, HostInv, StageResults, Policies, HostChangeIsOwned, JobInv, Exclusive, Settled
    <2>7. ProofInv'
      BY <1>39 DEF RecoverCheckpoint, ProofInv, JobInv
    <2>8. PolicyInv'
      BY <1>39 DEF RecoverCheckpoint, PolicyInv, SettledHostRunsPolicy, HostInv, JobInv, AdmissionInv, BlockedBySSH, Exclusive, StageResults, Policies
    <2> QED
      BY <2>1, <2>2, <2>3, <2>4, <2>5, <2>6, <2>7, <2>8
  <1>40. CASE RecoverStaged
    <2>1. TypeOK'
      BY <1>40 DEF RecoverStaged, AdvanceTo, Advance, JobInv, Policies, StageResults
    <2>2. JobInv'
      BY <1>40 DEF RecoverStaged, AdvanceTo, Advance, JobInv
    <2>3. ReleaseInv'
      BY <1>40 DEF RecoverStaged, AdvanceTo, Advance, ReleaseInv, JobInv, Debts
    <2>4. AdmissionInv'
      BY <1>40 DEF RecoverStaged, AdvanceTo, Advance, AdmissionInv, JobInv, BlockedBySSH
    <2>5. Exclusive'
      BY <1>40 DEF RecoverStaged, AdvanceTo, Advance, Exclusive, JobInv, AdmissionInv, BlockedBySSH
    <2>6. HostInv'
      BY <1>40 DEF RecoverStaged, AdvanceTo, Advance, HostInv, HostChangeIsOwned, JobInv, Exclusive, Settled, StageResults, Policies
    <2>7. ProofInv'
      BY <1>40 DEF RecoverStaged, AdvanceTo, Advance, ProofInv, JobInv
    <2>8. PolicyInv'
      BY <1>40 DEF RecoverStaged, AdvanceTo, Advance, PolicyInv, SettledHostRunsPolicy, HostInv, JobInv, AdmissionInv, BlockedBySSH, Exclusive, StageResults, Policies
    <2> QED
      BY <2>1, <2>2, <2>3, <2>4, <2>5, <2>6, <2>7, <2>8
  <1> QED
    BY <1>1, <1>2, <1>3, <1>4, <1>5, <1>6, <1>7, <1>8, <1>9, <1>10, <1>11, <1>12, <1>13, <1>14, <1>15, <1>16, <1>17, <1>18, <1>19, <1>20, <1>21, <1>22, <1>23, <1>24, <1>25, <1>26, <1>27, <1>28, <1>29, <1>30, <1>31, <1>32, <1>33, <1>34, <1>35, <1>36, <1>37, <1>38, <1>39, <1>40 DEF Next, JobSteps

-----------------------------------------------------------------------------
(* The invariant holds before the first operation. *)
LEMMA InitEstablishes == Init => IInv
  <1> SUFFICES ASSUME Init PROVE IInv
    OBVIOUS
  <1> USE DEF Init, Active, Terminal, Steps, NoJob
  <1>1. TypeOK
    <2>1. row \in [Operations -> Rows]
      BY DEF Rows
    <2>2. job \in [call : {None}, op : {None}, at : {None}, timely : {FALSE}] /\ host \in [artifact : Policies, loaded : Policies]
      BY DEF Policies
    <2> QED
      BY <2>1, <2>2 DEF TypeOK
  <1>2. JobInv /\ ReleaseInv
    BY DEF JobInv, ReleaseInv
  <1>3. AdmissionInv /\ Exclusive
    BY DEF AdmissionInv, Exclusive
  <1>4. HostInv
    BY DEF HostInv, HostChangeIsOwned
  <1>5. ProofInv /\ PolicyInv
    BY DEF ProofInv, PolicyInv, SettledHostRunsPolicy
  <1> QED
    BY <1>1, <1>2, <1>3, <1>4, <1>5 DEF IInv

(* The inductive invariant holds whatever fails, expires or crashes. *)
THEOREM SSHInvariant == Spec => []IInv
  <1>1. IInv /\ UNCHANGED vars => IInv'
    BY DEF vars, broker, others, history, ProofInv, PolicyInv, SettledHostRunsPolicy, IInv, TypeOK, JobInv, ReleaseInv, Debts, AdmissionInv, BlockedBySSH, Exclusive,
           HostInv, HostChangeIsOwned, Settled
  <1> QED
    BY InitEstablishes, NextKeeps, <1>1, PTL DEF Spec

(* Rows, lock, fence and host keep to the values the code writes. *)
THEOREM SSHTypeOK == Spec => []TypeOK
  <1>1. IInv => TypeOK
    BY DEF IInv
  <1> QED
    BY <1>1, SSHInvariant, PTL

(* No crash, lost answer or failed write after StageManagedPolicy leaves a  *)
(* drop-in on the host that no row answers for.                             *)
THEOREM SSHHostIsOwned == Spec => []HostChangeIsOwned
  <1>1. IInv => HostChangeIsOwned
    BY DEF IInv, HostInv
  <1> QED
    BY <1>1, SSHInvariant, PTL

(* CheckAdmission and CreateCandidate are two steps, as are the other       *)
(* domain's; under the shared lock one operation at a time is active.       *)
THEOREM SSHOneOperation == Spec => []OneOperationActive
  <1>1. ASSUME IInv PROVE OneOperationActive
    <2>1. CASE ActiveCandidates = {}
      BY <2>1, FS_EmptySet DEF OneOperationActive
    <2>2. CASE ActiveCandidates # {}
      <3>1. PICK o \in ActiveCandidates : TRUE
        BY <2>2
      <3>2. ActiveCandidates = {o}
        BY <1>1, <3>1 DEF IInv, Exclusive, ActiveCandidates
      <3>3. ~otherOp
        BY <1>1, <3>1 DEF IInv, Exclusive, ActiveCandidates
      <3>4. Cardinality(ActiveCandidates) = 1
        BY <3>2, FS_Singleton
      <3> QED
        BY <3>1, <3>3, <3>4 DEF OneOperationActive
    <2> QED
      BY <2>1, <2>2
  <1> QED
    BY <1>1, SSHInvariant, PTL

(* Only CommitCandidate commits an operation, by a clock read in time. *)
LEMMA CommitSteps ==
  ASSUME IInv, Next, NEW o \in Operations, row'[o].state = "COMMITTED", row[o].state # "COMMITTED"
  PROVE  o = job.op /\ At("commit") /\ job.timely
  <1> USE DEF IInv, TypeOK, Rows, At, Rest, Goto
  <1>1. CASE UNCHANGED row
    BY <1>1
  <1>2. CASE CommitCandidate
    BY <1>2 DEF CommitCandidate, Commit
  <1>3. CASE VerifyRestored
    BY <1>3 DEF VerifyRestored
  <1>4. CASE RecordReleased \/ CreateCandidate \/ SaveCheckpoint \/ SaveChallenge \/ RecoverCheckpoint
    BY <1>4 DEF RecordReleased, CreateCandidate, SaveCheckpoint, SaveChallenge, RecoverCheckpoint
  <1>5. CASE Preflight \/ MarkStaged \/ MarkValidated \/ MarkReloadPending \/ RequireReconnect
    BY <1>5 DEF Preflight, MarkStaged, MarkValidated, MarkReloadPending, RequireReconnect, AdvanceTo, Advance
  <1>6. CASE RequireManualRecovery \/ RecoverStaged
    BY <1>6 DEF RequireManualRecovery, RecoverStaged, AdvanceTo, Advance
  <1>7. CASE BeginRollback \/ CountAttempt
    BY <1>7 DEF BeginRollback, CountAttempt, Advance
  <1>8. \/ UNCHANGED row \/ CommitCandidate \/ VerifyRestored
        \/ RecordReleased \/ CreateCandidate \/ SaveCheckpoint \/ SaveChallenge \/ RecoverCheckpoint
        \/ Preflight \/ MarkStaged \/ MarkValidated \/ MarkReloadPending \/ RequireReconnect
        \/ RequireManualRecovery \/ RecoverStaged \/ BeginRollback \/ CountAttempt
    BY DEF Next, JobSteps, Start, Confirm, Rollback, Expire, Call, WatchdogTick, ReconcileStartup, Abandon, Crash,
           OtherAdmits, OtherEnds, manager, ReconcileDebts, ReleaseCompletedStage, EndCall, TakeAdmission,
           CheckAdmission, StageManagedPolicy, ValidateManagedPolicy, ReloadSelectedService, ArmReconnect,
           VerifyReconnect, InspectBeforeCommit, RestoreManagedPolicy, RecoveryReload, ReconcileActive
  <1> QED
    BY <1>1, <1>2, <1>3, <1>4, <1>5, <1>6, <1>7, <1>8

(* CommitCandidate commits what sshd runs with, by a clock read before the  *)
(* deadline: the broker had verified the fresh login by then.               *)
THEOREM SSHCommitIsProven == Spec => CommitIsProvenInTime
  <1> DEFINE Proven ==
        \A o \in Operations : row'[o].state = "COMMITTED" /\ row[o].state # "COMMITTED" =>
          /\ o \in proven /\ row[o].challenge = "issued"
          /\ host = [artifact |-> o, loaded |-> o]
  <1>1. IInv /\ Next => Proven
    BY CommitSteps DEF IInv, JobInv, HostInv, ProofInv, At
  <1>2. IInv /\ UNCHANGED vars => Proven
    BY DEF vars
  <1>3. IInv /\ [Next]_vars => [Proven]_vars
    BY <1>1, <1>2
  <1> QED
    BY <1>3, SSHInvariant, PTL DEF Spec, CommitIsProvenInTime

(* Once every operation is committed or rolled back, disk and service are   *)
(* those of the policy committed last: PolicyInv follows it through stage,  *)
(* checkpoint, the checkpoint rebuilt at startup, and restoration.          *)
THEOREM SSHSettledHost == Spec => []SettledHostRunsPolicy
  <1>1. IInv => SettledHostRunsPolicy
    BY DEF IInv, PolicyInv
  <1> QED
    BY <1>1, SSHInvariant, PTL
=============================================================================
