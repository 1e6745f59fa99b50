---------------------------- MODULE SSHManagement ----------------------------
(* The manager of SSH policies: an operation stages a drop-in on the host   *)
(* through the privileged broker, has it validated and loaded, and commits  *)
(* it when the operator proves a fresh login before a deadline; otherwise   *)
(* it is rolled back by the operator, by the watchdog or at the next start. *)
(* The module composes the manager, its rows in the database, the admission *)
(* shared with the other domains, the fences of the broker's journal and    *)
(* the host.  Posture, endpoints and evidence are left out: what depends on *)
(* them is a choice.                                                        *)
EXTENDS Naturals, FiniteSets

CONSTANTS
  Operations,      \* operations that may be started
  Genesis,         \* the policy of the host before any of them
  None,
  MaxCrashes,      \* bound: crashes of the panel
  MaxFaults        \* bound: failing calls, lost answers, failing writes

ASSUME DistinctAssumption == Genesis \notin Operations /\ None \notin Operations \union {Genesis}
ASSUME BoundAssumption == MaxCrashes \in Nat /\ MaxFaults \in Nat

VARIABLES
  row,             \* per operation: the candidate, its checkpoint and its challenge
  clock,           \* per operation: "open", "late" (the challenge expired), "unsafe" (the whole operation)
  job,             \* the call that holds manager.mu, where it stands, and whether the clock it read was before the deadline
  admission,       \* who holds admissionMu
  otherOp, otherAt,\* an operation of another domain, and the call that admits it
  host,            \* the drop-in on disk and the one sshd runs with
  fence, unresolved, retained,   \* the broker's journal: newest fence, a mutation without outcome, the kept stage result
  up, crashes, faults,
  proven, policy   \* history: operations whose login was verified in time; the policy committed last

manager == <<row, job>>
broker == <<host, fence, unresolved, retained>>
others == <<otherOp, otherAt>>
history == <<proven, policy>>
vars == <<row, clock, job, admission, others, broker, up, crashes, faults, history>>

Active == {"DRAFT", "PREFLIGHTED", "STAGED", "VALIDATED", "RELOAD_PENDING", "RECONNECT_REQUIRED", "ROLLBACK_PENDING"}
Terminal == {"COMMITTED", "ROLLED_BACK", "MANUAL_RECOVERY_REQUIRED"}
CanRollBack == {"STAGED", "VALIDATED", "RELOAD_PENDING", "RECONNECT_REQUIRED"}

(* Where a call stands. *)
Steps ==
  {"debts", "release", "released", "return", "admit", "check", "create", "preflight", "stage", "checkpoint",
   "staged", "validate", "validated", "pending", "reload", "challenge", "arm", "reconnect", "verify", "inspect",
   "commit", "rollback", "attempt", "restore", "recoveryreload", "exact", "manual", "active",
   "recovercheckpoint", "recoverstaged"}

Policies == Operations \union {Genesis}
StageResults == [op : Operations, prior : Policies]

ASSUME NoneIsNoName ==
  /\ None \notin Active \union Terminal \union Steps \union {"ssh", "other", "start"}
  /\ None \notin StageResults

Rows ==
  [state : Active \union Terminal \union {None}, revision : Nat, attempts : 0 .. 1,
   checkpoint : Policies \union {None}, challenge : {None, "issued", "consumed"}, released : BOOLEAN]
NoJob == [call |-> None, op |-> None, at |-> None, timely |-> FALSE]

Init ==
  /\ row = [o \in Operations |-> [state |-> None, revision |-> 0, attempts |-> 0,
                                  checkpoint |-> None, challenge |-> None, released |-> FALSE]]
  /\ clock = [o \in Operations |-> "open"]
  /\ job = NoJob /\ admission = None
  /\ otherOp = FALSE /\ otherAt = None
  /\ host = [artifact |-> Genesis, loaded |-> Genesis]
  /\ fence = 0 /\ unresolved = FALSE /\ retained = None
  /\ up = TRUE /\ crashes = 0 /\ faults = 0
  /\ proven = {} /\ policy = Genesis

(***************************************************************************)
(* Helpers.                                                                *)
(***************************************************************************)
Debts == {o \in Operations : row[o].state = "COMMITTED" /\ ~row[o].released}
ActiveCandidates == {o \in Operations : row[o].state \in Active}

(* Blocker: an operation that waits for manual recovery blocks too. *)
BlockedBySSH == \E o \in Operations : row[o].state \in Active \union {"MANUAL_RECOVERY_REQUIRED"}

Goto(at) == job' = [job EXCEPT !.at = at]
Return == job' = NoJob
Fault == faults < MaxFaults /\ faults' = faults + 1
NoFault == UNCHANGED faults
At(at) == up /\ job.at = at
Rest == UNCHANGED <<clock, others, up, crashes, history>>

(* UpdateCandidateCASWithJournal: the next state and revision. *)
Advance(o, state) == row' = [row EXCEPT ![o].state = state, ![o].revision = @ + 1]

(* A mutation at the broker.  It is refused when an earlier one has no      *)
(* outcome or its fence is not newer than the last.  Otherwise the handler  *)
(* turns it down (~allowed), succeeds, or fails having changed the host or  *)
(* not; the answer may be lost; the broker may die in the handler.          *)
Sequence(o, ordinal) == row[o].revision * 16 + ordinal
Accepts(o, ordinal) == ~unresolved /\ Sequence(o, ordinal) > fence

Mutate(o, ordinal, allowed, newHost, newRetained, onSuccess, onError) ==
  \/ /\ ~Accepts(o, ordinal)
     /\ Goto(onError) /\ NoFault /\ UNCHANGED broker
  \/ /\ Accepts(o, ordinal)
     /\ fence' = Sequence(o, ordinal)
     /\ \/ /\ ~allowed
           /\ Goto(onError) /\ NoFault /\ UNCHANGED <<host, retained, unresolved>>
        \/ /\ allowed
           /\ Goto(onSuccess) /\ NoFault
           /\ host' = newHost /\ retained' = newRetained /\ UNCHANGED unresolved
        \/ /\ allowed
           /\ Goto(onError) /\ Fault
           /\ \/ host' = newHost /\ retained' = newRetained /\ UNCHANGED unresolved
              \/ host' \in {host, newHost} /\ unresolved' \in BOOLEAN /\ UNCHANGED retained

(***************************************************************************)
(* Calls.  One at a time: each holds manager.mu to its end.                *)
(***************************************************************************)
Call(call, o, at) ==
  /\ up /\ job = NoJob
  /\ job' = [call |-> call, op |-> o, at |-> at, timely |-> FALSE]
  /\ UNCHANGED <<row, admission, broker, faults>> /\ Rest

Start(o) == row[o].state = None /\ Call("start", o, "debts")

Confirm(o) ==
  /\ row[o].state = "RECONNECT_REQUIRED" /\ row[o].challenge = "issued" /\ clock[o] = "open"
  /\ Call("confirm", o, "verify")

Rollback(o) == row[o].state \in CanRollBack \union {"ROLLBACK_PENDING"} /\ Call("rollback", o, "rollback")

WatchdogTick == Call("expired", None, "debts")

(* A call ends early: its context is cancelled or the database fails from   *)
(* here on, so that even its own rollback cannot be recorded.               *)
Abandon ==
  /\ up /\ job # NoJob /\ Fault /\ Return
  /\ admission' = IF admission = "ssh" THEN None ELSE admission
  /\ UNCHANGED <<row, broker>> /\ Rest

(* reconcileCompletedStageReleases: what committed operations still hold at *)
(* the broker is released before anything else is done.                     *)
ReconcileDebts ==
  /\ At("debts")
  /\ Goto(IF Debts # {} THEN "release" ELSE IF job.call = "start" THEN "admit" ELSE "active")
  /\ UNCHANGED <<row, admission, broker, faults>> /\ Rest

Debt == CHOOSE o \in Debts : TRUE

ReleaseCompletedStage ==
  /\ At("release")
  /\ Mutate(Debt, 8, retained # None /\ retained.op = Debt, host, None, "released", "return")
  /\ UNCHANGED <<row, admission>> /\ Rest

RecordReleased ==
  /\ At("released")
  /\ row' = [row EXCEPT ![Debt].released = TRUE, ![Debt].revision = @ + 1]
  /\ Goto(IF job.call = "confirm" THEN "return" ELSE "debts")
  /\ UNCHANGED <<admission, broker, faults>> /\ Rest

EndCall == At("return") /\ Return /\ UNCHANGED <<row, admission, broker, faults>> /\ Rest

(***************************************************************************)
(* Start: admission, then the steps up to the reconnect challenge.         *)
(***************************************************************************)
(* Mutant: the blocker is asked without admissionMu. *)
TakeAdmissionUnlocked ==
  /\ At("admit")
  /\ admission' = "ssh" /\ Goto("check")
  /\ UNCHANGED <<row, broker, faults>> /\ Rest

TakeAdmission ==
  /\ At("admit") /\ admission = None
  /\ admission' = "ssh" /\ Goto("check")
  /\ UNCHANGED <<row, broker, faults>> /\ Rest

CheckAdmission ==
  /\ At("check")
  /\ IF otherOp \/ BlockedBySSH \/ Debts # {}
     THEN admission' = None /\ Goto("return")
     ELSE UNCHANGED admission /\ Goto("create")
  /\ UNCHANGED <<row, broker, faults>> /\ Rest

CreateCandidate ==
  /\ At("create")
  /\ row' = [row EXCEPT ![job.op].state = "DRAFT", ![job.op].revision = 1]
  /\ admission' = None /\ Goto("preflight")
  /\ UNCHANGED <<broker, faults>> /\ Rest

(* The transitions Start takes between its calls to the broker. *)
AdvanceTo(at, state, next) ==
  /\ At(at) /\ Advance(job.op, state) /\ Goto(next)
  /\ UNCHANGED <<admission, broker, faults>> /\ Rest

(* Mutant: the host is changed before the transition is durable. *)
PreflightLater ==
  /\ At("preflight") /\ Goto("stage")
  /\ UNCHANGED <<row, admission, broker, faults>> /\ Rest

Preflight == AdvanceTo("preflight", "PREFLIGHTED", "stage")
MarkStaged == AdvanceTo("staged", "STAGED", "validate")
MarkValidated == AdvanceTo("validated", "VALIDATED", "pending")
MarkReloadPending == AdvanceTo("pending", "RELOAD_PENDING", "reload")
RequireReconnect == AdvanceTo("reconnect", "RECONNECT_REQUIRED", "return")
(* Mutant: a rollback that failed is reported as done. *)
RequireNothing == AdvanceTo("manual", "ROLLED_BACK", "return")

RequireManualRecovery == AdvanceTo("manual", "MANUAL_RECOVERY_REQUIRED", "return")

StageManagedPolicy ==
  /\ At("stage")
  /\ Mutate(job.op, 1, TRUE, [host EXCEPT !.artifact = job.op],
            [op |-> job.op, prior |-> host.artifact], "checkpoint", "manual")
  /\ UNCHANGED <<row, admission>> /\ Rest

(* A checkpoint that could not be saved is tried once more, to roll back. *)
SaveCheckpoint ==
  /\ At("checkpoint")
  /\ \/ row' = [row EXCEPT ![job.op].checkpoint = retained.prior] /\ Goto("staged") /\ NoFault
     \/ UNCHANGED row /\ Goto("recovercheckpoint") /\ Fault
  /\ UNCHANGED <<admission, broker>> /\ Rest

ValidateManagedPolicy ==
  /\ At("validate")
  /\ \E valid \in BOOLEAN : Mutate(job.op, 2, valid, host, retained, "validated", "rollback")
  /\ UNCHANGED <<row, admission>> /\ Rest

ReloadSelectedService ==
  /\ At("reload")
  /\ Mutate(job.op, 3, TRUE, [host EXCEPT !.loaded = host.artifact], retained, "challenge", "rollback")
  /\ UNCHANGED <<row, admission>> /\ Rest

SaveChallenge ==
  /\ At("challenge")
  /\ \/ row' = [row EXCEPT ![job.op].challenge = "issued"] /\ Goto("arm") /\ NoFault
     \/ UNCHANGED row /\ Goto("rollback") /\ Fault
  /\ UNCHANGED <<admission, broker>> /\ Rest

ArmReconnect ==
  /\ At("arm")
  /\ Mutate(job.op, 4, TRUE, host, retained, "reconnect", "rollback")
  /\ UNCHANGED <<row, admission>> /\ Rest

(***************************************************************************)
(* Confirm.                                                                *)
(***************************************************************************)
(* The broker finds a fresh login with the verifier, or does not. *)
VerifyReconnect ==
  /\ At("verify")
  /\ \E fresh \in BOOLEAN : Mutate(job.op, 6, fresh, host, retained, "inspect", "return")
  /\ proven' = IF job'.at = "inspect" /\ clock[job.op] = "open" THEN proven \union {job.op} ELSE proven
  /\ UNCHANGED <<row, admission, clock, others, up, crashes, policy>>

(* The drop-in and the running service must still be the candidate's; then  *)
(* the clock is read, which the commit goes by.                             *)
InspectBeforeCommit ==
  /\ At("inspect")
  /\ \/ /\ host = [artifact |-> job.op, loaded |-> job.op]
        /\ job' = [job EXCEPT !.at = "commit", !.timely = clock[job.op] = "open"] /\ NoFault
     \/ Goto("rollback") /\ Fault
  /\ UNCHANGED <<row, admission, broker>> /\ Rest

Commit(o) ==
  /\ row' = [row EXCEPT ![o].state = "COMMITTED", ![o].revision = @ + 1, ![o].challenge = "consumed"]
  /\ policy' = o

(* Mutant: the deadline is checked only when the confirmation begins. *)
CommitCandidateLate ==
  /\ At("commit") /\ admission = None
  /\ Commit(job.op) /\ Goto("release")
  /\ UNCHANGED <<admission, broker, faults, clock, others, up, crashes, proven>>

(* One transaction under admissionMu consumes the challenge, if it had not  *)
(* expired when the clock was read, and commits the candidate; when it      *)
(* fails the candidate is rolled back.  The deadline may pass in between.   *)
CommitCandidate ==
  /\ At("commit") /\ admission = None
  /\ \/ job.timely /\ Commit(job.op) /\ Goto("release") /\ NoFault
     \/ ~job.timely /\ UNCHANGED <<row, policy>> /\ Goto("rollback") /\ NoFault
     \/ UNCHANGED <<row, policy>> /\ Goto("rollback") /\ Fault
  /\ UNCHANGED <<admission, broker, clock, others, up, crashes, proven>>

(***************************************************************************)
(* Rollback.                                                               *)
(***************************************************************************)
(* Without a checkpoint, or when it or the endpoint cannot be read, the     *)
(* operation is handed to manual recovery.                                  *)
BeginRollback ==
  LET r == row[job.op]
      late == r.attempts > 1 \/ (r.attempts = 1 /\ r.state # "ROLLBACK_PENDING")
  IN /\ At("rollback")
     /\ \/ r.checkpoint = None /\ Goto("manual") /\ UNCHANGED row /\ NoFault
        \/ Goto("manual") /\ UNCHANGED row /\ Fault
        \/ /\ r.checkpoint # None /\ ~late /\ NoFault
           /\ \/ r.state = "ROLLBACK_PENDING" /\ Goto("attempt") /\ UNCHANGED row
              \/ r.state \in CanRollBack /\ Goto("attempt") /\ Advance(job.op, "ROLLBACK_PENDING")
        \/ /\ r.checkpoint # None /\ (late \/ r.state \notin CanRollBack \union {"ROLLBACK_PENDING"})
           /\ Goto("return") /\ UNCHANGED row /\ NoFault
     /\ UNCHANGED <<admission, broker>> /\ Rest

CountAttempt ==
  /\ At("attempt") /\ Goto("restore")
  /\ row' = IF row[job.op].attempts = 0
            THEN [row EXCEPT ![job.op].attempts = 1, ![job.op].revision = @ + 1] ELSE row
  /\ UNCHANGED <<admission, broker, faults>> /\ Rest

(* The broker restores only what it staged itself, over nothing else. *)
RestoreManagedPolicy ==
  LET prior == row[job.op].checkpoint
  IN /\ At("restore")
     /\ Mutate(job.op, 5, retained = [op |-> job.op, prior |-> prior] /\ host.artifact = job.op,
               [host EXCEPT !.artifact = prior], None, "recoveryreload", "manual")
     /\ UNCHANGED <<row, admission>> /\ Rest

RecoveryReload ==
  /\ At("recoveryreload")
  /\ Mutate(job.op, 7, TRUE, [host EXCEPT !.loaded = host.artifact], retained, "exact", "manual")
  /\ UNCHANGED <<row, admission>> /\ Rest

(* The host is read back; only an exact restoration counts. *)
VerifyRestored ==
  LET prior == row[job.op].checkpoint
  IN /\ At("exact")
     /\ \/ /\ host = [artifact |-> prior, loaded |-> prior] /\ NoFault
           /\ row' = [row EXCEPT ![job.op].state = "ROLLED_BACK", ![job.op].revision = @ + 1,
                                 ![job.op].released = TRUE]
           /\ Goto("return")
        \/ Goto("manual") /\ Fault /\ UNCHANGED row
     /\ UNCHANGED <<admission, broker>> /\ Rest

(***************************************************************************)
(* The watchdog and the startup look at the active candidate.              *)
(***************************************************************************)
ExpiredCandidate(o) ==
  (row[o].state = "RECONNECT_REQUIRED" /\ clock[o] # "open") \/ clock[o] = "unsafe"

(* Mutant: the watchdog looks at reconnect deadlines only. *)
ResumeReconnectOnly(o) ==
  CASE job.call = "expired" -> IF row[o].state = "RECONNECT_REQUIRED" /\ clock[o] # "open" THEN "rollback" ELSE "return"
    [] OTHER -> "rollback"

Resume(o) ==
  CASE job.call = "expired" -> IF ExpiredCandidate(o) THEN "rollback" ELSE "return"
    [] row[o].state = "DRAFT" -> "manual"
    [] row[o].state = "PREFLIGHTED" /\ row[o].checkpoint # None -> "recoverstaged"
    [] row[o].state = "PREFLIGHTED" /\ row[o].checkpoint = None ->
         IF retained # None /\ retained.op = o THEN "recovercheckpoint" ELSE "manual"
    [] OTHER -> "rollback"

ReconcileActive ==
  /\ At("active")
  /\ IF ActiveCandidates = {} THEN Goto("return")
     ELSE \E o \in ActiveCandidates : job' = [job EXCEPT !.op = o, !.at = Resume(o)]
  /\ UNCHANGED <<row, admission, broker, faults>> /\ Rest

(* At startup the broker is asked for the stage it kept, and may fail; the  *)
(* row stays PREFLIGHTED when its checkpoint cannot be stored.              *)
RecoverCheckpoint ==
  /\ At("recovercheckpoint")
  /\ \/ row' = [row EXCEPT ![job.op].checkpoint = retained.prior] /\ Goto("recoverstaged") /\ NoFault
     \/ job.call = "startup" /\ UNCHANGED row /\ Goto("manual") /\ Fault
     \/ UNCHANGED row /\ Goto("return") /\ Fault
  /\ UNCHANGED <<admission, broker>> /\ Rest

RecoverStaged == AdvanceTo("recoverstaged", "STAGED", "rollback")

(***************************************************************************)
(* The environment: time, crashes, and another domain's operations, which  *)
(* are admitted under the same lock.                                       *)
(***************************************************************************)
Expire(o) ==
  /\ row[o].state # None /\ clock[o] # "unsafe"
  /\ clock' = [clock EXCEPT ![o] = IF @ = "open" THEN "late" ELSE "unsafe"]
  /\ UNCHANGED <<manager, admission, others, broker, up, crashes, faults, history>>

Crash ==
  /\ up /\ crashes < MaxCrashes /\ crashes' = crashes + 1
  /\ up' = FALSE /\ job' = NoJob /\ admission' = None /\ otherAt' = None
  /\ UNCHANGED <<row, clock, otherOp, broker, faults, history>>

ReconcileStartup ==
  /\ ~up /\ up' = TRUE
  /\ job' = [call |-> "startup", op |-> None, at |-> "debts", timely |-> FALSE]
  /\ UNCHANGED <<row, clock, admission, others, broker, crashes, faults, history>>

OtherAdmits ==
  /\ up /\ UNCHANGED <<manager, clock, broker, up, crashes, faults, history>>
  /\ \/ /\ otherAt = None /\ ~otherOp /\ admission = None
        /\ admission' = "other" /\ otherAt' = "check" /\ UNCHANGED otherOp
     \/ /\ otherAt = "check" /\ ~BlockedBySSH
        /\ otherAt' = "create" /\ UNCHANGED <<admission, otherOp>>
     \/ /\ otherAt = "check" /\ BlockedBySSH
        /\ otherAt' = None /\ admission' = None /\ UNCHANGED otherOp
     \/ /\ otherAt = "create"
        /\ otherOp' = TRUE /\ otherAt' = None /\ admission' = None

OtherEnds ==
  /\ otherOp /\ otherOp' = FALSE
  /\ UNCHANGED <<manager, clock, admission, otherAt, broker, up, crashes, faults, history>>

JobSteps ==
  \/ ReconcileDebts \/ ReleaseCompletedStage \/ RecordReleased \/ EndCall
  \/ TakeAdmission \/ CheckAdmission \/ CreateCandidate
  \/ Preflight \/ StageManagedPolicy \/ SaveCheckpoint \/ MarkStaged \/ ValidateManagedPolicy
  \/ MarkValidated \/ MarkReloadPending \/ ReloadSelectedService \/ SaveChallenge
  \/ ArmReconnect \/ RequireReconnect \/ RequireManualRecovery
  \/ VerifyReconnect \/ InspectBeforeCommit \/ CommitCandidate
  \/ BeginRollback \/ CountAttempt \/ RestoreManagedPolicy \/ RecoveryReload \/ VerifyRestored
  \/ ReconcileActive \/ RecoverCheckpoint \/ RecoverStaged

Next ==
  \/ \E o \in Operations : Start(o) \/ Confirm(o) \/ Rollback(o) \/ Expire(o)
  \/ WatchdogTick \/ ReconcileStartup \/ JobSteps \/ Abandon \/ Crash
  \/ OtherAdmits \/ OtherEnds

Spec == Init /\ [][Next]_vars

(* A call that holds manager.mu goes on; the process is restarted; the      *)
(* ticker and a call that wants admissionMu get their turn, for Go hands a  *)
(* mutex to a waiter that starves; the other domain does not keep it; time  *)
(* passes.                                                                  *)
FairSpec ==
  /\ Spec
  /\ SF_vars(JobSteps) /\ WF_vars(ReconcileStartup) /\ SF_vars(WatchdogTick)
  /\ WF_vars(OtherAdmits) /\ \A o \in Operations : WF_vars(Expire(o))

(***************************************************************************)
(* Properties.                                                             *)
(***************************************************************************)
(* Every row, lock and host state is one the code can write. *)
TypeOK ==
  /\ row \in [Operations -> Rows]
  /\ clock \in [Operations -> {"open", "late", "unsafe"}]
  /\ job \in [call : {None, "start", "confirm", "rollback", "expired", "startup"},
              op : Operations \union {None}, at : Steps \union {None}, timely : BOOLEAN]
  /\ admission \in {None, "ssh", "other"}
  /\ otherOp \in BOOLEAN /\ otherAt \in {None, "check", "create"}
  /\ host \in [artifact : Policies, loaded : Policies]
  /\ fence \in Nat /\ unresolved \in BOOLEAN
  /\ retained \in StageResults \union {None}
  /\ up \in BOOLEAN /\ crashes \in Nat /\ faults \in Nat
  /\ proven \subseteq Operations /\ policy \in Policies

(* An uncommitted drop-in on the host is always owned by a row that leads   *)
(* to its rollback or asks for manual recovery: a crash, a lost answer or a *)
(* failed write after StageManagedPolicy cannot orphan it.                  *)
HostChangeIsOwned ==
  \A o \in Operations :
    /\ o \in {host.artifact, host.loaded} => row[o].state \notin {None, "DRAFT"}
    /\ row[o].state = "ROLLED_BACK" => o \notin {host.artifact, host.loaded}

(* What is committed is what sshd runs with, and its login was verified     *)
(* before the challenge expired, although verification, inspection and the  *)
(* wait for admissionMu take their time and the commit itself, which goes   *)
(* by the clock read at manager.go:468, may come after the deadline.        *)
CommitIsProvenInTime ==
  [][\A o \in Operations : row'[o].state = "COMMITTED" /\ row[o].state # "COMMITTED" =>
       /\ o \in proven /\ row[o].challenge = "issued"
       /\ host = [artifact |-> o, loaded |-> o]]_vars

(* When no operation is under way or waits for manual recovery, the drop-in *)
(* on disk and the running sshd are those of the policy committed last,     *)
(* whatever failed, crashed or lost its answer on the way there: a rollback *)
(* is reported only of a host that again runs with that policy, although it *)
(* restores from a checkpoint that may have been rebuilt at startup.        *)
SettledHostRunsPolicy ==
  (\A o \in Operations : row[o].state \in {None, "COMMITTED", "ROLLED_BACK"})
    => host = [artifact |-> policy, loaded |-> policy]

(* Admission: of all domains, one operation at a time is active, although   *)
(* each domain checks the others' rows before it creates its own.           *)
OneOperationActive ==
  /\ Cardinality(ActiveCandidates) <= 1
  /\ otherOp => ActiveCandidates = {}

(* The operator cannot lose the host for good: a staged policy that is not  *)
(* confirmed in time is rolled back or handed to manual recovery, whatever  *)
(* the broker answers (manager.go:532-569).                                 *)
UnconfirmedIsResolved ==
  \A o \in Operations :
    (row[o].state \in CanRollBack \union {"ROLLBACK_PENDING"} /\ ExpiredCandidate(o))
      ~> row[o].state \in Terminal

(* A new operation's first call passes the broker's fence: revisions are    *)
(* local to an operation.                                                   *)
OperationsDoNotShareFences == At("stage") /\ ~unresolved => Accepts(job.op, 1)
=============================================================================
