--------------------------- MODULE CoreApplyProofs ---------------------------
(***************************************************************************)
(* For any number of saves, tags, requests and failures: the core is used  *)
(* by one operation at a time, a committed maintenance hold keeps it down, *)
(* and once the saves have reached it nothing stale is served.             *)
(*                                                                         *)
(* A start reads the hold, then the rows, and only then boots the core.    *)
(* What makes it safe is that the hold changes only in the hands of an     *)
(* owner, so a start that passed the hold still has it when it boots.      *)
(***************************************************************************)
EXTENDS CoreApply, TLAPS

USE ConstantsDistinct, BoundsAreNat

(* Steps that only the owner of the core is at. *)
OwnedSteps == {"check", "remove", "load", "replace", "restart", "arm", "stop",
               "start", "candidate", "boot", "hold"}

(* Whoever is at such a step owns the core. *)
OwnedInv == \A p \in Operations : pc[p] \in OwnedSteps => owner = p

(* A start that passed the hold still has it, unless a restore came. *)
StartingInv ==
  \A p \in Operations : pc[p] \in {"candidate", "boot"} =>
    /\ core = "stopped"
    /\ held = "no" \/ drift.restore = "yes"

IInv ==
  /\ TypeOK
  /\ OwnedInv
  /\ StartingInv
  /\ HoldKeepsCoreDown

USE DEF Others, Operations, Versions, Ids, Rows, Tables, NoRows, FirstRows,
        Plans, NoPlan, Steps, NothingServed, Drifts, NoDrift, Fault, NoFault,
        Request, Owns, Goto, Leave, StopCore, Tell, durable, running, asked

(* What a core started on well-formed rows serves is well-formed. *)
LEMMA ServingType ==
  ASSUME NEW rows \in Tables
  PROVE  /\ Serving(rows) \in [Tags -> Versions \union {Absent}]
         /\ TagsOf(rows) \subseteq Tags
<1>1. TagsOf(rows) \subseteq Tags
  BY DEF TagsOf
<1>2. ASSUME NEW t \in TagsOf(rows)
      PROVE  rows[CHOOSE i \in Ids : rows[i] # Absent /\ rows[i].tag = t].by
               \in Versions
  <2>1. PICK i \in Ids : rows[i] # Absent /\ rows[i].tag = t
    BY DEF TagsOf
  <2> DEFINE j == CHOOSE k \in Ids : rows[k] # Absent /\ rows[k].tag = t
  <2>2. j \in Ids /\ rows[j] # Absent
    BY <2>1
  <2>3. rows[j] \in Rows
    BY <2>2
  <2>4. QED
    BY <2>3
<1>3. QED
  BY <1>1, <1>2 DEF Serving

(* Everything is at rest and the core is down. *)
LEMMA InitEstablishes == Init => IInv
BY DEF Init, IInv, TypeOK, OwnedInv, StartingInv, HoldKeepsCoreDown,
       OwnedSteps

(* The transaction of a save leaves the core and the hold alone. *)
LEMMA SaveKeeps ==
  ASSUME IInv, NEW s \in Savers, Save(s)
  PROVE  IInv'
<1> USE DEF IInv, TypeOK, OwnedInv, StartingInv, HoldKeepsCoreDown,
            OwnedSteps
<1>1. PICK restart \in {"yes", "no"} :
        \/ \E t \in Tags : SaveNew(s, t, restart)
        \/ \E i \in Ids, t \in Tags : SaveEdited(s, i, t, restart)
        \/ \E t \in Tags : SaveDeleted(s, t, restart)
        \/ SaveOther(s, restart)
  BY DEF Save
<1>2. ASSUME NEW rows \in Tables, NEW p \in Plans, Commit(s, rows, p)
      PROVE  IInv'
  BY <1>2 DEF Commit
<1>3. ASSUME NEW t \in Tags, SaveNew(s, t, restart) PROVE IInv'
  BY <1>2, <1>3 DEF SaveNew
<1>4. ASSUME NEW i \in Ids, NEW t \in Tags, SaveEdited(s, i, t, restart)
      PROVE  IInv'
  <2>1. table[i].tag \in Tags
    BY <1>4 DEF SaveEdited
  <2>2. QED
    BY <1>2, <1>4, <2>1 DEF SaveEdited
<1>5. ASSUME NEW t \in Tags, SaveDeleted(s, t, restart) PROVE IInv'
  BY <1>2, <1>5 DEF SaveDeleted
<1>6. CASE SaveOther(s, restart)
  BY <1>2, <1>6 DEF SaveOther
<1>7. QED
  BY <1>1, <1>3, <1>4, <1>5, <1>6

(* The hot application of a save. *)
LEMMA SaveStepKeeps ==
  ASSUME IInv, NEW s \in Savers, SaveStep(s)
  PROVE  IInv'
<1> USE DEF IInv, TypeOK, OwnedInv, StartingInv, HoldKeepsCoreDown,
            OwnedSteps
<1>1. CASE AcquireForSave(s)
  BY <1>1 DEF AcquireForSave
<1>2. CASE ApplySave(s)
  BY <1>2 DEF ApplySave, MaintenanceHeld, Proceed
<1>3. CASE RemoveObjects(s)
  BY <1>3, ServingType DEF RemoveObjects, FallBack
<1>4. CASE LoadRows(s)
  BY <1>4 DEF LoadRows, FallBack
<1>5. CASE ReplaceRows(s)
  <2> DEFINE rows == [i \in Ids |->
                        IF i \in plan[s].reload THEN loaded[i] ELSE Absent]
  <2>1. rows \in Tables
    OBVIOUS
  <2>2. /\ Serving(rows) \in [Tags -> Versions \union {Absent}]
        /\ TagsOf(rows) \subseteq Tags
    BY <2>1, ServingType
  <2>3. \/ served' = [t \in Tags |-> IF t \in TagsOf(rows)
                                     THEN Serving(rows)[t] ELSE served[t]]
        \/ served' = [t \in Tags |-> IF t \in TagsOf(rows)
                                     THEN Absent ELSE served[t]]
    BY <1>5 DEF ReplaceRows
  <2>4. served' \in [Tags -> Versions \union {Absent}]
    <3> HIDE DEF rows
    <3>1. QED
      BY <2>2, <2>3
  <2>5. /\ owner = s /\ pc[s] = "replace"
        /\ \/ owner' = s /\ pc' = [pc EXCEPT ![s] = "restart"]
              /\ plan' = plan
           \/ /\ owner' = Nobody /\ pc' = [pc EXCEPT ![s] = "applied"]
              /\ plan' = [q \in Savers |-> IF q = s THEN NoPlan ELSE plan[q]]
        /\ loaded' = NoRows
        /\ drift' \in Drifts /\ drift'.restore = drift.restore
        /\ faults' \in 0..MaxFaults
        /\ UNCHANGED << durable, core, saw, cooldown, asked >>
    <3>1. CASE FallBack(s) /\ UNCHANGED drift
      BY <1>5, <3>1 DEF ReplaceRows, FallBack
    <3>2. CASE /\ drift' = [drift EXCEPT !.lost = @ \ TagsOf(rows)]
               /\ NoFault /\ Leave(s, "applied")
               /\ UNCHANGED << durable, core, saw, cooldown, asked >>
      <4> HIDE DEF rows
      <4>1. owner = s /\ pc[s] = "replace"
        BY <1>5 DEF ReplaceRows
      <4>2. QED
        BY <3>2, <4>1
    <3>3. QED
      BY <1>5, <3>1, <3>2 DEF ReplaceRows
  <2>6. QED
    BY <2>4, <2>5
<1>6. QED
  BY <1>1, <1>2, <1>3, <1>4, <1>5 DEF SaveStep

(* Restarting, stopping and starting the core. *)
LEMMA OwnerStepKeeps ==
  ASSUME IInv, NEW p \in Operations, OwnerStep(p)
  PROVE  IInv'
<1> USE DEF IInv, TypeOK, OwnedInv, StartingInv, HoldKeepsCoreDown,
            OwnedSteps
<1>1. CASE RestartCore(p)
  BY <1>1 DEF RestartCore, MaintenanceHeld, Proceed, GiveUp
<1>2. CASE StopLocked(p)
  BY <1>2 DEF StopLocked
<1>3. CASE StartLocked(p)
  BY <1>3 DEF StartLocked, MaintenanceHeld
<1>4. CASE BuildCandidate(p)
  BY <1>4 DEF BuildCandidate, GiveUp
<1>5. CASE BootCore(p)
  <2>1. Serving(loaded) \in [Tags -> Versions \union {Absent}]
    BY ServingType
  <2>2. QED
    BY <1>5, <2>1 DEF BootCore
<1>6. QED
  BY <1>1, <1>2, <1>3, <1>4, <1>5 DEF OwnerStep

(* Every step keeps the invariant. *)
LEMMA NextKeeps == IInv /\ [Next]_vars => IInv'
<1> SUFFICES ASSUME IInv, [Next]_vars PROVE IInv'
  OBVIOUS
<1>1. ASSUME NEW s \in Savers, Save(s) \/ SaveStep(s) PROVE IInv'
  BY <1>1, SaveKeeps, SaveStepKeeps
<1>2. ASSUME NEW p \in Operations, OwnerStep(p) PROVE IInv'
  BY <1>2, OwnerStepKeeps
<1> USE DEF IInv, TypeOK, OwnedInv, StartingInv, HoldKeepsCoreDown,
            OwnedSteps
<1>3. CASE HealthTick
  BY <1>3 DEF HealthTick
<1>4. ASSUME NEW value \in {"yes", "no"}, OperatorAsks(value) PROVE IInv'
  BY <1>4 DEF OperatorAsks
<1>5. CASE AcquireForHold
  BY <1>5 DEF AcquireForHold
<1>6. CASE CommitHold
  BY <1>6 DEF CommitHold
<1>7. ASSUME NEW p \in {Admin, App}, NEW step \in Steps,
             AcquireByRequest(p, step)
      PROVE  IInv'
  BY <1>7 DEF AcquireByRequest
<1>8. CASE AppStarts
  BY <1>8 DEF AppStarts
<1>9. CASE ScheduleRestart
  BY <1>9 DEF ScheduleRestart
<1>10. CASE RestartTimerEnds
  BY <1>10 DEF RestartTimerEnds
<1>11. CASE CooldownEnds
  BY <1>11 DEF CooldownEnds
<1>12. ASSUME NEW value \in {"yes", "no"}, RestoreDatabase(value)
       PROVE  IInv'
  BY <1>12 DEF RestoreDatabase
<1>13. CASE UNCHANGED vars
  BY <1>13 DEF vars
<1>14. QED
  BY <1>1, <1>2, <1>3, <1>4, <1>5, <1>6, <1>7, <1>8, <1>9, <1>10, <1>11,
     <1>12, <1>13 DEF Next

(* The invariant of the core's operations. *)
THEOREM CoreInvariant == Spec => []IInv
BY InitEstablishes, NextKeeps, PTL DEF Spec

(* Type correctness. *)
THEOREM CoreTypeOK == Spec => []TypeOK
<1>1. IInv => TypeOK
  BY DEF IInv
<1>2. QED
  BY <1>1, CoreInvariant, PTL

(* Under a committed hold the core runs only while the operator's request  *)
(* is stopping it, or after a restore brought the hold with it             *)
(* (maintenanceHeldLocked, SetCoreMaintenance).                            *)
THEOREM HoldIsKept == Spec => []HoldKeepsCoreDown
<1>1. IInv => HoldKeepsCoreDown
  BY DEF IInv
<1>2. QED
  BY <1>1, CoreInvariant, PTL

(* The core is used exactly as the restart manager hands it out, so what   *)
(* is shown here rests on the promise the manager is proved to keep.       *)
THEOREM CoreRespectsOwnership == Spec => OwnershipSpec
<1>1. Init => owner = Nobody
  BY DEF Init
<1>2. ASSUME IInv, Next, owner' # owner PROVE Ownership!Next
  <2> USE <1>2 DEF Ownership!Next, Ownership!Acquire, Ownership!HandOver,
                   Ownership!Release
  <2>1. ASSUME NEW s \in Savers, Save(s) PROVE FALSE
    BY <2>1 DEF Save, SaveNew, SaveEdited, SaveDeleted, SaveOther, Commit
  <2>2. ASSUME NEW s \in Savers, SaveStep(s) PROVE Ownership!Next
    BY <2>2 DEF SaveStep, AcquireForSave, ApplySave, MaintenanceHeld,
         Proceed, RemoveObjects, LoadRows, ReplaceRows, FallBack
  <2>3. ASSUME NEW p \in Operations, OwnerStep(p) PROVE Ownership!Next
    BY <2>3 DEF OwnerStep, RestartCore, MaintenanceHeld, Proceed, GiveUp,
         StopLocked, StartLocked, BuildCandidate, BootCore
  <2>4. QED
    BY <2>1, <2>2, <2>3 DEF Next, HealthTick, OperatorAsks, AcquireForHold,
       CommitHold, AcquireByRequest, AppStarts, ScheduleRestart,
       RestartTimerEnds, CooldownEnds, RestoreDatabase
<1>3. IInv /\ [Next]_vars => [Ownership!Next]_owner
  BY <1>2 DEF vars
<1>4. QED
  BY <1>1, <1>3, CoreInvariant, PTL
     DEF Spec, OwnershipSpec, Ownership!Spec, Ownership!Init

-----------------------------------------------------------------------------
(***************************************************************************)
(* That the core serves what was committed rests on a debt: whoever has    *)
(* changed a tag in the database and not yet reached the core still owes   *)
(* that tag.  Rows are read while the core is owned but commits are not    *)
(* stopped, so what an owner has read is fresh up to the debts of others.  *)
(***************************************************************************)
HasTag(rows, i, t) == rows[i] # Absent /\ rows[i].tag = t

Unique(rows) ==
  \A i, j \in Ids : \A t \in Tags : HasTag(rows, i, t) /\ HasTag(rows, j, t) => i = j

(* The save will add the tag t to the core, or start the core anew. *)
Adds(s, t) ==
  \/ pc[s] \in {"restart", "stop"}
  \/ pc[s] \in {"committed", "check"} /\ plan[s].restart = "yes"
  \/ /\ pc[s] \in {"committed", "check", "remove", "load"}
     /\ \E i \in plan[s].reload : HasTag(table, i, t)
  \/ pc[s] = "replace" /\ \E i \in plan[s].reload : HasTag(loaded, i, t)

(* The save will bring the core up to date with the tag t. *)
Owes(s, t) ==
  \/ Adds(s, t)
  \/ pc[s] \in {"committed", "check", "remove"} /\ t \in plan[s].remove

Clean == drift.error = "no" /\ drift.restore = "no"

Fresh(v, t) == v \in {Absent, Serving(table)[t]}

(* A tag has one row; a save that has not come yet has none. *)
RowsInv ==
  /\ Unique(table) /\ Unique(loaded)
  /\ \A s \in Savers : pc[s] = "idle" => table[s] = Absent

(* A save that starts the core finds it stopped. *)
DownInv == \A s \in Savers : pc[s] = "start" => core = "stopped"

FreshInv ==
  core = "running" /\ Clean =>
    \A t \in Tags : Fresh(served[t], t) \/ \E s \in Savers : Owes(s, t)

PresentInv ==
  core = "running" /\ Clean =>
    \A t \in TagsOf(table) \ drift.lost : served[t] # Absent \/ \E s \in Savers : Adds(s, t)

LoadedFreshInv ==
  \A p \in Operations : pc[p] \in {"replace", "boot"} /\ Clean =>
    \A t \in Tags : Fresh(Serving(loaded)[t], t) \/ \E s \in Savers \ {p} : Owes(s, t)

LoadedPresentInv ==
  \A p \in Operations : pc[p] = "boot" /\ Clean =>
    \A t \in TagsOf(table) : t \in TagsOf(loaded) \/ \E s \in Savers \ {p} : Adds(s, t)

SyncInv ==
  RowsInv /\ DownInv /\ FreshInv /\ PresentInv /\ LoadedFreshInv /\ LoadedPresentInv

-----------------------------------------------------------------------------
HIDE DEF Others, Operations, Versions, Ids, Rows, Tables, NoRows, FirstRows,
         Plans, NoPlan, Steps, NothingServed, Drifts, NoDrift, Fault, NoFault,
         Request, Owns, Goto, Leave, StopCore, Tell, durable, running, asked

(* The rows of a table have a tag and a version. *)
LEMMA RowType ==
  ASSUME NEW rows \in Tables, NEW i \in Ids, rows[i] # Absent
  PROVE  rows[i].tag \in Tags /\ rows[i].by \in Versions /\ rows[i].by # Absent
  <1>1. rows[i] \in Rows
    BY DEF Tables
  <1> QED
    BY <1>1 DEF Rows, Versions

(* What a table with unique tags serves for a tag that a row has. *)
LEMMA ServingRow ==
  ASSUME NEW rows \in Tables, Unique(rows), NEW i \in Ids, NEW t \in Tags, HasTag(rows, i, t)
  PROVE  Serving(rows)[t] = rows[i].by /\ Serving(rows)[t] # Absent /\ t \in TagsOf(rows)
  <1>1. t \in TagsOf(rows)
    BY DEF TagsOf, HasTag
  <1> DEFINE j == CHOOSE k \in Ids : rows[k] # Absent /\ rows[k].tag = t
  <1>2. j \in Ids /\ rows[j] # Absent /\ rows[j].tag = t
    BY DEF HasTag
  <1>3. Serving(rows)[t] = rows[j].by
    BY <1>1 DEF Serving
  <1>4. j = i
    <2> HIDE DEF j
    <2> QED
      BY <1>2 DEF Unique, HasTag
  <1> QED
    BY <1>1, <1>2, <1>3, <1>4, RowType

(* And for one that no row has. *)
LEMMA TagsOfRows ==
  ASSUME NEW rows \in Tables, NEW t \in Tags
  PROVE  /\ t \in TagsOf(rows) <=> \E i \in Ids : HasTag(rows, i, t)
         /\ t \notin TagsOf(rows) => Serving(rows)[t] = Absent
BY DEF TagsOf, HasTag, Serving

(* Two tables with the same row for a tag serve the same for it. *)
LEMMA SameRow ==
  ASSUME NEW rows \in Tables, NEW next \in Tables, Unique(rows), Unique(next), NEW t \in Tags,
         \A i \in Ids : HasTag(rows, i, t) \/ HasTag(next, i, t) => next[i] = rows[i]
  PROVE  Serving(next)[t] = Serving(rows)[t] /\ (t \in TagsOf(next) <=> t \in TagsOf(rows))
  <1>1. \A i \in Ids : HasTag(rows, i, t) <=> HasTag(next, i, t)
    BY DEF HasTag
  <1>2. CASE \E i \in Ids : HasTag(rows, i, t)
    <2>1. PICK i \in Ids : HasTag(rows, i, t)
      BY <1>2
    <2>2. HasTag(next, i, t) /\ next[i] = rows[i]
      BY <1>1, <2>1
    <2> QED
      BY <2>1, <2>2, ServingRow
  <1>3. CASE ~\E i \in Ids : HasTag(rows, i, t)
    BY <1>1, <1>3, TagsOfRows
  <1> QED
    BY <1>2, <1>3

(* A save that does not move keeps its debts. *)
LEMMA DebtStays ==
  ASSUME NEW s \in Savers, NEW t \in Tags, pc'[s] = pc[s], plan'[s] = plan[s], table' = table,
         loaded' = loaded \/ pc[s] # "replace"
  PROVE  (Adds(s, t)' <=> Adds(s, t)) /\ (Owes(s, t)' <=> Owes(s, t))
BY DEF Adds, Owes, HasTag

(* While an operation owns the core the other saves keep their debts. *)
LEMMA OthersKeep ==
  ASSUME IInv, NEW p \in Operations, owner = p, NEW x, pc' = [pc EXCEPT ![p] = x],
         \A s \in Savers : s # p => plan'[s] = plan[s], table' = table
  PROVE  \A s \in Savers \ {p} : \A t \in Tags :
           (Adds(s, t)' <=> Adds(s, t)) /\ (Owes(s, t)' <=> Owes(s, t))
  <1> SUFFICES ASSUME NEW s \in Savers \ {p}, NEW t \in Tags
               PROVE  (Adds(s, t)' <=> Adds(s, t)) /\ (Owes(s, t)' <=> Owes(s, t))
    OBVIOUS
  <1>1. s \in Operations /\ pc \in [Operations -> Steps]
    BY DEF Operations, IInv, TypeOK
  <1>2. pc'[s] = pc[s] /\ pc[s] # "replace"
    BY <1>1 DEF IInv, OwnedInv, OwnedSteps
  <1> QED
    BY <1>2, DebtStays

(* While an operation owns the core no other is about to change it. *)
LEMMA OthersWait ==
  ASSUME IInv, NEW p \in Operations, owner = p, NEW x, pc' = [pc EXCEPT ![p] = x]
  PROVE  /\ \A q \in Operations : q # p => pc'[q] = pc[q] /\ pc[q] \notin OwnedSteps
         /\ pc'[p] = x
BY DEF IInv, TypeOK, OwnedInv

(* The owner leaves the core stopped, or its caller learns of the failure. *)
LEMMA ExcusedStep ==
  ASSUME IInv, SyncInv, NEW p \in Operations, owner = p, NEW x, pc' = [pc EXCEPT ![p] = x],
         x \notin {"replace", "boot"}, p \in Savers => x # "idle",
         p \in Savers /\ x = "start" => core' = "stopped",
         table' = table, loaded' = loaded \/ loaded' = NoRows,
         core' = "stopped" \/ ~Clean', core' = core \/ core' = "stopped"
  PROVE  SyncInv'
  <1> USE DEF SyncInv
  <1>1. \A q \in Operations : pc'[q] \notin {"replace", "boot"}
    BY OthersWait DEF OwnedSteps
  <1>2. \A s \in Savers : s \in Operations
    BY DEF Operations
  <1>3. RowsInv'
    <2>1. Unique(NoRows)
      BY DEF Unique, HasTag, NoRows
    <2>2. Unique(loaded)'
      BY <2>1 DEF RowsInv, Unique, HasTag
    <2> QED
      BY <1>2, <2>2, OthersWait DEF RowsInv, Unique, HasTag
  <1>4. DownInv'
    BY <1>2, OthersWait DEF DownInv, OwnedSteps
  <1>5. FreshInv' /\ PresentInv'
    BY DEF FreshInv, PresentInv
  <1>6. LoadedFreshInv' /\ LoadedPresentInv'
    BY <1>1 DEF LoadedFreshInv, LoadedPresentInv
  <1> QED
    BY <1>3, <1>4, <1>5, <1>6

(* The owner goes on or ends, and owes as much as before. *)
LEMMA PassingStep ==
  ASSUME IInv, SyncInv, NEW p \in Operations, owner = p, NEW x, pc' = [pc EXCEPT ![p] = x],
         x \notin {"replace", "boot"}, p \in Savers => x # "idle",
         p \in Savers /\ x = "start" => core = "stopped",
         \A s \in Savers : s # p => plan'[s] = plan[s],
         table' = table, loaded' = loaded \/ loaded' = NoRows,
         UNCHANGED <<core, served, drift>>,
         p \in Savers /\ core = "running" =>
           \A t \in Tags : (Adds(p, t) => Adds(p, t)') /\ (Owes(p, t) => Owes(p, t)')
  PROVE  SyncInv'
  <1> USE DEF SyncInv
  <1>1. \A q \in Operations : pc'[q] \notin {"replace", "boot"}
    BY OthersWait DEF OwnedSteps
  <1>2. \A s \in Savers : s \in Operations
    BY DEF Operations
  <1>3. RowsInv'
    <2>1. Unique(NoRows)
      BY DEF Unique, HasTag, NoRows
    <2>2. Unique(loaded)'
      BY <2>1 DEF RowsInv, Unique, HasTag
    <2> QED
      BY <1>2, <2>2, OthersWait DEF RowsInv, Unique, HasTag
  <1>4. DownInv'
    BY <1>2, OthersWait DEF DownInv, OwnedSteps
  <1>5. ASSUME core = "running", NEW s \in Savers, NEW t \in Tags
        PROVE  (Adds(s, t) => Adds(s, t)') /\ (Owes(s, t) => Owes(s, t)')
    BY <1>5, OthersKeep
  <1>6. FreshInv'
    <2> SUFFICES ASSUME core = "running", Clean, NEW t \in Tags
                 PROVE  Fresh(served[t], t)' \/ \E s \in Savers : Owes(s, t)'
      BY DEF FreshInv, Clean
    <2> QED
      BY <1>5 DEF FreshInv, Fresh
  <1>7. PresentInv'
    <2> SUFFICES ASSUME core = "running", Clean, NEW t \in TagsOf(table) \ drift.lost
                 PROVE  served[t] # Absent \/ \E s \in Savers : Adds(s, t)'
      BY DEF PresentInv, Clean
    <2>1. t \in Tags
      BY ServingType DEF IInv, TypeOK
    <2> QED
      BY <1>5, <2>1 DEF PresentInv
  <1>8. LoadedFreshInv' /\ LoadedPresentInv'
    BY <1>1 DEF LoadedFreshInv, LoadedPresentInv
  <1> QED
    BY <1>3, <1>4, <1>6, <1>7, <1>8

(* Somebody who is not applying a save comes, asks, waits or goes. *)
LEMMA QuietStep ==
  ASSUME IInv, SyncInv,
         \A s \in Savers : pc'[s] = pc[s],
         \A p \in Operations : pc'[p] \in {"replace", "boot"} => pc'[p] = pc[p],
         UNCHANGED <<table, core, served, plan, loaded, drift>>
  PROVE  SyncInv'
  <1> USE DEF SyncInv
  <1>1. \A s \in Savers : \A t \in Tags : (Adds(s, t)' <=> Adds(s, t)) /\ (Owes(s, t)' <=> Owes(s, t))
    BY DebtStays
  <1>2. RowsInv' /\ DownInv'
    BY DEF RowsInv, DownInv, Unique, HasTag
  <1>3. FreshInv'
    BY <1>1 DEF FreshInv, Fresh, Clean
  <1>4. TagsOf(table) \subseteq Tags
    BY ServingType DEF IInv, TypeOK
  <1>5. PresentInv'
    BY <1>1, <1>4 DEF PresentInv, Clean
  <1>6. LoadedFreshInv'
    <2> SUFFICES ASSUME NEW p \in Operations, pc'[p] \in {"replace", "boot"}, Clean', NEW t \in Tags
                 PROVE  Fresh(Serving(loaded)[t], t)' \/ \E s \in Savers \ {p} : Owes(s, t)'
      BY DEF LoadedFreshInv
    <2>1. pc[p] \in {"replace", "boot"} /\ Clean
      BY DEF Clean
    <2>2. Fresh(Serving(loaded)[t], t) \/ \E s \in Savers \ {p} : Owes(s, t)
      BY <2>1 DEF LoadedFreshInv
    <2> QED
      BY <1>1, <2>2 DEF Fresh
  <1>7. LoadedPresentInv'
    <2> SUFFICES ASSUME NEW p \in Operations, pc'[p] = "boot", Clean', NEW t \in TagsOf(table)'
                 PROVE  t \in TagsOf(loaded)' \/ \E s \in Savers \ {p} : Adds(s, t)'
      BY DEF LoadedPresentInv
    <2>1. pc[p] = "boot" /\ Clean /\ t \in TagsOf(table) /\ t \in Tags /\ TagsOf(loaded)' = TagsOf(loaded)
      BY <1>4 DEF Clean, TagsOf
    <2>2. t \in TagsOf(loaded) \/ \E s \in Savers \ {p} : Adds(s, t)
      BY <2>1 DEF LoadedPresentInv
    <2> QED
      BY <1>1, <2>1, <2>2
  <1> QED
    BY <1>2, <1>3, <1>5, <1>6, <1>7

(* The transaction of a save: whatever tag it touches, it owes. *)
Commits(s) ==
  /\ pc[s] = "idle" /\ pc' = [pc EXCEPT ![s] = "committed"]
  /\ table' \in Tables /\ Unique(table')
  /\ \A q \in Savers : q # s => plan'[q] = plan[q] /\ (table[q] = Absent => table'[q] = Absent)
  /\ UNCHANGED <<core, served, owner, loaded, drift>>
  /\ \A t \in Tags : \/ Owes(s, t)' /\ (t \in TagsOf(table') => Adds(s, t)')
                     \/ \A i \in Ids : HasTag(table, i, t) \/ HasTag(table', i, t) => table'[i] = table[i]

(* SaveNew, SaveEdited, SaveDeleted and SaveOther commit so. *)
LEMMA SaveCommits ==
  ASSUME IInv, RowsInv, NEW s \in Savers, Save(s)
  PROVE  Commits(s)
  <1>1. PICK restart \in {"yes", "no"} :
          \/ \E t \in Tags : SaveNew(s, t, restart)
          \/ \E i \in Ids, t \in Tags : SaveEdited(s, i, t, restart)
          \/ \E t \in Tags : SaveDeleted(s, t, restart)
          \/ SaveOther(s, restart)
    BY DEF Save
  <1>2. /\ table \in Tables /\ Unique(table) /\ pc \in [Operations -> Steps] /\ plan \in [Savers -> Plans]
        /\ s \in Operations /\ s \in Ids /\ \A q \in Savers : q \in Ids
        /\ \A t \in Tags : [tag |-> t, by |-> s] \in Rows /\ [tag |-> t, by |-> s] # Absent
    BY AbsentIsNoRow DEF IInv, TypeOK, RowsInv, Operations, Ids, Versions, Rows
  <1>3. ASSUME NEW rows, NEW p, Commit(s, rows, p)
        PROVE  /\ pc[s] = "idle" /\ pc' = [pc EXCEPT ![s] = "committed"] /\ pc'[s] = "committed"
               /\ table' = rows /\ plan'[s] = p /\ \A q \in Savers : q # s => plan'[q] = plan[q]
               /\ UNCHANGED <<core, served, owner, loaded, drift>>
    BY <1>2, <1>3 DEF Commit, running
  <1>4. ASSUME NEW v \in Tags, SaveNew(s, v, restart) PROVE Commits(s)
    <2> DEFINE row == [tag |-> v, by |-> s]
    <2>1. /\ pc[s] = "idle" /\ pc' = [pc EXCEPT ![s] = "committed"] /\ pc'[s] = "committed"
          /\ table' = [table EXCEPT ![s] = row] /\ plan'[s].reload = {s}
          /\ \A q \in Savers : q # s => plan'[q] = plan[q]
          /\ UNCHANGED <<core, served, owner, loaded, drift>> /\ v \notin TagsOf(table)
      BY <1>3, <1>4 DEF SaveNew
    <2>2. row \in Rows /\ row # Absent /\ row.tag = v /\ table[s] = Absent
      BY <1>2, <2>1 DEF RowsInv
    <2> HIDE DEF row
    <2>3. table' \in Tables /\ table'[s] = row /\ \A i \in Ids : i # s => table'[i] = table[i]
      BY <1>2, <2>1, <2>2 DEF Tables
    <2>4. \A i \in Ids : ~HasTag(table, i, v)
      BY <1>2, <2>1, TagsOfRows
    <2>5. Unique(table')
      BY <1>2, <2>2, <2>3, <2>4 DEF Unique, HasTag
    <2>6. ASSUME NEW t \in Tags, t # v, NEW i \in Ids, HasTag(table, i, t) \/ HasTag(table', i, t)
          PROVE  table'[i] = table[i]
      BY <2>2, <2>3, <2>6 DEF HasTag
    <2>7. Adds(s, v)' /\ Owes(s, v)'
      BY <1>2, <2>1, <2>2, <2>3 DEF Adds, Owes, HasTag
    <2> QED
      BY <1>2, <2>1, <2>3, <2>5, <2>6, <2>7 DEF Commits
  <1>5. ASSUME NEW k \in Ids, NEW v \in Tags, SaveEdited(s, k, v, restart) PROVE Commits(s)
    <2> DEFINE row == [tag |-> v, by |-> s]
    <2> DEFINE old == table[k].tag
    <2>1. /\ pc[s] = "idle" /\ pc' = [pc EXCEPT ![s] = "committed"] /\ pc'[s] = "committed"
          /\ table' = [table EXCEPT ![k] = row] /\ plan'[s].reload = {k} /\ plan'[s].remove = {old} \ {v}
          /\ \A q \in Savers : q # s => plan'[q] = plan[q]
          /\ UNCHANGED <<core, served, owner, loaded, drift>>
          /\ table[k] # Absent /\ (v = old \/ v \notin TagsOf(table))
      BY <1>3, <1>5 DEF SaveEdited
    <2>2. row \in Rows /\ row # Absent /\ row.tag = v /\ old \in Tags /\ HasTag(table, k, old)
      BY <1>2, <2>1, RowType DEF HasTag
    <2>3. \A q \in Savers : table[q] = Absent => q # k
      BY <2>1
    <2> HIDE DEF row, old
    <2>4. table' \in Tables /\ table'[k] = row /\ \A i \in Ids : i # k => table'[i] = table[i]
      BY <1>2, <2>1, <2>2 DEF Tables
    <2>5. \A i \in Ids : i # k => ~HasTag(table, i, v)
      BY <1>2, <2>1, <2>2, TagsOfRows DEF Unique
    <2>6. Unique(table')
      BY <1>2, <2>2, <2>4, <2>5 DEF Unique, HasTag
    <2>7. ASSUME NEW t \in Tags, t # v, t # old, NEW i \in Ids, HasTag(table, i, t) \/ HasTag(table', i, t)
          PROVE  table'[i] = table[i]
      BY <2>2, <2>4, <2>7 DEF HasTag
    <2>8. Adds(s, v)' /\ Owes(s, v)'
      BY <1>2, <2>1, <2>2, <2>4 DEF Adds, Owes, HasTag
    <2>9. ASSUME NEW t \in Tags, t = old, t # v PROVE Owes(s, t)' /\ t \notin TagsOf(table')
      <3>1. Owes(s, t)'
        BY <2>1, <2>9 DEF Owes
      <3>2. \A i \in Ids : ~HasTag(table', i, t)
        BY <1>2, <2>2, <2>4, <2>9 DEF HasTag, Unique
      <3> QED
        BY <2>4, <3>1, <3>2, TagsOfRows
    <2> QED
      BY <1>2, <2>1, <2>3, <2>4, <2>6, <2>7, <2>8, <2>9 DEF Commits
  <1>6. ASSUME NEW v \in Tags, SaveDeleted(s, v, restart) PROVE Commits(s)
    <2> DEFINE rows == [i \in Ids |-> IF table[i] # Absent /\ table[i].tag = v THEN Absent ELSE table[i]]
    <2>1. /\ pc[s] = "idle" /\ pc' = [pc EXCEPT ![s] = "committed"] /\ pc'[s] = "committed"
          /\ table' = rows /\ plan'[s].remove = {v}
          /\ \A q \in Savers : q # s => plan'[q] = plan[q]
          /\ UNCHANGED <<core, served, owner, loaded, drift>>
      BY <1>3, <1>6 DEF SaveDeleted
    <2>2. rows \in Tables
      BY <1>2 DEF Tables
    <2>3. \A i \in Ids : rows[i] = IF HasTag(table, i, v) THEN Absent ELSE table[i]
      BY DEF HasTag
    <2> HIDE DEF rows
    <2>4. Unique(rows) /\ \A i \in Ids : ~HasTag(rows, i, v)
      BY <1>2, <2>3 DEF Unique, HasTag
    <2>5. ASSUME NEW t \in Tags, t # v, NEW i \in Ids, HasTag(table, i, t) \/ HasTag(rows, i, t)
          PROVE  rows[i] = table[i]
      BY <2>3, <2>5 DEF HasTag
    <2>6. Owes(s, v)' /\ v \notin TagsOf(rows)
      BY <2>1, <2>2, <2>4, TagsOfRows DEF Owes
    <2>7. \A q \in Savers : table[q] = Absent => rows[q] = Absent
      BY <1>2, <2>3
    <2> QED
      BY <1>2, <2>1, <2>2, <2>4, <2>5, <2>6, <2>7 DEF Commits
  <1>7. CASE SaveOther(s, restart)
    BY <1>2, <1>3, <1>7 DEF SaveOther, Commits
  <1> QED
    BY <1>1, <1>4, <1>5, <1>6, <1>7

(* A commit leaves what is served and what was read fresh but for its debt. *)
LEMMA SaveSyncs ==
  ASSUME IInv, SyncInv, NEW s \in Savers, Save(s)
  PROVE  SyncInv'
  <1>1. Commits(s)
    BY SaveCommits DEF SyncInv
  <1>2. /\ table \in Tables /\ Unique(table) /\ table' \in Tables /\ Unique(table') /\ s \in Operations
        /\ \A q \in Savers : q \in Operations
        /\ pc'[s] = "committed" /\ \A q \in Operations : q # s => pc'[q] = pc[q]
    BY <1>1 DEF Commits, SyncInv, RowsInv, IInv, TypeOK, Operations
  <1>3. \A t \in Tags : ~Owes(s, t) /\ ~Adds(s, t)
    BY <1>1 DEF Commits, Owes, Adds
  (* Either the save owes the tag, or the tag and its other debts are as before. *)
  <1>4. ASSUME NEW t \in Tags
        PROVE  \/ Owes(s, t)' /\ (t \in TagsOf(table') => Adds(s, t)')
               \/ /\ Serving(table')[t] = Serving(table)[t]
                  /\ t \in TagsOf(table') <=> t \in TagsOf(table)
                  /\ \A q \in Savers : /\ Owes(q, t) => q # s /\ Owes(q, t)'
                                       /\ Adds(q, t) => q # s /\ Adds(q, t)'
    <2>1. CASE \A i \in Ids : HasTag(table, i, t) \/ HasTag(table', i, t) => table'[i] = table[i]
      <3>1. Serving(table')[t] = Serving(table)[t] /\ (t \in TagsOf(table') <=> t \in TagsOf(table))
        BY <1>2, <2>1, SameRow
      <3>2. ASSUME NEW q \in Savers, q # s
            PROVE  (Owes(q, t) => Owes(q, t)') /\ (Adds(q, t) => Adds(q, t)')
        <4>1. pc'[q] = pc[q] /\ plan'[q] = plan[q] /\ loaded' = loaded
          BY <1>1, <1>2, <3>2 DEF Commits
        <4>2. \A i \in Ids : HasTag(table, i, t) => HasTag(table', i, t)
          BY <2>1 DEF HasTag
        <4>3. plan[q].reload \subseteq Ids
          BY DEF IInv, TypeOK, Plans
        <4>4. Adds(q, t) => Adds(q, t)'
          BY <4>1, <4>2, <4>3 DEF Adds, HasTag
        <4> QED
          BY <4>1, <4>4 DEF Owes
      <3> QED
        BY <1>3, <3>1, <3>2
    <2> QED
      BY <1>1, <2>1 DEF Commits
  <1>5. TagsOf(table') \subseteq Tags
    BY <1>2, ServingType
  <1>6. RowsInv'
    BY <1>1, <1>2 DEF Commits, SyncInv, RowsInv, Unique, HasTag
  <1>7. DownInv'
    BY <1>1, <1>2 DEF Commits, SyncInv, DownInv
  <1>8. UNCHANGED <<core, served, loaded, drift>> /\ (Clean' <=> Clean)
    BY <1>1 DEF Commits, Clean
  <1>9. FreshInv'
    <2> SUFFICES ASSUME core = "running", Clean, NEW t \in Tags
                 PROVE  Fresh(served[t], t)' \/ \E q \in Savers : Owes(q, t)'
      BY <1>8 DEF FreshInv
    <2>1. Fresh(served[t], t) \/ \E q \in Savers : Owes(q, t)
      BY DEF SyncInv, FreshInv
    <2> QED
      BY <1>4, <1>8, <2>1 DEF Fresh
  <1>10. PresentInv'
    <2> SUFFICES ASSUME core = "running", Clean, NEW t \in TagsOf(table') \ drift.lost
                 PROVE  served[t] # Absent \/ \E q \in Savers : Adds(q, t)'
      BY <1>8 DEF PresentInv
    <2>1. t \in TagsOf(table) => served[t] # Absent \/ \E q \in Savers : Adds(q, t)
      BY DEF SyncInv, PresentInv
    <2> QED
      BY <1>4, <1>5, <2>1
  <1>11. LoadedFreshInv'
    <2> SUFFICES ASSUME NEW p \in Operations, pc'[p] \in {"replace", "boot"}, Clean, NEW t \in Tags
                 PROVE  Fresh(Serving(loaded)[t], t)' \/ \E q \in Savers \ {p} : Owes(q, t)'
      BY <1>8 DEF LoadedFreshInv
    <2>1. p # s /\ pc[p] \in {"replace", "boot"}
      BY <1>2
    <2>2. Fresh(Serving(loaded)[t], t) \/ \E q \in Savers \ {p} : Owes(q, t)
      BY <2>1 DEF SyncInv, LoadedFreshInv
    <2> QED
      BY <1>4, <1>8, <2>1, <2>2 DEF Fresh
  <1>12. LoadedPresentInv'
    <2> SUFFICES ASSUME NEW p \in Operations, pc'[p] = "boot", Clean, NEW t \in TagsOf(table')
                 PROVE  t \in TagsOf(loaded) \/ \E q \in Savers \ {p} : Adds(q, t)'
      BY <1>8 DEF LoadedPresentInv
    <2>1. p # s /\ pc[p] = "boot"
      BY <1>2
    <2>2. t \in TagsOf(table) => t \in TagsOf(loaded) \/ \E q \in Savers \ {p} : Adds(q, t)
      BY <2>1 DEF SyncInv, LoadedPresentInv
    <2> QED
      BY <1>4, <1>5, <2>1, <2>2
  <1> QED
    BY <1>6, <1>7, <1>9, <1>10, <1>11, <1>12 DEF SyncInv

(* A save that is about to restart the core owes everything. *)
LEMMA RestartingStep ==
  ASSUME IInv, SyncInv, NEW s \in Savers, owner = s, pc' = [pc EXCEPT ![s] = "restart"],
         table' = table, loaded' = NoRows
  PROVE  SyncInv'
  <1>1. s \in Operations /\ \A q \in Savers : q \in Operations
    BY DEF Operations
  <1>2. \A q \in Operations : pc'[q] \notin {"replace", "boot", "start"}
    BY <1>1, OthersWait DEF OwnedSteps
  <1>3. \A t \in Tags : Adds(s, t)' /\ Owes(s, t)'
    BY <1>1, OthersWait DEF Adds, Owes
  <1>4. TagsOf(table) \subseteq Tags
    BY ServingType DEF IInv, TypeOK
  <1>5. RowsInv'
    <2>1. Unique(NoRows)
      BY DEF Unique, HasTag, NoRows
    <2> QED
      BY <1>1, <2>1, OthersWait DEF SyncInv, RowsInv, Unique, HasTag
  <1>6. DownInv' /\ LoadedFreshInv' /\ LoadedPresentInv'
    BY <1>1, <1>2 DEF DownInv, LoadedFreshInv, LoadedPresentInv
  <1>7. FreshInv' /\ PresentInv'
    BY <1>3, <1>4 DEF FreshInv, PresentInv
  <1> QED
    BY <1>5, <1>6, <1>7 DEF SyncInv

(* The deferred end of an operation. *)
LEMMA LeaveEffect ==
  ASSUME NEW p \in Operations, NEW outcome, outcome # "idle", Leave(p, outcome)
  PROVE  /\ \E x \in {outcome, "idle"} :
              /\ pc' = [pc EXCEPT ![p] = x] /\ (p \in Savers => x = outcome)
         /\ \A s \in Savers : s # p => plan'[s] = plan[s]
         /\ loaded' = NoRows
BY DEF Leave

(* The caller of a save learns that it failed. *)
LEMMA TellEffect ==
  ASSUME IInv, NEW p \in Operations, Tell(p)
  PROVE  (p \in Savers => ~Clean') /\ (p \notin Savers => drift' = drift)
BY DEF Tell, Clean, IInv, TypeOK, Drifts

(* An operation that fails, without touching the core. *)
LEMMA FailingStep ==
  ASSUME IInv, SyncInv, NEW p \in Operations, owner = p, Leave(p, "failed"), Tell(p),
         UNCHANGED <<table, core, served>>
  PROVE  SyncInv'
  <1>1. PICK x \in {"failed", "idle"} : pc' = [pc EXCEPT ![p] = x] /\ (p \in Savers => x = "failed")
    BY LeaveEffect
  <1>2. (\A s \in Savers : s # p => plan'[s] = plan[s]) /\ loaded' = NoRows
    BY LeaveEffect
  <1>3. CASE p \in Savers
    BY <1>1, <1>2, <1>3, TellEffect, ExcusedStep
  <1>4. CASE p \notin Savers
    BY <1>1, <1>2, <1>4, TellEffect, PassingStep
  <1> QED
    BY <1>3, <1>4

(* An operation ends with the core stopped. *)
LEMMA StoppedStep ==
  ASSUME IInv, SyncInv, NEW p \in Operations, owner = p, NEW outcome \in {"applied", "failed"}, Leave(p, outcome),
         table' = table, core' = "stopped"
  PROVE  SyncInv'
  <1>1. PICK x \in {outcome, "idle"} : pc' = [pc EXCEPT ![p] = x] /\ (p \in Savers => x = outcome)
    BY LeaveEffect
  <1>2. loaded' = NoRows
    BY LeaveEffect
  <1> QED
    BY <1>1, <1>2, ExcusedStep

(* maintenanceHeldLocked ends an operation with the core stopped or an error. *)
LEMMA HeldSyncs ==
  ASSUME IInv, SyncInv, NEW p \in Operations, owner = p, MaintenanceHeld(p)
  PROVE  SyncInv'
  <1>1. table' = table
    BY DEF MaintenanceHeld, durable
  <1>2. CASE Leave(p, "failed") /\ Tell(p) /\ UNCHANGED running
    BY <1>1, <1>2, FailingStep DEF running
  <1>3. CASE Leave(p, "applied") /\ core' = "stopped"
    BY <1>1, <1>3, StoppedStep
  <1> QED
    BY <1>2, <1>3 DEF MaintenanceHeld, StopCore, running

(* applyCoreSaveEffectLocked, up to the removals. *)
LEMMA ApplySyncs ==
  ASSUME IInv, SyncInv, NEW s \in Savers, ApplySave(s)
  PROVE  SyncInv'
  <1>1. s \in Operations /\ owner = s /\ pc[s] = "check"
    BY DEF ApplySave, Owns, Operations
  <1>2. CASE MaintenanceHeld(s)
    BY <1>1, <1>2, HeldSyncs
  <1>3. ASSUME NEW x, Proceed(s, x)
        PROVE  /\ pc' = [pc EXCEPT ![s] = x] /\ pc'[s] = x /\ plan' = plan
               /\ UNCHANGED <<table, core, served, drift, loaded>>
    BY <1>1, <1>3 DEF Proceed, Goto, durable, running, IInv, TypeOK
  <1>4. CASE core = "stopped" /\ Proceed(s, "start")
    <2>1. /\ pc' = [pc EXCEPT ![s] = "start"] /\ plan' = plan
          /\ UNCHANGED <<table, core, served, drift, loaded>>
      BY <1>3, <1>4
    <2> QED
      <3> DEFINE x == "start"
      <3>1. pc' = [pc EXCEPT ![s] = x] /\ table' = table /\ loaded' = loaded /\ core' = core /\ core' = "stopped"
        BY <1>4, <2>1
      <3>2. x \notin {"replace", "boot"} /\ x # "idle"
        OBVIOUS
      <3> HIDE DEF x
      <3> QED
        BY <1>1, <3>1, <3>2, ExcusedStep
  <1>5. CASE Proceed(s, "restart")
    <2>1. /\ pc' = [pc EXCEPT ![s] = "restart"] /\ pc'[s] = "restart" /\ plan' = plan
          /\ UNCHANGED <<table, core, served, drift, loaded>>
      BY <1>3, <1>5
    <2>2. \A t \in Tags : Adds(s, t)' /\ Owes(s, t)'
      BY <2>1 DEF Adds, Owes
    <2> QED
      BY <1>1, <2>1, <2>2, PassingStep
  <1>6. CASE plan[s].restart = "no" /\ Proceed(s, "remove")
    <2>1. /\ pc' = [pc EXCEPT ![s] = "remove"] /\ pc'[s] = "remove" /\ plan' = plan
          /\ UNCHANGED <<table, core, served, drift, loaded>>
      BY <1>3, <1>6
    <2>2. \A t \in Tags : (Adds(s, t) => Adds(s, t)') /\ (Owes(s, t) => Owes(s, t)')
      BY <1>1, <1>6, <2>1 DEF Adds, Owes, HasTag
    <2> QED
      BY <1>1, <2>1, <2>2, PassingStep
  <1>7. CASE /\ plan[s].restart = "no" /\ ~HasObjectChanges(plan[s]) /\ Leave(s, "applied")
             /\ UNCHANGED << durable, running, cooldown, drift, asked >>
    <2>1. PICK x \in {"applied", "idle"} : pc' = [pc EXCEPT ![s] = x] /\ x = "applied"
      BY <1>1, <1>7, LeaveEffect
    <2>2. (\A q \in Savers : q # s => plan'[q] = plan[q]) /\ loaded' = NoRows
      BY <1>1, <1>7, LeaveEffect
    <2>3. \A t \in Tags : ~Adds(s, t) /\ ~Owes(s, t)
      BY <1>1, <1>7 DEF Adds, Owes, HasObjectChanges
    <2>4. UNCHANGED <<table, core, served, drift>>
      BY <1>7 DEF durable, running
    <2> QED
      BY <1>1, <2>1, <2>2, <2>3, <2>4, PassingStep
  <1> QED
    BY <1>2, <1>4, <1>5, <1>6, <1>7 DEF ApplySave

(* FallBack: a hot change that fails ends in a restart. *)
LEMMA FallBackSyncs ==
  ASSUME IInv, SyncInv, NEW s \in Savers, owner = s, FallBack(s)
  PROVE  SyncInv'
BY RestartingStep DEF FallBack, Goto, durable

(* executeObjectRemovals: the tags are gone from the core; those that a row *)
(* has are lost until they are added again.                                 *)
LEMMA RemoveSyncs ==
  ASSUME IInv, SyncInv, NEW s \in Savers, RemoveObjects(s)
  PROVE  SyncInv'
  <1>1. s \in Operations /\ owner = s /\ pc[s] = "remove" /\ \A q \in Savers : q \in Operations
    BY DEF RemoveObjects, Owns, Operations
  <1>2. CASE FallBack(s)
    BY <1>1, <1>2, FallBackSyncs
  <1>3. CASE ~FallBack(s)
    <2>1. /\ served' = [t \in Tags |-> IF t \in plan[s].remove THEN Absent ELSE served[t]]
          /\ drift' = [drift EXCEPT !.lost = @ \union (plan[s].remove \intersect TagsOf(table))]
          /\ pc' = [pc EXCEPT ![s] = "load"] /\ UNCHANGED <<table, core, plan, loaded>>
      BY <1>3 DEF RemoveObjects, Goto, durable
    <2>2. drift'.lost = drift.lost \union (plan[s].remove \intersect TagsOf(table)) /\ (Clean' <=> Clean)
      BY <2>1 DEF IInv, TypeOK, Drifts, Clean
    <2>3. \A q \in Operations : pc'[q] \notin {"replace", "boot"}
      BY <1>1, <2>1, OthersWait DEF OwnedSteps
    <2>4. RowsInv' /\ DownInv'
      BY <1>1, <2>1, OthersWait DEF SyncInv, RowsInv, DownInv, Unique, HasTag, OwnedSteps
    <2>5. ASSUME NEW q \in Savers, NEW t \in Tags
          PROVE  (Adds(q, t) => Adds(q, t)') /\ (Owes(q, t) /\ t \notin plan[s].remove => Owes(q, t)')
      <3>1. CASE q = s
        <4>1. pc'[s] = "load"
          BY <1>1, <2>1, OthersWait
        <4> QED
          BY <1>1, <2>1, <3>1, <4>1 DEF Adds, Owes, HasTag
      <3>2. CASE q # s
        BY <1>1, <2>1, <3>2, OthersKeep
      <3> QED
        BY <3>1, <3>2
    <2>6. FreshInv'
      <3> SUFFICES ASSUME core = "running", Clean, NEW t \in Tags
                   PROVE  Fresh(served[t], t)' \/ \E q \in Savers : Owes(q, t)'
        BY <2>1, <2>2 DEF FreshInv
      <3>1. CASE t \in plan[s].remove
        BY <2>1, <3>1 DEF Fresh
      <3>2. CASE t \notin plan[s].remove
        <4>1. Fresh(served[t], t) \/ \E q \in Savers : Owes(q, t)
          BY DEF SyncInv, FreshInv
        <4>2. served'[t] = served[t]
          BY <2>1, <3>2
        <4> QED
          BY <2>1, <2>5, <3>2, <4>1, <4>2 DEF Fresh
      <3> QED
        BY <3>1, <3>2
    <2>7. PresentInv'
      <3> SUFFICES ASSUME core = "running", Clean, NEW t \in TagsOf(table) \ drift'.lost
                   PROVE  served'[t] # Absent \/ \E q \in Savers : Adds(q, t)'
        BY <2>1, <2>2 DEF PresentInv
      <3>1. t \in Tags /\ t \notin drift.lost /\ t \notin plan[s].remove
        BY <2>2, ServingType DEF IInv, TypeOK
      <3>2. served[t] # Absent \/ \E q \in Savers : Adds(q, t)
        BY <3>1 DEF SyncInv, PresentInv
      <3>3. served'[t] = served[t]
        BY <2>1, <3>1
      <3> QED
        BY <2>5, <3>1, <3>2, <3>3
    <2>8. LoadedFreshInv' /\ LoadedPresentInv'
      BY <2>3 DEF LoadedFreshInv, LoadedPresentInv
    <2> QED
      BY <2>4, <2>6, <2>7, <2>8 DEF SyncInv
  <1> QED
    BY <1>2, <1>3

(* What an owner reads is fresh when it reads it. *)
LEMMA ReadingStep ==
  ASSUME IInv, SyncInv, NEW p \in Operations, owner = p, NEW x \in {"replace", "boot"}, pc' = [pc EXCEPT ![p] = x],
         loaded' = table, UNCHANGED <<table, core, served, drift, plan>>,
         p \in Savers /\ core = "running" =>
           \A t \in Tags : (Adds(p, t) => Adds(p, t)') /\ (Owes(p, t) => Owes(p, t)')
  PROVE  SyncInv'
  <1>1. \A q \in Savers : q \in Operations
    BY DEF Operations
  <1>2. \A q \in Operations : q # p => pc'[q] \notin {"replace", "boot", "start"} /\ pc'[q] = pc[q]
    BY OthersWait DEF OwnedSteps
  <1>3. RowsInv' /\ DownInv'
    BY <1>1, <1>2, OthersWait DEF SyncInv, RowsInv, DownInv, Unique, HasTag
  <1>4. ASSUME core = "running", NEW s \in Savers, NEW t \in Tags
        PROVE  (Adds(s, t) => Adds(s, t)') /\ (Owes(s, t) => Owes(s, t)')
    BY <1>4, OthersKeep
  <1>5. FreshInv'
    <2> SUFFICES ASSUME core = "running", Clean, NEW t \in Tags
                 PROVE  Fresh(served[t], t)' \/ \E s \in Savers : Owes(s, t)'
      BY DEF FreshInv, Clean
    <2> QED
      BY <1>4 DEF SyncInv, FreshInv, Fresh
  <1>6. PresentInv'
    <2> SUFFICES ASSUME core = "running", Clean, NEW t \in TagsOf(table) \ drift.lost
                 PROVE  served[t] # Absent \/ \E s \in Savers : Adds(s, t)'
      BY DEF PresentInv, Clean
    <2>1. t \in Tags
      BY ServingType DEF IInv, TypeOK
    <2> QED
      BY <1>4, <2>1 DEF SyncInv, PresentInv
  <1>7. LoadedFreshInv'
    BY <1>2 DEF LoadedFreshInv, Fresh
  <1>8. LoadedPresentInv'
    BY <1>2 DEF LoadedPresentInv
  <1> QED
    BY <1>3, <1>5, <1>6, <1>7, <1>8 DEF SyncInv

(* The view of the rows to replace. *)
LEMMA LoadSyncs ==
  ASSUME IInv, SyncInv, NEW s \in Savers, LoadRows(s)
  PROVE  SyncInv'
  <1>1. s \in Operations /\ owner = s /\ pc[s] = "load"
    BY DEF LoadRows, Owns, Operations
  <1>2. CASE FallBack(s)
    BY <1>1, <1>2, FallBackSyncs
  <1>3. CASE ~FallBack(s)
    <2>1. /\ loaded' = table /\ pc' = [pc EXCEPT ![s] = "replace"]
          /\ UNCHANGED <<table, core, served, drift, plan>>
      BY <1>3 DEF LoadRows, Goto, durable, running
    <2>2. pc'[s] = "replace"
      BY <1>1, <2>1, OthersWait
    <2>3. \A t \in Tags : (Adds(s, t) => Adds(s, t)') /\ (Owes(s, t) => Owes(s, t)')
      BY <1>1, <2>1, <2>2 DEF Adds, Owes, HasTag
    <2> QED
      BY <1>1, <2>1, <2>3, ReadingStep
  <1> QED
    BY <1>2, <1>3

(* The rows of a save that still exist are removed and added again. *)
LEMMA ReplaceSyncs ==
  ASSUME IInv, SyncInv, NEW s \in Savers, ReplaceRows(s)
  PROVE  SyncInv'
  <1> DEFINE rows == [i \in Ids |-> IF i \in plan[s].reload THEN loaded[i] ELSE Absent]
  <1>1. s \in Operations /\ owner = s /\ pc[s] = "replace" /\ \A q \in Savers : q \in Operations
    BY DEF ReplaceRows, Owns, Operations
  <1>2. CASE FallBack(s)
    BY <1>1, <1>2, FallBackSyncs
  <1>3. CASE ~FallBack(s)
    <2>1. /\ served' = [t \in Tags |-> IF t \in TagsOf(rows) THEN Serving(rows)[t] ELSE served[t]]
          /\ drift' = [drift EXCEPT !.lost = @ \ TagsOf(rows)]
          /\ Leave(s, "applied") /\ UNCHANGED <<table, core>>
      BY <1>3 DEF ReplaceRows, durable
    <2>2. /\ pc' = [pc EXCEPT ![s] = "applied"] /\ loaded' = NoRows
          /\ \A q \in Savers : q # s => plan'[q] = plan[q]
      BY <1>1, <2>1, LeaveEffect
    <2>3. loaded \in Tables /\ Unique(loaded) /\ table \in Tables
      BY DEF IInv, TypeOK, SyncInv, RowsInv
    <2>4. /\ rows \in Tables
          /\ \A i \in Ids : \A t \in Tags : HasTag(rows, i, t) <=> i \in plan[s].reload /\ HasTag(loaded, i, t)
      BY <2>3 DEF Tables, HasTag
    <2>5. \A i \in Ids : i \in plan[s].reload => rows[i] = loaded[i]
      OBVIOUS
    <2> HIDE DEF rows
    <2>6. Unique(rows)
      BY <2>3, <2>4 DEF Unique
    <2>7. ASSUME NEW t \in Tags, t \in TagsOf(rows)
          PROVE  Serving(rows)[t] = Serving(loaded)[t] /\ Serving(rows)[t] # Absent
      <3>1. PICK i \in Ids : HasTag(rows, i, t)
        BY <2>4, <2>7, TagsOfRows
      <3> QED
        BY <2>3, <2>4, <2>5, <2>6, <3>1, ServingRow
    <2>8. ASSUME NEW t \in Tags, t \notin TagsOf(rows) PROVE ~Adds(s, t) /\ ~Owes(s, t)
      <3>1. plan[s].reload \subseteq Ids
        BY DEF IInv, TypeOK, Plans
      <3>2. \A i \in plan[s].reload : ~HasTag(loaded, i, t)
        BY <2>4, <2>8, <3>1, TagsOfRows
      <3> QED
        BY <1>1, <3>2 DEF Adds, Owes
    <2>9. \A q \in Savers \ {s} : \A t \in Tags : (Adds(q, t)' <=> Adds(q, t)) /\ (Owes(q, t)' <=> Owes(q, t))
      BY <1>1, <2>1, <2>2, OthersKeep
    <2>10. drift'.lost = drift.lost \ TagsOf(rows) /\ (Clean' <=> Clean)
      BY <2>1 DEF IInv, TypeOK, Drifts, Clean
    <2>11. \A q \in Operations : pc'[q] \notin {"replace", "boot"}
      BY <1>1, <2>2, OthersWait DEF OwnedSteps
    <2>12. RowsInv' /\ DownInv'
      <3>1. Unique(NoRows)
        BY DEF Unique, HasTag, NoRows
      <3> QED
        BY <1>1, <2>1, <2>2, <3>1, OthersWait DEF SyncInv, RowsInv, DownInv, Unique, HasTag, OwnedSteps
    <2>13. FreshInv'
      <3> SUFFICES ASSUME core = "running", Clean, NEW t \in Tags
                   PROVE  Fresh(served[t], t)' \/ \E q \in Savers : Owes(q, t)'
        BY <2>1, <2>10 DEF FreshInv
      <3>1. CASE t \in TagsOf(rows)
        <4>1. served'[t] = Serving(loaded)[t]
          BY <2>1, <2>7, <3>1
        <4>2. Fresh(Serving(loaded)[t], t) \/ \E q \in Savers \ {s} : Owes(q, t)
          BY <1>1 DEF SyncInv, LoadedFreshInv
        <4> QED
          BY <2>1, <2>9, <4>1, <4>2 DEF Fresh
      <3>2. CASE t \notin TagsOf(rows)
        <4>1. served'[t] = served[t]
          BY <2>1, <3>2
        <4>2. Fresh(served[t], t) \/ \E q \in Savers \ {s} : Owes(q, t)
          BY <2>8, <3>2 DEF SyncInv, FreshInv
        <4> QED
          BY <2>1, <2>9, <4>1, <4>2 DEF Fresh
      <3> QED
        BY <3>1, <3>2
    <2>14. PresentInv'
      <3> SUFFICES ASSUME core = "running", Clean, NEW t \in TagsOf(table) \ drift'.lost
                   PROVE  served'[t] # Absent \/ \E q \in Savers : Adds(q, t)'
        BY <2>1, <2>10 DEF PresentInv
      <3>1. t \in Tags
        BY <2>3, ServingType
      <3>2. CASE t \in TagsOf(rows)
        BY <2>1, <2>7, <3>1, <3>2
      <3>3. CASE t \notin TagsOf(rows)
        <4>1. served'[t] = served[t] /\ t \notin drift.lost
          BY <2>1, <2>10, <3>1, <3>3
        <4>2. served[t] # Absent \/ \E q \in Savers \ {s} : Adds(q, t)
          BY <2>8, <3>1, <3>3, <4>1 DEF SyncInv, PresentInv
        <4> QED
          BY <2>9, <3>1, <4>1, <4>2
      <3> QED
        BY <3>2, <3>3
    <2>15. LoadedFreshInv' /\ LoadedPresentInv'
      BY <2>11 DEF LoadedFreshInv, LoadedPresentInv
    <2> QED
      BY <2>12, <2>13, <2>14, <2>15 DEF SyncInv
  <1> QED
    BY <1>2, <1>3

(* applySave from the transaction's end to the last replacement. *)
LEMMA SaveStepSyncs ==
  ASSUME IInv, SyncInv, NEW s \in Savers, SaveStep(s)
  PROVE  SyncInv'
  <1>1. CASE AcquireForSave(s)
    <2>1. s \in Operations /\ \A q \in Savers : q \in Operations
      BY DEF Operations
    <2>2. /\ pc[s] = "committed" /\ pc' = [pc EXCEPT ![s] = "check"] /\ owner = Nobody
          /\ UNCHANGED <<table, core, served, plan, loaded, drift>>
      BY <1>1 DEF AcquireForSave, durable, running
    <2>3. /\ pc'[s] = "check" /\ \A q \in Operations : q # s => pc'[q] = pc[q]
          /\ \A q \in Operations : pc[q] \notin OwnedSteps
      BY <2>1, <2>2 DEF IInv, TypeOK, OwnedInv
    <2>4. \A q \in Savers : \A t \in Tags : (Adds(q, t)' <=> Adds(q, t)) /\ (Owes(q, t)' <=> Owes(q, t))
      <3>1. ASSUME NEW q \in Savers, q # s, NEW t \in Tags
            PROVE  (Adds(q, t)' <=> Adds(q, t)) /\ (Owes(q, t)' <=> Owes(q, t))
        BY <2>1, <2>2, <2>3, <3>1, DebtStays
      <3>2. ASSUME NEW t \in Tags
            PROVE  (Adds(s, t)' <=> Adds(s, t)) /\ (Owes(s, t)' <=> Owes(s, t))
        BY <2>2, <2>3 DEF Adds, Owes, HasTag
      <3> QED
        BY <3>1, <3>2
    <2>5. RowsInv' /\ DownInv'
      BY <2>1, <2>2, <2>3 DEF SyncInv, RowsInv, DownInv, Unique, HasTag
    <2>6. TagsOf(table) \subseteq Tags
      BY ServingType DEF IInv, TypeOK
    <2>7. FreshInv' /\ PresentInv'
      BY <2>2, <2>4, <2>6 DEF SyncInv, FreshInv, PresentInv, Fresh, Clean
    <2>8. LoadedFreshInv' /\ LoadedPresentInv'
      BY <2>3 DEF LoadedFreshInv, LoadedPresentInv, OwnedSteps
    <2> QED
      BY <2>5, <2>7, <2>8 DEF SyncInv
  <1> QED
    BY <1>1, ApplySyncs, RemoveSyncs, LoadSyncs, ReplaceSyncs DEF SaveStep

(* StartWithBindings: the core serves what was read for it. *)
LEMMA BootSyncs ==
  ASSUME IInv, SyncInv, NEW p \in Operations, BootCore(p)
  PROVE  SyncInv'
  <1>1. /\ owner = p /\ pc[p] = "boot" /\ core = "stopped" /\ table' = table
        /\ \A q \in Savers : q \in Operations
    BY DEF BootCore, Owns, IInv, StartingInv, durable, Operations
  <1>2. CASE Leave(p, "failed") /\ core' = core
    BY <1>1, <1>2, StoppedStep
  <1>3. CASE core' = "running" /\ served' = Serving(loaded) /\ Leave(p, "applied") /\ UNCHANGED drift
    <2>1. PICK x \in {"applied", "idle"} : pc' = [pc EXCEPT ![p] = x] /\ (p \in Savers => x = "applied")
      BY <1>3, LeaveEffect
    <2>2. (\A s \in Savers : s # p => plan'[s] = plan[s]) /\ loaded' = NoRows
      BY <1>3, LeaveEffect
    <2>3. \A q \in Operations : pc'[q] \notin {"replace", "boot", "start"}
      BY <1>1, <2>1, OthersWait DEF OwnedSteps
    <2>4. \A s \in Savers \ {p} : \A t \in Tags : (Adds(s, t)' <=> Adds(s, t)) /\ (Owes(s, t)' <=> Owes(s, t))
      BY <1>1, <2>1, <2>2, OthersKeep
    <2>5. loaded \in Tables /\ Unique(loaded) /\ table \in Tables /\ (Clean' <=> Clean)
      BY <1>3 DEF IInv, TypeOK, SyncInv, RowsInv, Clean
    <2>6. RowsInv'
      <3>1. Unique(NoRows)
        BY DEF Unique, HasTag, NoRows
      <3> QED
        BY <1>1, <2>1, <2>2, <3>1, OthersWait DEF SyncInv, RowsInv, Unique, HasTag
    <2>7. DownInv'
      BY <1>1, <2>3 DEF DownInv
    <2>8. FreshInv'
      <3> SUFFICES ASSUME Clean, NEW t \in Tags
                   PROVE  Fresh(served[t], t)' \/ \E s \in Savers : Owes(s, t)'
        BY <2>5 DEF FreshInv
      <3>1. Fresh(Serving(loaded)[t], t) \/ \E s \in Savers \ {p} : Owes(s, t)
        BY <1>1 DEF SyncInv, LoadedFreshInv
      <3> QED
        BY <1>1, <1>3, <2>4, <3>1 DEF Fresh
    <2>9. PresentInv'
      <3> SUFFICES ASSUME Clean, NEW t \in TagsOf(table)
                   PROVE  served'[t] # Absent \/ \E s \in Savers : Adds(s, t)'
        BY <1>1, <2>5 DEF PresentInv
      <3>1. t \in Tags
        BY <2>5, ServingType
      <3>2. t \in TagsOf(loaded) \/ \E s \in Savers \ {p} : Adds(s, t)
        BY <1>1 DEF SyncInv, LoadedPresentInv
      <3>3. t \in TagsOf(loaded) => Serving(loaded)[t] # Absent
        BY <2>5, <3>1, ServingRow, TagsOfRows
      <3> QED
        BY <1>3, <2>4, <3>1, <3>2, <3>3
    <2>10. LoadedFreshInv' /\ LoadedPresentInv'
      BY <2>3 DEF LoadedFreshInv, LoadedPresentInv
    <2> QED
      BY <2>6, <2>7, <2>8, <2>9, <2>10 DEF SyncInv
  <1> QED
    BY <1>2, <1>3 DEF BootCore

(* Restarting, stopping and starting the core. *)
LEMMA OwnerStepSyncs ==
  ASSUME IInv, SyncInv, NEW p \in Operations, OwnerStep(p)
  PROVE  SyncInv'
  <1>1. ASSUME owner = p, GiveUp(p) PROVE SyncInv'
    BY <1>1, FailingStep DEF GiveUp, durable, running
  <1>2. CASE RestartCore(p)
    <2>1. owner = p /\ pc[p] = "restart"
      BY <1>2 DEF RestartCore, Owns
    <2>2. CASE MaintenanceHeld(p)
      BY <2>1, <2>2, HeldSyncs
    <2>3. CASE Proceed(p, "stop")
      <3> DEFINE x == "stop"
      <3>1. pc' = [pc EXCEPT ![p] = x] /\ plan' = plan /\ UNCHANGED <<table, core, served, drift, loaded>>
        BY <2>3 DEF Proceed, Goto, durable, running
      <3>2. pc'[p] = "stop"
        BY <2>1, <3>1, OthersWait
      <3>3. \A t \in Tags : Adds(p, t)' /\ Owes(p, t)'
        BY <3>2 DEF Adds, Owes
      <3>4. x \notin {"replace", "boot", "idle", "start"}
        OBVIOUS
      <3> HIDE DEF x
      <3> QED
        BY <2>1, <3>1, <3>3, <3>4, PassingStep
    <2> QED
      BY <1>1, <1>2, <2>1, <2>2, <2>3 DEF RestartCore
  <1>3. CASE StopLocked(p)
    <2>1. owner = p /\ core' = "stopped" /\ table' = table
      BY <1>3 DEF StopLocked, Owns, StopCore, durable
    <2>2. CASE \E outcome \in {"applied", "failed"} : Leave(p, outcome)
      BY <2>1, <2>2, StoppedStep
    <2>3. CASE Goto(p, "start") /\ UNCHANGED loaded
      <3> DEFINE x == "start"
      <3>1. pc' = [pc EXCEPT ![p] = x] /\ x \notin {"replace", "boot", "idle"}
        BY <2>3 DEF Goto
      <3> HIDE DEF x
      <3> QED
        BY <2>1, <2>3, <3>1, ExcusedStep
    <2>4. CASE pc' = [pc EXCEPT ![p] = "appStopped"] /\ UNCHANGED loaded
      <3> DEFINE x == "appStopped"
      <3>1. pc' = [pc EXCEPT ![p] = x] /\ x \notin {"replace", "boot", "idle"}
        BY <2>4
      <3> HIDE DEF x
      <3> QED
        BY <2>1, <2>4, <3>1, ExcusedStep
    <2> QED
      BY <1>3, <2>2, <2>3, <2>4 DEF StopLocked
  <1>4. CASE StartLocked(p)
    <2>1. owner = p /\ pc[p] = "start"
      BY <1>4 DEF StartLocked, Owns
    <2>2. CASE MaintenanceHeld(p)
      BY <2>1, <2>2, HeldSyncs
    <2>3. CASE /\ Leave(p, "applied") /\ UNCHANGED << durable, running, cooldown, drift, asked >>
      <3>1. PICK x \in {"applied", "idle"} : pc' = [pc EXCEPT ![p] = x] /\ (p \in Savers => x = "applied")
        BY <2>3, LeaveEffect
      <3>2. (\A s \in Savers : s # p => plan'[s] = plan[s]) /\ loaded' = NoRows
        BY <2>3, LeaveEffect
      <3>3. UNCHANGED <<table, core, served, drift>>
        BY <2>3 DEF durable, running
      <3>4. p \in Savers => core = "stopped"
        BY <2>1 DEF SyncInv, DownInv
      <3> QED
        BY <2>1, <3>1, <3>2, <3>3, <3>4, PassingStep
    <2>4. CASE core = "stopped" /\ Goto(p, "candidate") /\ UNCHANGED << durable, running, cooldown, plan, loaded, asked >>
      <3> DEFINE x == "candidate"
      <3>1. /\ pc' = [pc EXCEPT ![p] = x] /\ x \notin {"replace", "boot", "idle", "start"}
            /\ core' = "stopped" /\ core' = core /\ table' = table /\ loaded' = loaded
        BY <2>4 DEF Goto, durable, running
      <3> HIDE DEF x
      <3> QED
        BY <2>1, <3>1, ExcusedStep
    <2> QED
      BY <1>4, <2>2, <2>3, <2>4 DEF StartLocked
  <1>5. CASE BuildCandidate(p)
    <2>1. owner = p /\ pc[p] = "candidate" /\ core = "stopped"
      BY <1>5 DEF BuildCandidate, Owns, IInv, StartingInv
    <2>2. CASE /\ loaded' = table /\ Goto(p, "boot")
               /\ UNCHANGED << durable, running, cooldown, plan, drift, asked >>
      <3>1. pc' = [pc EXCEPT ![p] = "boot"] /\ UNCHANGED <<table, core, served, drift, plan>>
        BY <2>2 DEF Goto, durable, running
      <3> QED
        BY <2>1, <2>2, <3>1, ReadingStep
    <2> QED
      BY <1>1, <1>5, <2>1, <2>2 DEF BuildCandidate
  <1> QED
    BY <1>2, <1>3, <1>4, <1>5, BootSyncs DEF OwnerStep

(* Every step keeps the debts. *)
LEMMA NextSyncs == IInv /\ SyncInv /\ [Next]_vars => SyncInv'
  <1> SUFFICES ASSUME IInv, SyncInv, [Next]_vars PROVE SyncInv'
    OBVIOUS
  <1>1. /\ pc \in [Operations -> Steps] /\ Operator \in Operations /\ Health \in Operations
        /\ Admin \in Operations /\ App \in Operations
        /\ \A s \in Savers : s \in Operations /\ s \notin {Operator, Health, Admin, App}
    BY DEF IInv, TypeOK, Operations, Others
  <1>2. ASSUME NEW p \in {Operator, Health, Admin, App}, NEW x, x \notin {"replace", "boot"},
               pc' = [pc EXCEPT ![p] = x], UNCHANGED <<table, core, served, plan, loaded, drift>>
        PROVE  SyncInv'
    <2>1. p \in Operations /\ \A q \in Operations : q # p => pc'[q] = pc[q]
      BY <1>1, <1>2
    <2>2. pc'[p] = x /\ \A s \in Savers : pc'[s] = pc[s]
      BY <1>1, <1>2, <2>1
    <2> QED
      BY <1>2, <2>1, <2>2, QuietStep
  <1>3. ASSUME NEW s \in Savers, Save(s) \/ SaveStep(s) PROVE SyncInv'
    BY <1>3, SaveSyncs, SaveStepSyncs
  <1>4. ASSUME NEW p \in Operations, OwnerStep(p) PROVE SyncInv'
    BY <1>4, OwnerStepSyncs
  <1>5. CASE HealthTick
    BY <1>2, <1>5 DEF HealthTick, durable, running
  <1>6. ASSUME NEW value \in {"yes", "no"}, OperatorAsks(value) PROVE SyncInv'
    BY <1>2, <1>6 DEF OperatorAsks, durable
  <1>7. CASE AcquireForHold
    BY <1>2, <1>7 DEF AcquireForHold, durable, running
  <1>8. CASE CommitHold
    <2>1. owner = Operator /\ Operator \notin Savers /\ UNCHANGED <<table, core, served, drift>>
      BY <1>1, <1>8 DEF CommitHold, Owns, running
    <2>2. CASE Leave(Operator, "failed")
      <3>1. PICK x \in {"failed", "idle"} : pc' = [pc EXCEPT ![Operator] = x]
        BY <1>1, <2>2, LeaveEffect
      <3>2. (\A s \in Savers : s # Operator => plan'[s] = plan[s]) /\ loaded' = NoRows
        BY <1>1, <2>2, LeaveEffect
      <3> QED
        BY <1>1, <2>1, <3>1, <3>2, PassingStep
    <2>3. CASE Goto(Operator, IF wanted = "yes" THEN "stop" ELSE "start") /\ UNCHANGED <<plan, loaded>>
      <3> DEFINE x == IF wanted = "yes" THEN "stop" ELSE "start"
      <3>1. pc' = [pc EXCEPT ![Operator] = x] /\ UNCHANGED <<table, core, served, plan, loaded, drift>>
        BY <2>1, <2>3 DEF Goto
      <3>2. PICK step \in {"stop", "start"} : pc' = [pc EXCEPT ![Operator] = step]
        BY <3>1
      <3>3. step \notin {"replace", "boot"}
        OBVIOUS
      <3> QED
        BY <1>2, <3>1, <3>2, <3>3
    <2> QED
      BY <1>8, <2>2, <2>3 DEF CommitHold
  <1>9. ASSUME NEW p \in {Admin, App}, NEW step \in Steps, AcquireByRequest(p, step) PROVE SyncInv'
    <2>1. step \in {"restart", "arm", "stop"}
      BY <1>9 DEF AcquireByRequest
    <2>2. pc' = [pc EXCEPT ![p] = step] /\ UNCHANGED <<table, core, served, plan, loaded, drift>>
      BY <1>9 DEF AcquireByRequest, durable, running
    <2>3. p \in {Operator, Health, Admin, App} /\ step \notin {"replace", "boot"}
      BY <2>1
    <2> QED
      BY <1>2, <2>2, <2>3
  <1>10. CASE AppStarts
    BY <1>2, <1>10 DEF AppStarts, durable, running
  <1>11. CASE ScheduleRestart
    BY <1>2, <1>11 DEF ScheduleRestart, durable, running
  <1>12. CASE RestartTimerEnds \/ CooldownEnds \/ UNCHANGED vars
    <2>1. UNCHANGED <<pc, table, core, served, plan, loaded, drift>>
      BY <1>12 DEF RestartTimerEnds, CooldownEnds, vars, durable, running
    <2> QED
      BY <2>1, QuietStep
  <1>13. ASSUME NEW value \in {"yes", "no"}, RestoreDatabase(value) PROVE SyncInv'
    <2>1. /\ table' = FirstRows /\ drift' = [drift EXCEPT !.restore = "yes"]
          /\ UNCHANGED <<core, served, pc, plan, loaded>>
      BY <1>13 DEF RestoreDatabase, running
    <2>2. ~Clean'
      BY <2>1 DEF Clean, IInv, TypeOK, Drifts
    <2>3. Unique(FirstRows) /\ \A s \in Savers : FirstRows[s] = Absent
      BY DEF FirstRows, NoRows, Unique, HasTag, Ids, Versions
    <2>4. RowsInv'
      BY <2>1, <2>3 DEF SyncInv, RowsInv, Unique, HasTag
    <2>5. DownInv' /\ FreshInv' /\ PresentInv' /\ LoadedFreshInv' /\ LoadedPresentInv'
      BY <2>1, <2>2 DEF SyncInv, DownInv, FreshInv, PresentInv, LoadedFreshInv, LoadedPresentInv
    <2> QED
      BY <2>4, <2>5 DEF SyncInv
  <1> QED
    BY <1>3, <1>4, <1>5, <1>6, <1>7, <1>8, <1>9, <1>10, <1>11, <1>12, <1>13 DEF Next

(* The core owes nothing that no save will bring it. *)
THEOREM CoreSyncInvariant == Spec => []SyncInv
  <1>1. Init => SyncInv
    <2> SUFFICES ASSUME Init PROVE SyncInv
      OBVIOUS
    <2>1. Unique(NoRows) /\ Unique(FirstRows) /\ \A s \in Savers : FirstRows[s] = Absent
      BY DEF FirstRows, NoRows, Unique, HasTag, Ids, Versions
    <2>2. core = "stopped" /\ \A p \in Operations : pc[p] = "idle"
      BY DEF Init
    <2>3. \A s \in Savers : s \in Operations
      BY DEF Operations
    <2>4. RowsInv /\ DownInv
      BY <2>1, <2>2, <2>3 DEF Init, RowsInv, DownInv
    <2> QED
      BY <2>2, <2>4 DEF SyncInv, FreshInv, PresentInv, LoadedFreshInv, LoadedPresentInv
  <1> QED
    BY <1>1, NextSyncs, CoreInvariant, PTL DEF Spec

(* A settled core has no debts left. *)
LEMMA SettledOwesNothing ==
  ASSUME Settled, NEW s \in Savers, NEW t \in Tags
  PROVE  ~Adds(s, t) /\ ~Owes(s, t)
BY DEF Settled, Adds, Owes

(* applyCoreSaveEffect, for any number of saves and whatever the order they *)
(* reach the core in: once they have, no deleted inbound, no old tag and no *)
(* old version is served.                                                   *)
THEOREM NothingStaleIsServed == Spec => []NothingStaleServed
  <1>1. SyncInv => NothingStaleServed
    BY SettledOwesNothing DEF SyncInv, FreshInv, Fresh, Clean, Settled, NothingStaleServed
  <1> QED
    BY <1>1, CoreSyncInvariant, PTL

(* And every committed inbound is, but for a tag whose removal by one save  *)
(* reached the core after another had taken it.                             *)
THEOREM EveryCommittedIsServed == Spec => []CommittedIsServed
  <1>1. IInv => TagsOf(table) \subseteq Tags
    BY ServingType DEF IInv, TypeOK
  <1>2. IInv /\ SyncInv => CommittedIsServed
    BY <1>1, SettledOwesNothing DEF SyncInv, PresentInv, Clean, Settled, CommittedIsServed
  <1> QED
    BY <1>2, CoreInvariant, CoreSyncInvariant, PTL
==============================================================================
