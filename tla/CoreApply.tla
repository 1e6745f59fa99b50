------------------------------ MODULE CoreApply ------------------------------
(***************************************************************************)
(* A configuration save commits rows to the database and then, in a step   *)
(* of its own, applies them to the running proxy core.  Saves, the health  *)
(* job, the maintenance switch, a core restart and a restart of the panel  *)
(* compete for the core; each owns it through the restart manager, of      *)
(* which this module assumes what CoreOwnership says.                      *)
(*                                                                         *)
(*   service/config.go, config_save_plan.go   save, start, restart, stop   *)
(*   service/config_maintenance.go            the durable hold             *)
(*   internal/singbox/apply/effects.go        the object changes           *)
(*   internal/entities/inbounds/              rows, plans, hot replacement *)
(*   core/runtime/lifecycle.go                the core itself              *)
(*   cronjob/jobs/runtime/core_health.go      the health job               *)
(*                                                                         *)
(* A row is its tag and the save that wrote it; the core serves, for each  *)
(* tag, the version of one save.  Every read of the database and every     *)
(* change of the core is a step: a commit can come between any two.        *)
(***************************************************************************)
EXTENDS Naturals

CONSTANTS
  Savers,      (* save requests; each writes one version                  *)
  Tags,        (* inbound tags                                            *)
  FirstTag,    (* the tag of the row the panel starts with                *)
  Boot,        (* the version and the id of that row                      *)
  Health,      (* the core health job                                     *)
  Operator,    (* requests that set or clear the maintenance hold         *)
  Admin,       (* requests that restart the core                          *)
  App,         (* RestartApp: the panel stops and starts the core         *)
  Nobody,      (* the owner when the core is free                         *)
  Restart,     (* the owner while a restart of the panel is scheduled     *)
  Absent,      (* no row, nothing served                                  *)
  MaxRequests, (* operator, admin and panel restarts, at most             *)
  MaxFaults    (* failed reads, starts and changes, and restores, at most *)

Others == {Health, Operator, Admin, App}
Operations == Savers \union Others

ASSUME ConstantsDistinct ==
  /\ Others \intersect Savers = {}
  /\ Nobody \notin Operations \union {Restart}
  /\ Restart \notin Operations
  /\ Health \notin {Operator, Admin, App}
  /\ Operator \notin {Admin, App}
  /\ Admin # App
  /\ Boot \notin Savers
  /\ Absent \notin Savers \union {Boot}
  /\ FirstTag \in Tags

(* No row is not one of the rows. *)
ASSUME AbsentIsNoRow ==
  \A t \in Tags, v \in Savers \union {Boot} : [tag |-> t, by |-> v] # Absent

ASSUME BoundsAreNat == MaxRequests \in Nat /\ MaxFaults \in Nat

VARIABLES
  table,      (* the committed inbound rows, by id                        *)
  held,       (* the committed maintenance hold, "yes" or "no"            *)
  core,       (* "running" or "stopped"                                   *)
  served,     (* the version the core serves for each tag                 *)
  cooldown,   (* "on" for a while after a failed start                    *)
  owner,      (* who owns the core                                        *)
  pc,         (* where each operation is                                  *)
  plan,       (* what each save still has to apply                        *)
  loaded,     (* the rows the owner read for its next change of the core  *)
  saw,        (* the core generation the operator's request names         *)
  wanted,     (* the hold the operator's request asks for                 *)
  drift,      (* history: why the core may differ from the database       *)
  requests, faults

vars == << table, held, core, served, cooldown, owner, pc, plan, loaded,
           saw, wanted, drift, requests, faults >>

durable == << table, held >>
running == << core, served, saw >>
asked == << wanted, requests >>

Versions == Savers \union {Boot}
Ids == Versions
Rows == [tag : Tags, by : Versions]
Tables == [Ids -> Rows \union {Absent}]
NoRows == [i \in Ids |-> Absent]
FirstRows == [NoRows EXCEPT ![Boot] = [tag |-> FirstTag, by |-> Boot]]

Plans == [restart : {"yes", "no"}, reload : SUBSET Ids, remove : SUBSET Tags]
NoPlan == [restart |-> "no", reload |-> {}, remove |-> {}]

Steps == {"idle", "committed", "check", "remove", "load", "replace",
          "restart", "arm", "stop", "start", "candidate", "boot", "hold",
          "appStopped", "applied", "failed"}

NothingServed == [t \in Tags |-> Absent]

(* The tags a set of rows occupies, and what a core started on it serves. *)
TagsOf(rows) == {rows[i].tag : i \in {j \in Ids : rows[j] # Absent}}

Serving(rows) ==
  [t \in Tags |->
     IF t \in TagsOf(rows)
     THEN rows[CHOOSE i \in Ids : rows[i] # Absent /\ rows[i].tag = t].by
     ELSE Absent]

(* drift.lost: tags removed from the core although a committed row has     *)
(* them; drift.error: a save told its caller that applying it failed;      *)
(* drift.restore: the database was replaced under the core.                *)
Drifts == [lost : SUBSET Tags, error : {"yes", "no"}, restore : {"yes", "no"}]
NoDrift == [lost |-> {}, error |-> "no", restore |-> "no"]

Init ==
  /\ table = FirstRows
  /\ held = "no"
  /\ core = "stopped"
  /\ served = NothingServed
  /\ cooldown = "off"
  /\ owner = Nobody
  /\ pc = [p \in Operations |-> "idle"]
  /\ plan = [s \in Savers |-> NoPlan]
  /\ loaded = NoRows
  /\ saw = "stopped"
  /\ wanted = "no"
  /\ drift = NoDrift
  /\ requests = 0
  /\ faults = 0

Fault == faults < MaxFaults /\ faults' = faults + 1

NoFault == UNCHANGED faults

Request == requests < MaxRequests /\ requests' = requests + 1

Owns(p, step) == owner = p /\ pc[p] = step

Goto(p, step) == pc' = [pc EXCEPT ![p] = step] /\ UNCHANGED owner

(* The deferred end of the manager's operation.  A save is over; the other *)
(* operations may come again.                                              *)
Leave(p, outcome) ==
  /\ owner' = Nobody
  /\ pc' = [pc EXCEPT ![p] = IF p \in Savers THEN outcome ELSE "idle"]
  /\ plan' = [s \in Savers |-> IF s = p THEN NoPlan ELSE plan[s]]
  /\ loaded' = NoRows

(* Core.Stop; whatever instance.Close returns, the core is gone. *)
StopCore ==
  /\ core' = "stopped"
  /\ served' = NothingServed
  /\ saw' = IF saw = "this" THEN "older" ELSE saw
  /\ drift' = NoDrift

(* The caller of p learns that its operation failed. *)
Tell(p) ==
  drift' = IF p \in Savers THEN [drift EXCEPT !.error = "yes"] ELSE drift
-----------------------------------------------------------------------------
(***************************************************************************)
(* Saves: the transaction.                                                 *)
(***************************************************************************)

Commit(s, rows, p) ==
  /\ pc[s] = "idle"
  /\ table' = rows
  /\ plan' = [plan EXCEPT ![s] = p]
  /\ pc' = [pc EXCEPT ![s] = "committed"]
  /\ NoFault
  /\ UNCHANGED << held, running, cooldown, owner, loaded, drift, asked >>

(* saveNew; the tag column is unique.  A group row asks for a restart. *)
SaveNew(s, t, restart) ==
  /\ t \notin TagsOf(table)
  /\ Commit(s, [table EXCEPT ![s] = [tag |-> t, by |-> s]],
            [restart |-> restart, reload |-> {s}, remove |-> {}])

(* Fault variant of SaveEdited: the old tag of a renamed row stays. *)
SaveEditedKeepsTag(s, i, t, restart) ==
  /\ table[i] # Absent
  /\ t = table[i].tag \/ t \notin TagsOf(table)
  /\ Commit(s, [table EXCEPT ![i] = [tag |-> t, by |-> s]],
            [restart |-> restart, reload |-> {i}, remove |-> {}])

(* saveEdited and CoreChangeForSavedRow: a renamed row also removes its    *)
(* old tag.                                                                *)
SaveEdited(s, i, t, restart) ==
  /\ table[i] # Absent
  /\ t = table[i].tag \/ t \notin TagsOf(table)
  /\ Commit(s, [table EXCEPT ![i] = [tag |-> t, by |-> s]],
            [restart |-> restart, reload |-> {i},
             remove |-> {table[i].tag} \ {t}])

(* saveDeleted: by tag, and no error when no row has it. *)
SaveDeleted(s, t, restart) ==
  Commit(s, [i \in Ids |-> IF table[i] # Absent /\ table[i].tag = t
                           THEN Absent ELSE table[i]],
         [restart |-> restart, reload |-> {}, remove |-> {t}])

(* Saves of the base configuration and of settings touch no row. *)
SaveOther(s, restart) ==
  Commit(s, table, [NoPlan EXCEPT !.restart = restart])

Save(s) ==
  \E restart \in {"yes", "no"} :
    \/ \E t \in Tags : SaveNew(s, t, restart)
    \/ \E i \in Ids, t \in Tags : SaveEdited(s, i, t, restart)
    \/ \E t \in Tags : SaveDeleted(s, t, restart)
    \/ SaveOther(s, restart)
-----------------------------------------------------------------------------
(***************************************************************************)
(* Ownership of the core.                                                  *)
(***************************************************************************)

(* RunBlocking of applyCoreSaveEffect. *)
AcquireForSave(s) ==
  /\ owner = Nobody /\ pc[s] = "committed"
  /\ owner' = s
  /\ pc' = [pc EXCEPT ![s] = "check"]
  /\ NoFault
  /\ UNCHANGED << durable, running, cooldown, plan, loaded, drift, asked >>

(* Fault variant of HealthTick: the job looks at the core first and leaves *)
(* a running one alone.                                                    *)
HealthTickWhenDown ==
  /\ owner = Nobody /\ pc[Health] = "idle" /\ pc[App] = "idle"
  /\ core = "stopped"
  /\ owner' = Health
  /\ pc' = [pc EXCEPT ![Health] = "start"]
  /\ NoFault
  /\ UNCHANGED << durable, running, cooldown, plan, loaded, drift, asked >>

(* The cron tick: StartCore through Run, which gives up when the core has  *)
(* an owner.  RestartApp stops the scheduler while it works.               *)
HealthTick ==
  /\ owner = Nobody /\ pc[Health] = "idle" /\ pc[App] = "idle"
  /\ owner' = Health
  /\ pc' = [pc EXCEPT ![Health] = "start"]
  /\ NoFault
  /\ UNCHANGED << durable, running, cooldown, plan, loaded, drift, asked >>

(* SetCoreMaintenance arrives, naming the generation its caller saw. *)
OperatorAsks(value) ==
  /\ pc[Operator] = "idle"
  /\ Request
  /\ pc' = [pc EXCEPT ![Operator] = "committed"]
  /\ wanted' = value
  /\ saw' = IF core = "running" THEN "this" ELSE "stopped"
  /\ NoFault
  /\ UNCHANGED << durable, core, served, cooldown, owner, plan, loaded,
                  drift >>

AcquireForHold ==
  /\ owner = Nobody /\ pc[Operator] = "committed"
  /\ owner' = Operator
  /\ pc' = [pc EXCEPT ![Operator] = "hold"]
  /\ NoFault
  /\ UNCHANGED << durable, running, cooldown, plan, loaded, drift, asked >>

(* RestartCore, ScheduleRestart, and the StopCore of RestartApp. *)
AcquireByRequest(p, step) ==
  /\ << p, step >> \in {<< Admin, "restart" >>, << Admin, "arm" >>,
                        << App, "stop" >>}
  /\ owner = Nobody /\ pc[p] = "idle"
  /\ Request
  /\ owner' = p
  /\ pc' = [pc EXCEPT ![p] = step]
  /\ NoFault
  /\ UNCHANGED << durable, running, cooldown, plan, loaded, drift, wanted >>

(* RestartApp starts again: StartCore, skipped when the core has an owner. *)
AppStarts ==
  /\ pc[App] = "appStopped"
  /\ \/ /\ owner = Nobody
        /\ owner' = App
        /\ pc' = [pc EXCEPT ![App] = "start"]
     \/ /\ owner # Nobody
        /\ pc' = [pc EXCEPT ![App] = "idle"]
        /\ UNCHANGED owner
  /\ NoFault
  /\ UNCHANGED << durable, running, cooldown, plan, loaded, drift, asked >>

(* A restart of the panel is scheduled, and its timer releases the core. *)
ScheduleRestart ==
  /\ Owns(Admin, "arm")
  /\ owner' = Restart
  /\ pc' = [pc EXCEPT ![Admin] = "idle"]
  /\ NoFault
  /\ UNCHANGED << durable, running, cooldown, plan, loaded, drift, asked >>

RestartTimerEnds ==
  /\ owner = Restart
  /\ owner' = Nobody
  /\ NoFault
  /\ UNCHANGED << durable, running, cooldown, pc, plan, loaded, drift,
                  asked >>
-----------------------------------------------------------------------------
(***************************************************************************)
(* What an owner does.                                                     *)
(***************************************************************************)

(* maintenanceHeldLocked when it ends the operation: the hold cannot be    *)
(* read, or there is one, and then a running core is stopped.              *)
MaintenanceHeld(p) ==
  /\ \/ /\ Fault
        /\ Leave(p, "failed")
        /\ Tell(p)
        /\ UNCHANGED running
     \/ /\ held = "yes" /\ core = "running"
        /\ StopCore
        /\ NoFault
        /\ Leave(p, "applied")
     \/ /\ held = "yes" /\ core = "stopped"
        /\ NoFault
        /\ Leave(p, "applied")
        /\ UNCHANGED << running, drift >>
  /\ UNCHANGED << durable, cooldown, asked >>

(* The operation goes on: nothing but the program counter changes. *)
Proceed(p, step) ==
  /\ NoFault
  /\ Goto(p, step)
  /\ UNCHANGED << durable, running, cooldown, plan, loaded, drift, asked >>

(* An operation fails without touching the core. *)
GiveUp(p) ==
  /\ Fault
  /\ Leave(p, "failed")
  /\ Tell(p)
  /\ UNCHANGED << durable, running, cooldown, asked >>

HasObjectChanges(p) == p.reload # {} \/ p.remove # {}

(* applyCoreSaveEffectLocked up to the choice of what to do. *)
ApplySave(s) ==
  /\ Owns(s, "check")
  /\ \/ MaintenanceHeld(s)
     \/ /\ held = "no"
        /\ core = "stopped"
        /\ Proceed(s, "start")
     \/ /\ held = "no"
        /\ core = "running" /\ plan[s].restart = "yes"
        /\ Proceed(s, "restart")
     \/ /\ held = "no"
        /\ core = "running" /\ plan[s].restart = "no"
        /\ HasObjectChanges(plan[s])
        /\ Proceed(s, "remove")
     \/ /\ held = "no"
        /\ core = "running" /\ plan[s].restart = "no"
        /\ ~HasObjectChanges(plan[s])
        /\ NoFault
        /\ Leave(s, "applied")
        /\ UNCHANGED << durable, running, cooldown, drift, asked >>

(* A hot change of the core fails part-way: restart instead. *)
FallBack(s) ==
  /\ Fault
  /\ Goto(s, "restart")
  /\ loaded' = NoRows
  /\ UNCHANGED << durable, core, saw, cooldown, plan, asked >>

(* executeObjectRemovals: by tag, whatever the database says by now. *)
RemoveObjects(s) ==
  /\ Owns(s, "remove")
  /\ \/ /\ served' = [t \in Tags |->
                        IF t \in plan[s].remove THEN Absent ELSE served[t]]
        /\ drift' = [drift EXCEPT !.lost =
                       @ \union (plan[s].remove \intersect TagsOf(table))]
        /\ NoFault
        /\ Goto(s, "load")
        /\ UNCHANGED << durable, core, saw, cooldown, plan, loaded, asked >>
     \/ FallBack(s) /\ UNCHANGED << served, drift >>

(* Restart of the reloaded rows: the view is read now, not at the commit. *)
LoadRows(s) ==
  /\ Owns(s, "load")
  /\ \/ /\ loaded' = table
        /\ NoFault
        /\ Goto(s, "replace")
        /\ UNCHANGED << durable, running, cooldown, plan, drift, asked >>
     \/ FallBack(s) /\ UNCHANGED << served, drift >>

(* Fault variant of ReplaceRows: a failed addition is only logged. *)
ReplaceRowsRegardless(s) ==
  LET rows == [i \in Ids |->
                 IF i \in plan[s].reload THEN loaded[i] ELSE Absent]
  IN
  /\ Owns(s, "replace")
  /\ \/ /\ served' = [t \in Tags |->
                        IF t \in TagsOf(rows) THEN Serving(rows)[t]
                        ELSE served[t]]
        /\ NoFault
     \/ /\ served' = [t \in Tags |->
                        IF t \in TagsOf(rows) THEN Absent ELSE served[t]]
        /\ Fault
  /\ drift' = [drift EXCEPT !.lost = @ \ TagsOf(rows)]
  /\ Leave(s, "applied")
  /\ UNCHANGED << durable, core, saw, cooldown, asked >>

(* Each selected row that still exists is removed from the core and added  *)
(* again; the addition can fail after the removal.                         *)
ReplaceRows(s) ==
  LET rows == [i \in Ids |->
                 IF i \in plan[s].reload THEN loaded[i] ELSE Absent]
  IN
  /\ Owns(s, "replace")
  /\ \/ /\ served' = [t \in Tags |->
                        IF t \in TagsOf(rows) THEN Serving(rows)[t]
                        ELSE served[t]]
        /\ drift' = [drift EXCEPT !.lost = @ \ TagsOf(rows)]
        /\ NoFault
        /\ Leave(s, "applied")
        /\ UNCHANGED << durable, core, saw, cooldown, asked >>
     \/ /\ FallBack(s) /\ UNCHANGED drift
        /\ served' = [t \in Tags |->
                        IF t \in TagsOf(rows) THEN Absent ELSE served[t]]

(* restartCoreLocked: the hold, then a build of the configuration whose    *)
(* failure leaves the running core alone.                                  *)
RestartCore(p) ==
  /\ Owns(p, "restart")
  /\ \/ MaintenanceHeld(p)
     \/ held = "no" /\ GiveUp(p)
     \/ held = "no" /\ Proceed(p, "stop")

(* stopCoreLocked, for a restart, a hold or the stop of the panel. *)
StopLocked(p) ==
  /\ Owns(p, "stop")
  /\ StopCore
  /\ \/ /\ Fault
        /\ p # App
        /\ Leave(p, "failed")
     \/ /\ NoFault
        /\ p \in Savers \union {Admin}
        /\ Goto(p, "start")
        /\ UNCHANGED << plan, loaded >>
     \/ /\ NoFault
        /\ p = Operator
        /\ Leave(p, "applied")
     \/ /\ NoFault
        /\ p = App
        /\ owner' = Nobody
        /\ pc' = [pc EXCEPT ![p] = "appStopped"]
        /\ UNCHANGED << plan, loaded >>
  /\ UNCHANGED << durable, cooldown, asked >>

(* Only the health job and the start of the panel respect the cooldown. *)
Forced(p) == p \in Savers \union {Operator, Admin}

(* Fault variant of StartLocked: the hold is not consulted. *)
StartLockedUnheld(p) ==
  /\ Owns(p, "start")
  /\ \/ /\ core = "running" \/ (cooldown = "on" /\ ~Forced(p))
        /\ Leave(p, "applied")
        /\ UNCHANGED drift
     \/ /\ core = "stopped" /\ (cooldown = "off" \/ Forced(p))
        /\ drift' = NoDrift
        /\ Goto(p, "candidate")
        /\ UNCHANGED << plan, loaded >>
  /\ NoFault
  /\ UNCHANGED << durable, running, cooldown, asked >>

(* startCoreLockedContext up to the build of the candidate. *)
StartLocked(p) ==
  /\ Owns(p, "start")
  /\ \/ MaintenanceHeld(p)
     \/ /\ held = "no"
        /\ core = "running" \/ (cooldown = "on" /\ ~Forced(p))
        /\ NoFault
        /\ Leave(p, "applied")
        /\ UNCHANGED << durable, running, cooldown, drift, asked >>
     \/ /\ held = "no"
        /\ core = "stopped" /\ (cooldown = "off" \/ Forced(p))
        /\ drift' = NoDrift
        /\ NoFault
        /\ Goto(p, "candidate")
        /\ UNCHANGED << durable, running, cooldown, plan, loaded, asked >>

(* coreCandidateContext: one transaction renders the configuration. *)
BuildCandidate(p) ==
  /\ Owns(p, "candidate")
  /\ \/ GiveUp(p)
     \/ /\ loaded' = table
        /\ NoFault
        /\ Goto(p, "boot")
        /\ UNCHANGED << durable, running, cooldown, plan, drift, asked >>

(* StartWithBindings on the candidate. *)
BootCore(p) ==
  /\ Owns(p, "boot")
  /\ \/ /\ core' = "running"
        /\ served' = Serving(loaded)
        /\ cooldown' = "off"
        /\ NoFault
        /\ Leave(p, "applied")
        /\ UNCHANGED drift
     \/ /\ Fault
        /\ cooldown' = "on"
        /\ Leave(p, "failed")
        /\ UNCHANGED << core, served, drift >>
  /\ UNCHANGED << durable, saw, asked >>

(* SetCoreMaintenance under ownership: a request that names another        *)
(* generation of the core is refused; the hold is committed before its     *)
(* effect.                                                                 *)
CommitHold ==
  /\ Owns(Operator, "hold")
  /\ \/ /\ saw # (IF core = "running" THEN "this" ELSE "stopped")
        /\ NoFault
        /\ Leave(Operator, "failed")
        /\ UNCHANGED held
     \/ /\ Fault
        /\ Leave(Operator, "failed")
        /\ UNCHANGED held
     \/ /\ saw = (IF core = "running" THEN "this" ELSE "stopped")
        /\ held' = wanted
        /\ NoFault
        /\ Goto(Operator, IF wanted = "yes" THEN "stop" ELSE "start")
        /\ UNCHANGED << plan, loaded >>
  /\ UNCHANGED << table, running, cooldown, drift, asked >>
-----------------------------------------------------------------------------
(***************************************************************************)
(* The environment.                                                        *)
(***************************************************************************)

(* Fault variant of CooldownEnds: the wait starts over every time. *)
CooldownRestarts ==
  /\ cooldown = "on"
  /\ UNCHANGED vars

(* 15 seconds have passed since the failed start. *)
CooldownEnds ==
  /\ cooldown = "on"
  /\ cooldown' = "off"
  /\ NoFault
  /\ UNCHANGED << durable, running, owner, pc, plan, loaded, drift, asked >>

(* A database restore (RestoreSwap) replaces every row and the hold while  *)
(* the core runs on.                                                       *)
RestoreDatabase(value) ==
  /\ Fault
  /\ table' = FirstRows
  /\ held' = value
  /\ drift' = [drift EXCEPT !.restore = "yes"]
  /\ UNCHANGED << running, cooldown, owner, pc, plan, loaded, asked >>

SaveStep(s) ==
  \/ AcquireForSave(s)
  \/ ApplySave(s)
  \/ RemoveObjects(s)
  \/ LoadRows(s)
  \/ ReplaceRows(s)

OwnerStep(p) ==
  \/ RestartCore(p)
  \/ StopLocked(p)
  \/ StartLocked(p)
  \/ BuildCandidate(p)
  \/ BootCore(p)

Next ==
  \/ \E s \in Savers : Save(s) \/ SaveStep(s)
  \/ \E p \in Operations : OwnerStep(p)
  \/ HealthTick
  \/ \E value \in {"yes", "no"} : OperatorAsks(value)
  \/ AcquireForHold
  \/ CommitHold
  \/ \E p \in {Admin, App}, step \in Steps : AcquireByRequest(p, step)
  \/ AppStarts
  \/ ScheduleRestart
  \/ RestartTimerEnds
  \/ CooldownEnds
  \/ \E value \in {"yes", "no"} : RestoreDatabase(value)

Spec == Init /\ [][Next]_vars

(***************************************************************************)
(* Fairness: whoever owns the core goes on, the restart timer fires, the   *)
(* cooldown passes, the cron scheduler ticks while the core is free, and a *)
(* restarting panel starts again.  Nobody has to save or to ask.           *)
(***************************************************************************)
Fairness ==
  /\ \A s \in Savers : WF_vars(SaveStep(s))
  /\ \A p \in Operations : WF_vars(OwnerStep(p))
  /\ WF_vars(HealthTick)
  /\ WF_vars(AcquireForHold)
  /\ WF_vars(CommitHold)
  /\ WF_vars(AppStarts)
  /\ WF_vars(ScheduleRestart)
  /\ WF_vars(RestartTimerEnds)
  /\ WF_vars(CooldownEnds)

FairSpec == Spec /\ Fairness
-----------------------------------------------------------------------------
(***************************************************************************)
(* Properties.                                                             *)
(***************************************************************************)
TypeOK ==
  /\ table \in Tables
  /\ held \in {"yes", "no"}
  /\ core \in {"running", "stopped"}
  /\ served \in [Tags -> Versions \union {Absent}]
  /\ cooldown \in {"on", "off"}
  /\ owner \in Operations \union {Nobody, Restart}
  /\ pc \in [Operations -> Steps]
  /\ plan \in [Savers -> Plans]
  /\ loaded \in Tables
  /\ saw \in {"this", "older", "stopped"}
  /\ wanted \in {"yes", "no"}
  /\ drift \in Drifts
  /\ requests \in 0..MaxRequests
  /\ faults \in 0..MaxFaults

(* Every committed save was applied, or its caller was told otherwise, and *)
(* the database is still the one the core was started on.                  *)
Settled ==
  /\ owner = Nobody /\ core = "running"
  /\ \A s \in Savers : pc[s] \in {"idle", "applied", "failed"}
  /\ drift.error = "no" /\ drift.restore = "no"

(* Once the saves have been applied, in whatever order they reached the    *)
(* core, it serves no deleted inbound, no old tag of a renamed one and no  *)
(* old version of an edited one.                                           *)
NothingStaleServed ==
  Settled => \A t \in Tags : served[t] \in {Absent, Serving(table)[t]}

(* Once the saves have been applied, the core serves every committed       *)
(* inbound, except a tag that was deleted or renamed away by one save and  *)
(* taken by another, when the removal reaches the core last.               *)
CommittedIsServed ==
  Settled => \A t \in TagsOf(table) \ drift.lost : served[t] # Absent

(* RunBlocking's purpose: the running core does not stay out of sync with  *)
(* the committed state.                                                    *)
CoreMatchesCommitted == Settled => served = Serving(table)

(* Under a committed hold the core runs only while the operator's request  *)
(* is stopping it, or because a restore brought the hold with it.          *)
HoldKeepsCoreDown ==
  held = "yes" /\ core = "running" =>
    drift.restore = "yes" \/ Owns(Operator, "stop")

(* A hold stops the core in the end, even one that came with a restored    *)
(* database while the core was running.                                    *)
HoldStopsCore ==
  held = "yes" /\ core = "running" ~> held = "no" \/ core = "stopped"

(* A core that is down without a hold comes up again once starts stop      *)
(* failing, whatever operation left it down.                               *)
CoreComesBack ==
  held = "no" /\ core = "stopped" ~> held = "yes" \/ core = "running"

(* The core is used as the restart manager hands it out. *)
Ownership == INSTANCE CoreOwnership

OwnershipSpec == Ownership!Spec
=============================================================================
