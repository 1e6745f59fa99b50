# Verification of the solovey-ui panel

solovey-ui is a Go panel around the sing-box proxy core: it keeps its
configuration in one SQLite database, applies saved configuration to a running
core, can replace its own database by an uploaded backup while it runs, changes
the host through a privileged broker, and sells subscriptions through Telegram.
This directory holds TLA+ models of the parts of the panel whose correctness
depends on interleavings, crashes and partial failures, the TLC configurations
that check them on small instances, and TLAPS proofs of the main results for
every value of the constants. Paths below are relative to `src/`.

## 1. Inventory

| Part | State it keeps | Operations | Talks to | Hard behaviour | Correct when |
|---|---|---|---|---|---|
| Database restore (`database/restorestate`, `database/backup`, `service/datalifecycle/restore.go`) | live, staging and fallback files, marker file, operation row | restore, accept, abort, finalise, recover at startup | SQLite lifetime, restart manager | crash between any two file steps; failed rename; cancelled request | the accepted database is never lost or mixed with a candidate, startup ends |
| SQLite lifetime (`database/sqlite`) | generations with phase and counters, public handle, maintenance owner | acquire, release, begin and end maintenance, close for swap, open, close | everybody | operations, restore and shutdown interleave; counted connections; wake-ups | files move only when nobody is connected; one open database; no operation crosses a swap |
| Restart manager (`internal/singbox/restart`) | owner flag, pending timer, condition variable | run, blocking run, schedule, cancel | everyone who touches the core | timer against cancel; context end against wait | one owner, no lost wake-up, ownership ends |
| Applying configuration (`service/config*.go`, `internal/singbox/apply`, `internal/entities/inbounds`) | committed rows, plan of each save | save, hot apply, fallback to restart | database, restart manager, core | commit order against apply order; half-failed hot apply | the core serves what is committed |
| Core lifecycle and hold (`core/runtime`, `service/config_maintenance.go`, `cronjob/jobs/runtime`) | running or stopped, cooldown, durable hold | start, stop, restart, hold, health tick | restart manager | a start decided before the hold was committed | a held core stays down, an unheld one comes back |
| Operation admission (`internal/ops/operationcoordination`) | fence, active rows of four domains | admit, block | data, update, deployment, SSH | check and creation in different repositories | at most one domain mutates the host |
| Data drop (`service/datalifecycle/drop.go`) | operation row, journal, backup reference | preview, drop, recover | admission, restore | crash between backup, drop and record | a drop is recorded truthfully and backed up |
| Privileged broker (`internal/ops/privilegedbroker`) | append-only receipts, fences | begin, commit, compact, recover | SSH, deployment, protection | crash between intent, effect and completion | a mutation is neither repeated nor forgotten |
| SSH management, deployment, updates (`service/sshmanagement`, `service/deployment`, `service/update`) | candidate with state and deadline, journal | start, confirm, roll back, reconcile | broker, admission | deadline against confirmation; restart in any state | an unconfirmed change is rolled back |
| Paid subscriptions (`components/paid-subscriptions`) | orders, grants, refund claims | create, confirm, expire, refund | Telegram, providers, core | redelivery, late payment, crash during a refund | each payment renews once, each refund happens once |
| IP monitor (`ipmonitor`) | pending observations, allow cache with a revision | observe, admit, flush, reset | database hooks | reset during a flush | no observation of an old database enters the new |
| Audit writer, token-use debouncer (`service`) | bounded queue; pending map with epoch | enqueue, flush, stop | database | full queue, failed write, stop | nothing important is dropped silently, newest wins |
| Realtime hub (`realtime`) | clients, reservations | reserve, register, publish, drop | web sockets | slow client, close during publish | limits are exact, a dropped client stays dropped |
| Rate limiters (`util/ratelimit`) | keyed windows | allow, prune, evict | API | key limit, window boundary | never more than the limit in a window |
| Cron, failover, resource pressure, subscription output, migrations, API, command line, frontend | derived data | periodic jobs, rendering, parsing | all services | little beyond what the parts above have | mostly data transformation and I/O |

`PROJECT.json` lists the same parts with their files and status, and under
`hazards` what in this code is hard to test, each with the properties that
cover it.

How the modelled parts interact: a restore takes the maintenance of the SQLite
lifetime, moves files under the marker, opens the candidate privately, and on
acceptance publishes it and asks the restart manager for a restart. Every use
of the core, from saves to the health job, goes through the restart manager.
`DatabaseLifetime` and `RestoreSwap` are two views of one restore: the first has
the concurrency of users and generations and treats the files as one step, the
second has the files, the marker and crashes and treats the users as a gate
that is open or held. `CoreApply` assumes of the restart manager exactly what
`CoreOwnership` says, and `RestartManager` is shown to provide it.
`SSHManagement` calls the broker and assumes of its journal what `BrokerJournal`
and `MutationAuthority` say: a mutation whose fence is not above the last is
refused, an unresolved one blocks the rest, a completed stage is kept until it is
released. `TokenUse` takes the leases and the maintenance of `DatabaseLifetime` as
a drain that ends with no lease, and adds the writer that a restore must not mix
up with the imported database.

## 2. Modules

| Module | Role |
|---|---|
| `RestoreSwap` | the restore procedure and startup recovery, one step per file operation |
| `AtomicRestore` | what a restore promises: an atomic replacement nobody sees half done |
| `RestoreSwapProofs` | invariant, safety and refinement proofs of `RestoreSwap` |
| `RestartManager` | the manager's entry points, timers, condition variable, contexts |
| `CoreOwnership` | what the manager promises: one owner at a time |
| `RestartManagerProofs` | invariant, exclusion, promise of the blocking schedule, refinement |
| `CoreApply` | saves, hot apply, starts and stops of the core, hold, health job |
| `CoreApplyProofs` | invariant, the hold, use of the core as `CoreOwnership` allows, what the core serves once the saves are applied |
| `DatabaseLifetime` | generations, leases, maintenance, connections, shutdown |
| `DatabaseLifetimeProofs` | invariant, exact counters, files that move alone, one database at a time, private candidate |
| `BrokerJournal` | the broker's receipts: begin, handler, commit, every file call, power loss |
| `MutationAuthority` | what the journal promises: a mutation runs at most once, and none runs while the outcome of another is unknown |
| `BrokerJournalProofs` | invariant over every version a power loss may leave, lemmas on compaction, refinement of `MutationAuthority` |
| `SSHManagement` | staged SSH policy with deadline, watchdog, rollback, startup; admission against another domain |
| `SSHManagementProofs` | invariant, ownership of host changes, proof before commit, the settled host, one operation at a time |
| `PaidOrders` | orders, invoices, confirmations, recovery and refunds as concurrent transactions |
| `PaymentLedger` | what the orders promise: a purchase is granted once and returned once |
| `PaidOrdersProofs` | invariant, grants are paid for, refunds return the money, the client's balance, refinement of `PaymentLedger` |
| `TokenUse` | debounced last-use writes: timers, epochs, circuit, gate, stop, reset by a restore |
| `TokenUseProofs` | invariant, pending uses are scheduled, no use is lost, none crosses a restore |
| `MC...` | instances for TLC |

Each module's definitions are mapped to source lines in `PROJECT.json`. A definition
introduced by "Mutant:" or "Fault variant:" is a deliberately wrong copy of the one
that follows it; the specification never uses it. It serves to show that the
property it is listed with can fail.

### RestoreSwap

State: the three database paths hold the identity of a database, `None` or a
partial copy; `marker` is the state and digest in the marker file; `pc` and
`task` are the program counter and the caller of a shared procedure; `opened`
and `gate` are the connection and the maintenance; `rows[d][r]` is the state of
operation `r` as stored in database `d` and `untrusted[d]` the operations of `d`
whose rows came with a backup; `accepted` and `source` are history variables, the
database that must survive and the restore that made it, until retention drops the
row of that restore. Actions follow the code in order: `AdmitRestore`,
`StartRestoring`, `EnterMaintenance`, `StageCandidate`, `FinishStaging`,
`BeginJournal`, `CloseForFileSwap`, `JournalLiveMove`, `MoveLive`,
`JournalInstall`, `InstallCandidate`, `RunPostActions`,
`WriteRestoredOperation`, `MarkCommitted`, `PublishCandidate`, the three steps
of `FinalizeCommitted`, the three steps of a rollback, `ReopenLive`,
`RecordFailure`; `Maintain` for retention on its own; at startup `Boot`, `Recover`,
`OpenAtBoot`, `ReconcileStartup`; and `Crash` at any point. Each can fail where the code
handles a failure, within the budget `MaxFaults`.

Abstractions: sidecar files move with their database; a crash is one of the
process, so writes the process made are on disk (no power-loss reordering); the
marker is replaced by the atomic rename of the Linux build; validating and
rehearsing an upload is one step with two outcomes. A database stands for a content,
a request for an idempotency key, which may be used again once its row is dropped.

An upload is an export of this panel (a raw copy of a live database holds tables
that no backup may hold and is rejected, `database/backup/rehearsal.go:195-258`),
and an export keeps the operation rows with their states and marks them
`RestoredUntrusted` (`database/backup/export.go:311-316`). `FinishStaging` therefore
gives the candidate any rows in `CarriedStates`, all untrusted, the row of the very
request included. `WriteRestoredOperation` replaces that one row by a trusted
`APPLIED`; the others become `RECOVERY_REQUIRED` at the next startup and from then
on block further restores, and a request whose key has a carried row is answered
with that row. `Maintained` is `maintainLocked`: trusted terminal rows are dropped
by a limit, and a row whose pre-restore backup cannot be verified becomes
`RECOVERY_REQUIRED`. Which rows fall to the limits of count, age and size, which
backups are lost, and whether a `ROLLED_BACK` row names one, are choices, and
`ReconcileStartup` may stop after any of the open rows, as it does at an error or at
the 33rd.

### RestartManager

One step is what happens under one hold of the mutex. `pc` tells a caller that
sleeps in `cond.Wait` from one that was woken and has not taken the mutex;
`timer` tells an armed timer from one that fired and waits for the mutex
(`"fired"`) and from one that released the core and is about to signal
(`"signal"`); `waker` is the `context.AfterFunc` of a waiting caller.
`Timers` bounds the timers alive at once, not their number over a behaviour.
`SendSighup` is `ScheduleRestart` with the default delay.

### CoreApply

A row is its tag and the save that wrote it; the core serves one version per
tag. A save commits (`Save`), later acquires the core (`AcquireForSave`),
decides (`ApplySave`), and then removes (`RemoveObjects`), reads (`LoadRows`)
and replaces (`ReplaceRows`), or falls back to a restart (`FallBack`); another
save may commit between any two of these. `StartLocked`, `BuildCandidate` and
`BootCore` are the start with its check of the hold, its read of the rows and
its effect. `drift` is history: an error reported to a caller, a restore, and
the tags that finding 3 loses.

Abstractions: one row per plan; sections other than inbounds are a save with no
row (`SaveOther`), with or without a restart; whether a change needs a restart
(a group type, say) is a choice; a save writes once. `RestoreDatabase` replaces
rows and hold at once, by the result that `RestoreSwap` proves.

### DatabaseLifetime

One step is what happens under one hold of `dbMu`. A worker may hold a lease, or
a connection with or without one, also of a generation it remembers. A
restorer goes through `BeginMaintenance`, `FinishDrain`, `CloseForFileSwap`,
`StartCheckpoint`, `FinishCheckpoint`, `Retire`, `FinishSwapClose`,
`SwapFiles`, `PrepareForInit`, `OpenContext`, `PublishHandle`, `FinishInit`, then
`Accept`, `Reject` or `KeepPrivate`; `App` is the shutdown. `asleep` is the set of
actors blocked on the change channel they captured: `Changed` empties it, as the
code closes the channel.

`SwapIsAlone` is about the move that installs the candidate; the moves of a rollback
happen after `CloseContext` and are not steps of this module (`FilesMoveWhileClosed`
of `RestoreSwap` covers them).

Abstractions: the permission check of single statements changes nothing and is
left out; the idle limit of the pool is one; a pool found closed by someone else
(`connection.go` 43-64) is not modelled; migration and the retirement of the
previous generation are part of `OpenContext`; only one restore runs at a time,
as the marker check ensures (`Idle`).

### BrokerJournal

The file is its rows, the prefix of them that was synced, and a torn last line;
beside it the compacted `.new` file and whether the directory was synced.
`Begin`, `InvokeHandler` and the append of the completion follow
`Server.handle`; `WriteLine`, `SyncLine`, `SyncDirectory`, and for a compaction
`WriteNew`, `SyncNew`, `Publish`, `SyncPublished` are the calls of `append` and
`compact`, each of which may fail, after which `ReloadAfterWriteFailure` reads
the file again. `Crash` is a power loss: any prefix of what was not synced, and
either of two files of an unsynced rename, may be what is left. `Load` reads it
back, cutting an interrupted tail.

Abstractions: the byte limit is the row limit; fence sequences are the request's;
receipts carry no digest but the request's. Only an exact retry of a request
replays its answer. An answer replayed from a row whose sync failed may be lost
by a power loss; the mutation is then blocked as unresolved, never repeated, which
is why `ConfirmedStaysComplete` speaks of answers confirmed by a synced row. The
branch of `load` that finds only a `.new` file, and compaction while loading, are
not reachable from the states the code writes.

### SSHManagement

`candidate` is the durable row (state, revision, attempts, released flag,
checkpoint, challenge), `job` the call that holds `Manager.mu` and where it
stands, `host` the policy in force, `journal` what the broker knows of the fence
and the retained stage. Every provider call is `Mutate`: refused when its
sequence is not above the fence or an earlier outcome is open; otherwise it takes
effect and is answered, or its answer is lost. The other domain admits and ends
operations through the same fence.

`Confirm` reads the clock before it collects evidence and waits for `admissionMu` and
the database (`manager.go:468`, `repository.go:256-259`): `InspectBeforeCommit` keeps
the answer in `job.timely` and `CommitCandidate` goes by it, so a commit may land
after the deadline has passed. `proven` is history, the operations whose login was
verified before the deadline; `policy` is the one committed last. What can be claimed
is that the login was verified in time (`CommitIsProvenInTime`), not that the commit
was.

Abstractions: preview and evidence are one choice; one policy per operation; a row
brought in by a restored database and the binding of an endpoint are left out.
`Accepts` has no replay of an identical key (`journal.go:514-549`), which a call
could meet only when it repeats another with the same fence within one second.
Because of finding 4 at most one operation changes the host in any behaviour; the
others meet its fence. `advance` returns an empty candidate with its error, so that
`failAndRollback` finds no checkpoint and does nothing (`Abandon`): the row is then
resolved by the watchdog at its deadline or by the next startup. A PREFLIGHTED row
that already has its checkpoint is resolved by the next startup only. A stage
release that the broker did but the row did not record is repeated with the same
sequence and refused, and keeps the row a release debt (`manager.go:500`).

### PaidOrders

A row has its status, the reference of its invoice, the claim of a refund and the
usage window it closed. The bot, the poll, the creator of an invoice and the
refunds are processes; what each does in one SQL transaction is one step, with the
condition of its `UPDATE` as its guard. Telegram delivers a confirmation until the
offset is stored; CryptoBot's invoices are paid, end, or are created although the
answer was lost. Lifetimes and leases are choices, so every race with a deadline
is covered.

The recovery of lost references lists the account's invoices and gives up after 20
full pages with an error, whatever it has found by then
(`cryptobot_recovery.go:56-100`). An account does not shrink, so this is no passing
fault: `crowded` is set once, at any time, and from then on `Reconcile` answers
nothing. An order with a lost reference then waits for ever, paid or not;
`PaidInvoiceSettles` says that this is the only way for a paid invoice to stay
unsettled. A poll without pending invoices goes straight to the recovery.

Abstractions: one client and tariff, so that every balance is exact; a purchase
grants traffic, dates are left out; legacy rows, batch cursors and notifications
are left out. Two things a reader of the code should know: a Stars confirmation
that comes after its order expired, or whose transaction failed before the offset
was stored, is dropped, so `PaidInvoiceSettles` is stated for CryptoBot; and the
"newer" order of a refund is the one with the higher id, not the one paid later
(`order_grant_store.go:136`).

### TokenUse

A debouncer is what `tokenUseDebouncer` keeps, a flusher is a goroutine of its
timer, `Stopper` the shutdown flush; each step is what happens under one hold of
`d.mu`, of the gate, or one database call. `LockGate` is a writer that announced
itself at the gate and lets no new reader in, as `RWMutex.Lock` does. A request
takes its lease, reads the runtime's debouncer and records into it, possibly after
it was retired. The restore drains the leases, opens the candidate, resets the
debouncer, and may fall back, before that reset or after it; falling back resets
(again). A batch is written by several statements (`WriteBatch`, `Store`): when one
fails any part of the rest is in the table, and the whole batch is merged back.

Abstractions: delays are choices. An epoch that nobody captured is used again, as
epochs are only compared. The branch of the reset outside maintenance has no
caller; a missing database handle is left out. `UPDATE` is unconditional, so
a requeued older batch can overwrite a newer last use that another flush wrote
meanwhile; `NoUseLost` says that the newest use is pending, in a batch or was
written, not that it is the last written.

## 3. Runs

| Run | Instance | Checks |
|---|---|---|
| `RestoreSwap` | 2 requests, 2 databases, carried rows `RESTORING` and `APPLIED`, 3 faults, fair | the accepted database survives, refinement of `AtomicRestore`, every startup ends |
| `RestoreRefusal` | 1 request | finding 1 (violation) |
| `RestoreCancelled` | 1 request | finding 2 (violation) |
| `RestartManager` | 2 callers, 2 timers, fair | wake-ups, promise, refinement of `CoreOwnership`, ownership ends, a cancelled caller returns |
| `CoreApply` | 2 saves, 2 tags, 1 request, 1 fault, fair | the core serves what is committed, the hold, the core comes back |
| `CoreOutOfSync` | 2 saves, 2 tags | finding 3 (violation) |
| `DatabaseLifetime` | 1 restorer, 1 other user, shutdown, 3 generations, 1 failed close, fair | counters, exclusive swap, one database, no lost wake-up |
| `BrokerJournal` | 6 requests of 3 operations, 5 rows, 2 power losses, 2 faults | refinement of `MutationAuthority`, staged results, readable file |
| `SSHManagement` | 2 operations and another domain, 1 crash, 2 faults, fair | ownership of host changes, a settled host runs the committed policy, proof in time, resolution |
| `SSHSecondOperation` | 2 operations, no fault | finding 4 (violation) |
| `PaidOrders` | 1 Stars and 1 CryptoBot order, 2 refunds, 2 faults, fair | balance, refinement of `PaymentLedger`, a paid invoice settles |
| `TokenUse` | 1 token, 2 requests, 2 flushers, 1 stop, 1 restore, 1 fault, fair | uses are scheduled, kept, written, and never cross a restore |

Why the bounds are enough for the cases that matter. Three faults allow a crash in a
swap, one in its recovery and an I/O failure besides; two requests let a restore
start over what another left and carry its row, and both come again once retention
dropped them, so that the number of restores is not bounded. At any time one
database is accepted and one is a candidate, so two contents are enough. Two callers
are an owner and a waiter, with a timer as the third owner; two timers are one that
still signals while the next is armed. Two saves on two tags are one that frees a
tag and one that takes it. Three generations are the original, a candidate and the
reopened original. Five rows make the journal compact at the third mutation and let
two retained stages fill it; two power losses put one into the recovery of the
other. Two SSH operations let the second meet the fence, the policy and the release
debt of the first; two faults let the rollback fail that the first fault caused. Two
paid orders are an older and a newer one for the usage window; two refunds are a
claim and its takeover; two faults lose an answer and then fail the repair. Two
flushers are one that waits to requeue while the other takes what came after. The
larger instances with three callers, three saves or two restorers pass as well; the
ones in the configurations are smaller so that each run takes at most a few minutes,
and the theorems are not bounded.

`CHECK_DEADLOCK FALSE` is used where the system really stops:
`DatabaseLifetime` after `APP.Stop`, `BrokerJournal` when every request was
answered and no row is left to write, `TokenUse` when the bounded uses, stops and
restores have happened and nothing is pending. In the other models something can
always happen.

### Fairness

* `RestoreSwap`: a step the process has begun is taken, because the code between
  two steps is straight-line, and the supervisor starts a process that ended.
  Nobody has to request a restore; faults are bounded, so `StartupCompletes` says
  what happens once they stop.
* `RestartManager`: the Go scheduler runs every goroutine that can run, timers
  fire, operations on the core end (an owner that blocks inside the core's own code is
  outside what `OwnershipEnds` and `HoldStopsCore` show). Weak fairness only: a caller without a
  context may starve behind others, as `sync.Cond` allows, and no property says
  otherwise.
* `CoreApply`: an owner goes on, the timer fires, the cooldown passes, the cron
  scheduler ticks while the core is free. Nobody has to save or ask.
* `DatabaseLifetime`: operations are finite and close what they opened, a woken
  restore looks again. The deadline of a drain does not have to pass, so
  `DrainCompletes` does not rest on the time-out. It is claimed up to a shutdown:
  from then on two drains may wait for each other until their 30 second deadline.
* `SSHManagement`: the call that holds the mutex goes on, also when crashes
  interrupt it again and again until they end (strong fairness, as a crash disables
  its steps); the startup reconciles; the 15 second ticker of the watchdog gets the
  mutex between calls (strong: calls end); deadlines pass. Nobody has to start,
  confirm or roll back.
* `PaidOrders`: the poll is a cron job and handles each answer it got. No payer has
  to pay, and Telegram has to deliver nothing for `PaidInvoiceSettles`.
* `TokenUse`: timers fire, goroutines go on, the circuit's backoff passes, a restore
  ends. The resume of the gate and the reset compete with the stop for the writer's
  place at the gate: strong fairness, as a `sync.Mutex` orders the writers; once
  announced, a writer only waits for the readers that are inside.
  Faults are bounded, so `RecordedUseIsWritten` says what happens once writes succeed.

## 4. Results

### Findings

1. A rollback cut off between its rename and the removal of the marker makes
   every later startup refuse, with intact data (`restorestate/state.go:204`).
   `RefusesOnlyHalfRollback` shows, and the proof confirms for all instances, that
   this is the only way to get there.
2. A request cancelled after the last protected action leaves the unaccepted
   candidate installed and the maintenance held until the process restarts
   (`backup/restore_actions.go:107`). The next startup does roll it back:
   `AcceptedSurvives` holds throughout.
3. Two saves can commit in one order and reach the core in the other; removal by
   tag then takes away a committed inbound (`inbound_core.go:107`).
   `CommittedIsServed` shows that this is the only loss, `NothingStaleServed` that
   nothing stale is left behind.
4. The fence of SSH mutations is shared by all operations in the broker's journal
   while its sequence restarts with each operation's revision
   (`service/sshmanagement/broker_provider.go:213`): the stage of a second operation
   is refused, and it ends in manual recovery, which blocks every domain.

Two more observations have no run of their own. `ScheduleRestart` reports success
and drops the request when the core is busy (`restart/manager.go:66`), also for the
restart after an accepted restore; `ScheduleRestartBlocking` keeps its promise
(`ReturnsWithRestart`). A shutdown that overtakes a restore closes the generation it
finds active and returns while the restore opens the next one
(`sqlite/connection.go:199`).

### Proofs

`RestoreSwapProofs`, from `ConstantsDistinct`, `CarriedStatesAreStates` and
`MaxFaultsIsNat`, for any sets of requests and databases, any rows in backups and
any number of faults. The safety properties are not inductive: that the accepted
database survives a rollback depends on what the process checked before it removed
the live file. `IInv` therefore has `DiskInv` (what each marker state says about the
files, whoever runs), `AppliedRowIsTruthful` itself (the accepted database vouches
for its own restore only), `AccessInv` (connection and maintenance at each step),
`RequestInv` (the restore in flight, its row, and that every row of a staged
candidate is marked as carried) and `ProgressInv` (what the process has established
before each step). `SwapInvariant` proves it action by action; that retention,
degradation and the startup dispositions never turn a row into an applied one, and
leave the row of the source applied, in recovery or dropped, is `Settles` with a
lemma for each; type correctness, `AcceptedSurvives`, `ServedIsAccepted`,
`AppliedRowIsTruthful`, `NeverOpensEmpty` and `RefusesOnlyHalfRollback` follow, the
action property `FilesMoveWhileClosed` and the refinement `AtomicSpec` use it for
each step.

`RestartManagerProofs`, for any sets of callers and timers. None of the manager's
safety properties is inductive alone, but their conjunction with the types is:
exclusion needs to know that the pending timer is one that owns the core, or
`CancelPending` could release somebody else's ownership, and that nobody sleeps
without a broadcast to come needs exclusion. From it come
`OwnershipIsExclusive`, `PendingTimerSignals`, `NoLostWakeUp`,
`BlockingScheduleKeepsPromise` and the refinement `ManagerIsOwnership`, where the
abstract owner is chosen among the callers and exclusion makes the choice unique.

`CoreApplyProofs`, for any saves and tags. `OwnedInv` says that whoever is in the
middle of a step owns the core, so that no hold is committed between the check of
a start and the start; `StartingInv` that whoever passed the check finds the core
stopped and no hold, unless a restore brought one. `HoldIsKept` and
`CoreRespectsOwnership` follow. What the core serves needs a second invariant,
`SyncInv`, proved over the first from `AbsentIsNoRow`: a save that committed a
change of a tag and has not reached the core *owes* it that tag (`Owes`); the core
is right about every tag nobody owes it (`FreshInv`, `PresentInv`); and whoever has
read the rows for a start or a retry and will load what it read has a reading that
is right up to the debts of the others (`LoadedFreshInv`, `LoadedPresentInv`). A
save pays only with what it computed before it got the core, so the last two are
what makes the order in which the saves arrive irrelevant. `NothingStaleIsServed`
and `EveryCommittedIsServed` follow, since nobody owes anything once the saves are
applied.

`DatabaseLifetimeProofs`, for any finite set of workers and any number of
generations, from `LifetimeAssumption`. The argument goes through who may open a
database at all: a restore opens one only with its journal open, and the check
for an idle journal admits one such restore (`Journal`, `Opening`); so only the
active generation or the one being opened has connections, and never both
(`Handles`, `Connected`). `Drained` says what a restore has established when it
owns the maintenance (no lease, then no connection), `Leased` and `Capability` that
a live lease names the active generation and that only a shutdown takes the
maintenance away, `Private` that a candidate has no other user, `Counted` that the
counters are the cardinalities of the sets of holders. `LeasesAreCounted`,
`FilesMoveAlone`, `DatabasesDoNotOverlap`, `DatabaseStaysWithOperation` and
`CandidateStaysPrivate` follow.

`BrokerJournalProofs`, for any requests, row limit, failures and power losses, from
`RequestAssumption` (requests that share a key share verb, operation, resource and
fence; fences are numbers), `BoundAssumption` and `AbsentAssumption` (`Absent` is
no file, request or write). What the process reads after a power loss is one of the
*versions* of the journal (`Recoverable`): any prefix that is not shorter than what
was synced, of the journal and, while the directory is not synced, of those that a
rename or a creation replaced; the `.new` file counts only where the journal itself
may be missing. `VersionInv` says of every version that can be read what it has to
know of the past (`Good`: the stages not released, no confirmed key unresolved, a
fence for every request that ran, a receipt or an outcome for every run that is not
recorded) and which outcomes it may hold that nobody has read (`Accounted`: one at
most, and none while another mutation may begin). `MemoryInv` says the same of the
rows in memory, `PhaseInv` and `StepInv` where the mutation and its write stand,
`ReadInv` that a torn line is always about to be cut off. The properties are not
inductive without them: that a handler does not run twice after a power loss depends
on what a file says that no running process has read yet. `ProjectionKeeps` is the
lemma on compaction: the projection keeps the order of the rows, every receipt
without an outcome, every stage without a release and, in its authority row, every
fence; only outcomes go. It rests on lemmas on the n-th member (`Nth`) and the
largest of a finite set of indices. `JournalKeepsStages`, `JournalKeepsConfirmed` and
`JournalStaysReadable` follow; the refinement `JournalIsAuthority` maps the handler
to `Execute` and the moment an outcome is read, from its own write or from the file,
to `Record`. `HandlersRunOnce` is what it means for the host: no handler is invoked
twice for a key, and at most one mutation ran whose outcome is unknown.

`SSHManagementProofs`, for any number of operations, crashes and faults, from
`DistinctAssumption`, `BoundAssumption` and `NoneIsNoName` (`None` is not a state, a
step or a result). `JobInv` says in which state each call finds its row,
`AdmissionInv` that whoever is between the blocker's answer and its new row holds
`admissionMu`, `Exclusive` that one operation is active, `HostInv` that every
checkpoint and the broker's retained stage name a drop-in that no later step
removes, `ProofInv` that a clock read before the deadline vouches for a login verified
before it, and `PolicyInv` that up to its stage an operation finds the committed policy
on the host and that its checkpoint, or the broker's copy of it, keeps that policy as
long as it may be needed. The last is what makes `SettledHostRunsPolicy` inductive: a
rollback reports only that the host has what the checkpoint says, and the checkpoint
may have been rebuilt from the broker after a crash. `SSHHostIsOwned`,
`SSHOneOperation`, `SSHCommitIsProven` and `SSHSettledHost` follow.

`PaidOrdersProofs`, for any sets of orders, refund calls and faults, from
`OrdersAssumption` (order ids are numbers, the two kinds are disjoint),
`NoneAssumption` and `BoundsAssumption`. A grant acts on an answer that was given
before the row changed; `AnswerInv` says that what was read of Telegram or CryptoBot
is still true when it is handled and that a polled reference is still the row's,
which `RowInv` (a row without a reference is one that no poll asked about) carries
through the recovery of lost references. `RefundInv` says that every refund call
under way has its intent on the row. `OrdersArePaidFor`, `OrdersReturnMoney` and the
refinement `OrdersAreALedger` follow; the last maps every rewrite of a row to one
step of the ledger. `OrdersBalance` has an invariant of its own over the first,
`BalanceInv`: a grant that was taken back is one of a refunded order, so that no
order is taken back twice and the one that is still counts. The totals are a sum
over the orders; `BalanceMatchesOrders` states it as the cardinality of the set of
units of usage that the orders folded, which the theorems on finite sets reach
without an induction, and which also shows that no refund subtracts more than there
is.

`TokenUseProofs`, for any tokens, requests, stops and restores and any finite set
of flushers (`ActorAssumption`: epochs are then never exhausted). `GateInv`: a stop
holds the gate to its end; `OwnerInv`: whoever owns a batch works for the
debouncer in use, because the reset waits for the gate; `TimerInv`: a fired timer
has a goroutine that will account for it; `ResetInv` numbers the debouncers;
`GenerationInv` is the generation of every use in memory at each stage of a
restore. `TokenUseIsScheduled` and `TokenUseStaysInItsGeneration` follow.
`TokenUseIsNotLost` needs more about the batches (`Kept`): a batch that leaves the
pending map has an owner that still will write it or merge it back, and the merge
covers what both sides held.

### Only model-checked

Liveness (`StartupCompletes`, `OwnershipEnds`, `CancelledCallReturns`,
`HoldStopsCore`, `CoreComesBack`, `DrainCompletes`, `UnconfirmedIsResolved`,
`PaidInvoiceSettles`, `RecordedUseIsWritten`), which needs reasoning about
fairness that the prover does not offer. Every invariant, action property and
refinement of a passing run is proved. The four runs that expect a violation are
counterexamples, which need no proof.

## 5. Plan

Done, in this order: the restore protocol, the restart manager, applying
configuration, the database lifetime, the broker's journal, SSH management with the
admission fence, paid orders, the token-use debouncer.

Next modules:

1. `DropData` with the same operation row as `RestoreSwap`, and the other domains of
   the admission fence as state machines of their own.
2. `UpdateLifecycle` and `DeploymentProfiles`, which share the broker with SSH
   management but not its fence.
3. `AuditWriter`: bounded queue, priority eviction, retry, stop.
4. `IPMonitor` with the reset hook of a restore; `RealtimeHub`; the rate limiters as
   operators against a reference definition.

Next proofs: what the other abstract specifications imply by themselves
(`AtomicRestore`, `CoreOwnership`, `PaymentLedger`), so that it holds of the modules
that implement them, and those of the next modules.

## 6. Not modelled

Parsing, validation and rendering of configurations and subscriptions, schema
migrations, the HTTP layer, the command line and the frontend are data
transformation and I/O: a model of them would restate the code. Host-specific
providers (systemd, OpenWrt, Docker, nftables) and the sing-box engine are
environments of the parts above. Most of the repository's 229 thousand lines are of
these two kinds, the frontend and the host adapters above all, so the modules map a
small share of all lines and about two fifths of the lines of the files they are
about. The remaining domains of the inventory are in the plan.
