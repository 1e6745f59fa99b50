------------------------------ MODULE TokenUse ------------------------------
(* The debouncer of API token uses.  Requests leave the newest use of each  *)
(* token in memory; a timer writes them to the database in a batch.  The    *)
(* module composes the debouncer, the gate that suspends flushing, the stop *)
(* of the panel, and a restore that replaces the table of tokens while a    *)
(* request, a fired timer or a write is under way.  Delays are left out: a  *)
(* timer may fire any time after it was armed.                              *)
EXTENDS Naturals, FiniteSets

CONSTANTS
  Tokens,        \* ids in the table of tokens
  Requests,      \* requests served at the same time
  Flushers,      \* goroutines of fired timers alive at the same time
  Stopper,       \* the call of StopTokenUseDebouncer
  None,
  MaxUses,       \* bound: uses recorded
  MaxStops,      \* bound: stops of the panel
  MaxRestores,   \* bound: restores of the database
  MaxFaults      \* bound: writes that fail

ASSUME ActorAssumption ==
  IsFiniteSet(Flushers) /\ Stopper \notin Flushers \union {None, "reset", "resume"}
ASSUME BoundAssumption ==
  MaxUses \in Nat /\ MaxStops \in Nat /\ MaxRestores \in Nat /\ MaxFaults \in Nat

VARIABLES
  debouncer,     \* every debouncer made so far
  tokenUse,      \* the runtime's current one
  gate,          \* tokenUseFlushGate: suspended, its resume timer, its writer
  actor,         \* the flushers and the stop
  request,       \* the requests
  table,         \* per generation of the database: the last use written for each token
  live, fallback,\* the generation that is open, and the one before a candidate
  maintenance,   \* where the restore stands
  uses, clock, stops, restores, faults,
  latest,        \* history: the last use recorded for each token since the last reset
  written        \* history: every use written

counters == <<uses, clock, stops, restores, faults>>
history == <<latest, written>>
database == <<table, live, fallback, maintenance>>
vars == <<debouncer, tokenUse, gate, actor, request, database, counters, history>>

Actors == Flushers \union {Stopper}
Generations == 1..(MaxRestores + 1)
Debouncers == 1..(2 * MaxRestores + 1)      \* a restore that falls back resets twice
Use == [generation : Generations, ts : Nat]
Batch == [Tokens -> Use \union {None}]
Epochs == 0..(Cardinality(Flushers) + 2)
Empty == [t \in Tokens |-> None]

Debouncer ==
  [pending : Batch, timer : {"none", "armed", "fired"}, due : Epochs, epoch : Epochs,
   circuit : {"closed", "open", "elapsed"}, retired : BOOLEAN]
Actor ==
  [at : {"idle", "fired", "admitted", "taking", "stopping", "writing", "leased", "failed", "closing",
         "written", "finishing"}, of : Debouncers, epoch : Epochs, batch : Batch]
Request ==
  [at : {"idle", "authorized", "recording"}, token : Tokens \union {None},
   generation : Generations, of : Debouncers, ts : Nat]

NewDebouncer == [pending |-> Empty, timer |-> "none", due |-> 0, epoch |-> 0,
                 circuit |-> "closed", retired |-> FALSE]
Idle == [at |-> "idle", of |-> 1, epoch |-> 0, batch |-> Empty]
NoRequest == [at |-> "idle", token |-> None, generation |-> 1, of |-> 1, ts |-> 0]

Init ==
  /\ debouncer = [d \in Debouncers |-> NewDebouncer]
  /\ tokenUse = 1
  /\ gate = [suspended |-> FALSE, resume |-> FALSE, writer |-> None]
  /\ actor = [a \in Actors |-> Idle]
  /\ request = [q \in Requests |-> NoRequest]
  /\ table = [g \in Generations |-> Empty]
  /\ live = 1 /\ fallback = 1 /\ maintenance = "none"
  /\ uses = 0 /\ clock = 0 /\ stops = 0 /\ restores = 0 /\ faults = 0
  /\ latest = Empty /\ written = {}

(***************************************************************************)
(* Helpers: what the debouncer does while it holds d.mu.                   *)
(***************************************************************************)
(* scheduleLocked: at most one timer, which captures the epoch. *)
Schedule(d) ==
  IF d.retired \/ d.timer # "none" THEN d
  ELSE [d EXCEPT !.timer = "armed", !.due = d.epoch]

ScheduleIfPending(d) == IF d.pending = Empty THEN d ELSE Schedule(d)
NoTimer(d) == [d EXCEPT !.timer = "none", !.due = 0]

(* d.epoch++.  Epochs are only compared: one that no timer and no fired     *)
(* goroutine of the debouncer captured serves again.                        *)
Captured(i) == {debouncer[i].epoch, debouncer[i].due} \union {actor[f].epoch : f \in {g \in Flushers : actor[g].of = i}}
NextEpoch(i) ==
  [debouncer[i] EXCEPT !.epoch = CHOOSE e \in Epochs : e \notin Captured(i)]

(* Mutant: what failed to be written replaces what came after it. *)
MergeBatchWins(pending, batch) ==
  [t \in Tokens |-> IF batch[t] = None THEN pending[t] ELSE batch[t]]

(* mergeTokenUseUpdatesLocked: a use recorded meanwhile is newer. *)
Merge(pending, batch) ==
  [t \in Tokens |->
     IF \/ batch[t] = None
        \/ pending[t] # None /\ batch[t].ts <= pending[t].ts
     THEN pending[t] ELSE batch[t]]

(* requeueAfterWriteError. *)
Requeued(i, batch) ==
  ScheduleIfPending([NoTimer(NextEpoch(i)) EXCEPT !.pending = Merge(@, batch), !.circuit = "open"])

(* Mutant: the timer of the backoff is stopped and not armed again. *)
CircuitClosedUnscheduled(i) ==
  [(IF debouncer[i].timer = "none" THEN debouncer[i] ELSE NoTimer(NextEpoch(i))) EXCEPT !.circuit = "closed"]

(* closeFailureCircuit: uses that waited for the backoff are due earlier. *)
CircuitClosed(i) ==
  LET d == debouncer[i]
      stopped == IF d.timer = "none" THEN d ELSE NoTimer(NextEpoch(i))
  IN IF d.circuit = "closed" \/ d.pending = Empty THEN [d EXCEPT !.circuit = "closed"]
     ELSE Schedule([stopped EXCEPT !.circuit = "closed"])

(* Mutant: a new debouncer is made and the old one left alone. *)
NotRetired(i) == debouncer[i]

(* retire: the timer, the epoch of a fired one and the uses all go. *)
Retired(i) == [NoTimer(NextEpoch(i)) EXCEPT !.retired = TRUE, !.pending = Empty]

Of(a) == debouncer[actor[a].of]
SetDebouncer(a, d) == debouncer' = [debouncer EXCEPT ![actor[a].of] = d]
Goto(a, at) == actor' = [actor EXCEPT ![a].at = at]
End(a) == actor' = [actor EXCEPT ![a] = Idle]

(* A flusher holds the gate's read lock until it ends. *)
Readers == {f \in Flushers : actor[f].at \notin {"idle", "fired"}}
GateHeldBy(w) == gate.writer = w /\ Readers = {}

(* Operations admitted to the database: requests and the writes. *)
Leases == {q \in Requests : request[q].at # "idle"} \union {a \in Actors : actor[a].at = "leased"}

(***************************************************************************)
(* Requests: the middleware admits one, the token is authorized, the use   *)
(* is recorded with the debouncer read before.                             *)
(***************************************************************************)
Authorize(q, t) ==
  /\ request[q].at = "idle" /\ maintenance = "none" /\ uses < MaxUses
  /\ uses' = uses + 1
  /\ request' = [request EXCEPT ![q] = [NoRequest EXCEPT !.at = "authorized", !.token = t, !.generation = live]]
  /\ UNCHANGED <<debouncer, tokenUse, gate, actor, database, clock, stops, restores, faults, history>>

(* The time is read before the debouncer is locked. *)
ReadDebouncer(q) ==
  /\ request[q].at = "authorized"
  /\ clock' = clock + 1
  /\ request' = [request EXCEPT ![q].at = "recording", ![q].of = tokenUse, ![q].ts = clock + 1]
  /\ UNCHANGED <<debouncer, tokenUse, gate, actor, database, uses, stops, restores, faults, history>>

(* Record: dropped when the debouncer is retired. *)
Record(q) ==
  LET d == debouncer[request[q].of]
      t == request[q].token
      use == [generation |-> request[q].generation, ts |-> request[q].ts]
  IN /\ request[q].at = "recording"
     /\ \/ /\ d.retired
           /\ UNCHANGED <<debouncer, latest>>
        \/ /\ ~d.retired
           /\ debouncer' = [debouncer EXCEPT
                ![request[q].of] = Schedule([d EXCEPT !.pending[t] = use])]
           /\ latest' = [latest EXCEPT ![t] = use]
     /\ request' = [request EXCEPT ![q] = NoRequest]
     /\ UNCHANGED <<tokenUse, gate, actor, database, counters, written>>

(***************************************************************************)
(* flushTimer.                                                             *)
(***************************************************************************)
(* The timer of d fires; it stays in d.timer until the flusher takes over. *)
Fire(d, f) ==
  /\ debouncer[d].timer = "armed" /\ actor[f].at = "idle"
  /\ debouncer' = [debouncer EXCEPT ![d].timer = "fired"]
  /\ actor' = [actor EXCEPT ![f] = [at |-> "fired", of |-> d, epoch |-> debouncer[d].due, batch |-> Empty]]
  /\ UNCHANGED <<tokenUse, gate, request, database, counters, history>>

(* Mutant: the timer that met the suspended gate is not armed again. *)
PutOffUnscheduled(f) ==
  /\ SetDebouncer(f, NoTimer(Of(f)))
  /\ End(f)

(* The gate is suspended: the timer is armed again. *)
PutOff(f) ==
  /\ IF actor[f].epoch = Of(f).epoch
     THEN SetDebouncer(f, ScheduleIfPending(NoTimer(Of(f))))
     ELSE UNCHANGED debouncer
  /\ End(f)

(* beginTokenUseFlush. *)
EnterGate(f) ==
  /\ actor[f].at = "fired" /\ gate.writer = None
  /\ \/ /\ gate.suspended
        /\ PutOff(f)
     \/ /\ ~gate.suspended
        /\ Goto(f, "admitted")
        /\ UNCHANGED debouncer
  /\ UNCHANGED <<tokenUse, gate, request, database, counters, history>>

(* timerCircuitOpen. *)
CheckCircuit(f) ==
  /\ actor[f].at = "admitted"
  /\ \/ /\ actor[f].epoch # Of(f).epoch
        /\ End(f) /\ UNCHANGED debouncer
     \/ /\ actor[f].epoch = Of(f).epoch /\ Of(f).circuit = "open"
        /\ SetDebouncer(f, ScheduleIfPending(NoTimer(Of(f)))) /\ End(f)
     \/ /\ actor[f].epoch = Of(f).epoch /\ Of(f).circuit # "open"
        /\ Goto(f, "taking") /\ UNCHANGED debouncer
  /\ UNCHANGED <<tokenUse, gate, request, database, counters, history>>

(* takePending. *)
TakePending(f) ==
  /\ actor[f].at = "taking"
  /\ \/ /\ Of(f).retired \/ actor[f].epoch # Of(f).epoch
        /\ End(f) /\ UNCHANGED debouncer
     \/ /\ ~Of(f).retired /\ actor[f].epoch = Of(f).epoch
        /\ SetDebouncer(f, [NoTimer(Of(f)) EXCEPT !.pending = Empty])
        /\ IF Of(f).pending = Empty THEN End(f)
           ELSE actor' = [actor EXCEPT ![f].at = "writing", ![f].batch = Of(f).pending]
  /\ UNCHANGED <<tokenUse, gate, request, database, counters, history>>

(* The flusher schedules what was recorded while it wrote. *)
ScheduleRest(f) ==
  /\ actor[f].at = "written"
  /\ SetDebouncer(f, ScheduleIfPending(Of(f)))
  /\ End(f)
  /\ UNCHANGED <<tokenUse, gate, request, database, counters, history>>

(***************************************************************************)
(* write and what follows it, for the flushers and the stop.               *)
(***************************************************************************)
(* One writer of a debouncer at a time (writeMu); maintenance refuses it. *)
AcquireLease(a) ==
  /\ actor[a].at = "writing"
  /\ \A b \in Actors : actor[b].at = "leased" => actor[b].of # actor[a].of
  /\ Goto(a, IF maintenance = "none" THEN "leased" ELSE "failed")
  /\ UNCHANGED <<debouncer, tokenUse, gate, request, database, counters, history>>

(* flushTokenUseBatch for the uses of some tokens: their rows are updated   *)
(* whatever they held.                                                      *)
Store(batch, tokens) ==
  /\ table' = [table EXCEPT ![live] = [t \in Tokens |-> IF t \in tokens THEN batch[t] ELSE @[t]]]
  /\ written' = written \union {<<t, batch[t]>> : t \in tokens}

(* flushTokenUseUpdates: one statement after the other, so that a failing   *)
(* one leaves the rows of those before it updated.                          *)
WriteBatch(a) ==
  LET batch == actor[a].batch
      used == {t \in Tokens : batch[t] # None}
  IN /\ actor[a].at = "leased"
     /\ \/ Store(batch, used) /\ Goto(a, "closing") /\ UNCHANGED faults
        \/ /\ \E part \in SUBSET used : part # used /\ Store(batch, part)
           /\ Goto(a, "failed") /\ faults < MaxFaults /\ faults' = faults + 1
     /\ UNCHANGED <<debouncer, tokenUse, gate, request, live, fallback, maintenance, uses, clock, stops, restores, latest>>

Requeue(a) ==
  /\ actor[a].at = "failed"
  /\ SetDebouncer(a, Requeued(actor[a].of, actor[a].batch))
  /\ IF a = Stopper THEN Goto(a, "finishing") ELSE End(a)
  /\ UNCHANGED <<tokenUse, gate, request, database, counters, history>>

CloseFailureCircuit(a) ==
  /\ actor[a].at = "closing"
  /\ SetDebouncer(a, CircuitClosed(actor[a].of))
  /\ Goto(a, IF a = Stopper THEN "finishing" ELSE "written")
  /\ UNCHANGED <<tokenUse, gate, request, database, counters, history>>

(* The failure backoff elapses. *)
CircuitElapses(d) ==
  /\ debouncer[d].circuit = "open"
  /\ debouncer' = [debouncer EXCEPT ![d].circuit = "elapsed"]
  /\ UNCHANGED <<tokenUse, gate, actor, request, database, counters, history>>

(***************************************************************************)
(* StopTokenUseDebouncer, and the gate's resume timer.                     *)
(***************************************************************************)
BeginStop ==
  /\ actor[Stopper].at = "idle" /\ GateHeldBy(None)
  /\ stops < MaxStops /\ stops' = stops + 1
  /\ \/ /\ gate.suspended
        /\ gate' = [gate EXCEPT !.resume = TRUE]
        /\ UNCHANGED actor
     \/ /\ ~gate.suspended
        /\ gate' = [suspended |-> TRUE, resume |-> FALSE, writer |-> Stopper]
        /\ actor' = [actor EXCEPT ![Stopper] = [Idle EXCEPT !.at = "stopping", !.of = tokenUse]]
  /\ UNCHANGED <<debouncer, tokenUse, request, database, uses, clock, restores, faults, history>>

(* flushNow, past the gate; nothing is taken when the deadline has passed. *)
FlushNow ==
  /\ actor[Stopper].at = "stopping"
  /\ \/ /\ Goto(Stopper, "finishing")
        /\ UNCHANGED debouncer
     \/ /\ SetDebouncer(Stopper, [NoTimer(NextEpoch(tokenUse)) EXCEPT !.pending = Empty])
        /\ actor' = [actor EXCEPT
             ![Stopper].at = IF Of(Stopper).pending = Empty THEN "finishing" ELSE "writing",
             ![Stopper].batch = Of(Stopper).pending]
  /\ UNCHANGED <<tokenUse, gate, request, database, counters, history>>

FinishStop ==
  /\ actor[Stopper].at = "finishing"
  /\ gate' = [gate EXCEPT !.resume = TRUE, !.writer = None]
  /\ End(Stopper)
  /\ UNCHANGED <<debouncer, tokenUse, request, database, counters, history>>

(* RWMutex.Lock announces its writer: readers that come later wait for it. *)
LockGate(w) ==
  /\ gate.writer = None
  /\ IF w = "resume" THEN gate.resume ELSE maintenance \in {"opened", "refused", "reopened"}
  /\ gate' = [gate EXCEPT !.writer = w]
  /\ UNCHANGED <<debouncer, tokenUse, actor, request, database, counters, history>>

ResumeTokenUseFlush ==
  /\ GateHeldBy("resume")
  /\ gate' = [suspended |-> FALSE, resume |-> FALSE, writer |-> None]
  /\ UNCHANGED <<debouncer, tokenUse, actor, request, database, counters, history>>

(***************************************************************************)
(* The restore: admissions close, operations drain, the file is replaced,  *)
(* the reset hook runs, and maintenance ends.                              *)
(***************************************************************************)
BeginMaintenance ==
  /\ maintenance = "none" /\ restores < MaxRestores
  /\ maintenance' = "draining" /\ restores' = restores + 1
  /\ UNCHANGED <<debouncer, tokenUse, gate, actor, request, table, live, fallback, uses, clock, stops, faults, history>>

(* The operations did not end in time, or the upload was refused. *)
AbandonMaintenance ==
  /\ maintenance = "draining"
  /\ maintenance' = "none"
  /\ UNCHANGED <<debouncer, tokenUse, gate, actor, request, table, live, fallback, counters, history>>

OpenCandidate ==
  /\ maintenance = "draining" /\ Leases = {}
  /\ live' = restores + 1 /\ fallback' = live
  /\ maintenance' = "opened"
  /\ UNCHANGED <<debouncer, tokenUse, gate, actor, request, table, counters, history>>

(* A post-open action refuses the candidate, before the reset hook or after *)
(* it: the database before it is reopened.                                  *)
ReopenFallback ==
  /\ \/ maintenance = "opened" /\ gate.writer # "reset" /\ maintenance' = "refused"
     \/ maintenance = "reset" /\ maintenance' = "reopened"
  /\ live' = fallback
  /\ UNCHANGED <<debouncer, tokenUse, gate, actor, request, table, fallback, counters, history>>

(* resetTokenUseDebouncerContext, in maintenance: nothing is flushed; the   *)
(* gate's writer lock and the runtime's lock are held throughout.           *)
ResetTokenUseDebouncer ==
  /\ maintenance \in {"opened", "refused", "reopened"} /\ GateHeldBy("reset")
  /\ gate' = [suspended |-> TRUE, resume |-> TRUE, writer |-> None]
  /\ debouncer' = [debouncer EXCEPT ![tokenUse] = Retired(tokenUse)]
  /\ tokenUse' = tokenUse + 1
  /\ maintenance' = IF maintenance = "opened" THEN "reset" ELSE "ready"
  /\ latest' = Empty
  /\ UNCHANGED <<actor, request, table, live, fallback, counters, written>>

EndMaintenance ==
  /\ maintenance \in {"reset", "ready"}
  /\ maintenance' = "none"
  /\ UNCHANGED <<debouncer, tokenUse, gate, actor, request, table, live, fallback, counters, history>>

RequestStep(q) == ReadDebouncer(q) \/ Record(q)
FlushStep(f) == EnterGate(f) \/ CheckCircuit(f) \/ TakePending(f) \/ ScheduleRest(f)
WriteStep(a) == AcquireLease(a) \/ WriteBatch(a) \/ Requeue(a) \/ CloseFailureCircuit(a)
StopStep == FlushNow \/ FinishStop
ResumeStep == LockGate("resume") \/ ResumeTokenUseFlush
ActorStep(a) == WriteStep(a) \/ IF a = Stopper THEN StopStep ELSE FlushStep(a)
RestoreStep == OpenCandidate \/ LockGate("reset") \/ ResetTokenUseDebouncer \/ EndMaintenance

Next ==
  \/ \E q \in Requests : RequestStep(q) \/ \E t \in Tokens : Authorize(q, t)
  \/ \E d \in Debouncers : CircuitElapses(d) \/ \E f \in Flushers : Fire(d, f)
  \/ \E a \in Actors : ActorStep(a)
  \/ BeginStop \/ ResumeStep
  \/ BeginMaintenance \/ AbandonMaintenance \/ RestoreStep \/ ReopenFallback

Spec == Init /\ [][Next]_vars

(* Timers fire and their goroutines run.  A writer gets its turn at the     *)
(* gate although other writers come and go, as sync.RWMutex promises.       *)
FairSpec ==
  /\ Spec
  /\ WF_vars(\E q \in Requests : RequestStep(q))
  /\ WF_vars(\E d \in Debouncers : CircuitElapses(d))
  /\ WF_vars(\E d \in Debouncers, f \in Flushers : Fire(d, f))
  /\ \A a \in Actors : WF_vars(ActorStep(a))
  /\ SF_vars(ResumeStep) /\ SF_vars(RestoreStep)

-----------------------------------------------------------------------------
(* The type invariant. *)
TypeOK ==
  /\ debouncer \in [Debouncers -> Debouncer]
  /\ tokenUse \in Debouncers
  /\ gate \in [suspended : BOOLEAN, resume : BOOLEAN, writer : {None, Stopper, "reset", "resume"}]
  /\ actor \in [Actors -> Actor]
  /\ request \in [Requests -> Request]
  /\ table \in [Generations -> Batch] /\ live \in Generations /\ fallback \in Generations
  /\ maintenance \in {"none", "draining", "opened", "refused", "reset", "reopened", "ready"}
  /\ uses \in Nat /\ clock \in Nat /\ stops \in Nat /\ restores \in 0..MaxRestores /\ faults \in Nat
  /\ latest \in Batch

(* A use waits in memory only where a timer will pick it up: the timer of   *)
(* the debouncer is armed for the current epoch, or its goroutine has yet   *)
(* to take the uses.  The epoch moves in five places, some of which stop a  *)
(* timer that already fired.                                                *)
PendingIsScheduled ==
  \A d \in Debouncers : debouncer[d].pending # Empty =>
    /\ ~debouncer[d].retired
    /\ debouncer[d].timer # "none" /\ debouncer[d].due = debouncer[d].epoch
    /\ debouncer[d].timer = "fired" =>
         \E f \in Flushers : /\ actor[f].at \in {"fired", "admitted", "taking"}
                             /\ actor[f].of = d /\ actor[f].epoch = debouncer[d].epoch

(* The use u of token t, or a newer one. *)
Covers(batch, t, u) ==
  batch[t] # None /\ batch[t].generation = u.generation /\ batch[t].ts >= u.ts

Saved(t, u) == \E w \in written : w[1] = t /\ w[2].generation = u.generation /\ w[2].ts >= u.ts

(* The last use recorded for a token, or a newer one, is in memory, in a    *)
(* batch being written or requeued, or was written: no failure, stop or     *)
(* race of two flushers loses it.  Only the reset of a restore discards it. *)
NoUseLost ==
  \A t \in Tokens : latest[t] # None =>
    \/ Saved(t, latest[t])
    \/ Covers(debouncer[tokenUse].pending, t, latest[t])
    \/ \E a \in Actors : Covers(actor[a].batch, t, latest[t])

(* runtime.go: "Numeric token IDs queued on the prior generation cannot be  *)
(* applied to an imported table": whatever was recorded, queued, fired or   *)
(* in flight when the database was replaced.                                *)
OldUseNeverReachesCandidate ==
  \A g \in Generations, t \in Tokens : table[g][t] # None => table[g][t].generation = g

(* The last use of a token does not stay unwritten for ever: the timer, the *)
(* stop or a retry writes it, unless a restore discards it.                 *)
Unsaved(t) == latest[t] # None /\ ~Saved(t, latest[t])

RecordedUseIsWritten == \A t \in Tokens : Unsaved(t) ~> ~Unsaved(t)
=============================================================================
