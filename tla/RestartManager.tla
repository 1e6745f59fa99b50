---------------------------- MODULE RestartManager ----------------------------
(***************************************************************************)
(* The lock that serialises every operation on the proxy core with the     *)
(* scheduled restart of the panel (internal/singbox/restart/manager.go).   *)
(*                                                                         *)
(* The manager has a mutex, a condition variable, the flag inFlight and    *)
(* the timer of a scheduled restart.  Whatever happens under one hold of   *)
(* the mutex is one step.  A caller that waits on the condition variable   *)
(* sleeps until a Broadcast; it then re-reads the state.  The timer runs   *)
(* its callback on a goroutine of its own, so it can have fired and not    *)
(* yet have reached the mutex.                                             *)
(***************************************************************************)
EXTENDS Naturals

CONSTANTS
  Callers,     (* goroutines that call the manager                        *)
  Timers,      (* time.Timer objects alive at once                        *)
  Nobody,      (* no timer; the owner when the core is free               *)
  Restart      (* the owner while a restart is scheduled                  *)

ASSUME ConstantsDistinct ==
  /\ Nobody \notin Callers \union Timers
  /\ Restart \notin Callers \union {Nobody}

VARIABLES
  inFlight,      (* "yes" while somebody owns the core                    *)
  pendingTimer,  (* the timer of a scheduled restart, or Nobody           *)
  timer,         (* what each timer is doing                              *)
  call,          (* the entry point each caller is in                     *)
  pc,            (* where in it the caller is                             *)
  ctx,           (* the context each caller passed: "live" or "done"      *)
  waker          (* context.AfterFunc of a waiting caller                 *)

vars == << inFlight, pendingTimer, timer, call, pc, ctx, waker >>

(* "fired": the callback waits for the mutex; "signal": it has released    *)
(* its ownership and is about to signal the process.                       *)
TimerStates == {"unused", "armed", "fired", "signal"}

Calls == {"none", "Run", "RunBlocking", "RunBlockingContext",
          "ScheduleRestart", "ScheduleRestartBlocking"}

(* "enter": called, mutex not taken; "asleep": in cond.Wait; "awake":      *)
(* woken, mutex not taken; "running": in the operation; "begun": owns the  *)
(* core and has not armed the timer; "skipped", "abandoned", "scheduled",  *)
(* "ran": how the call returned.                                           *)
Steps == {"idle", "enter", "asleep", "awake", "running", "begun",
          "skipped", "abandoned", "scheduled", "ran"}

Returned == {"skipped", "abandoned", "scheduled", "ran"}

(* "set": registered; "due": the context ended, its goroutine will take    *)
(* the mutex and broadcast.                                                *)
WakerStates == {"off", "set", "due"}

Init ==
  /\ inFlight = "no"
  /\ pendingTimer = Nobody
  /\ timer = [t \in Timers |-> "unused"]
  /\ call = [p \in Callers |-> "none"]
  /\ pc = [p \in Callers |-> "idle"]
  /\ ctx = [p \in Callers |-> "live"]
  /\ waker = [p \in Callers |-> "off"]

(* cond.Broadcast together with caller p moving to step s. *)
Broadcast(p, s) ==
  pc' = [q \in Callers |->
           IF q = p THEN s ELSE IF pc[q] = "asleep" THEN "awake" ELSE pc[q]]

(* cond.Broadcast by a goroutine that is no caller. *)
BroadcastAll ==
  pc' = [q \in Callers |-> IF pc[q] = "asleep" THEN "awake" ELSE pc[q]]
-----------------------------------------------------------------------------
(***************************************************************************)
(* Callers.                                                                *)
(***************************************************************************)

(* A goroutine calls the manager; only RunBlockingContext has a context    *)
(* that can end.                                                           *)
Call(p, c) ==
  /\ pc[p] = "idle"
  /\ c # "none"
  /\ call' = [call EXCEPT ![p] = c]
  /\ pc' = [pc EXCEPT ![p] = "enter"]
  /\ ctx' = [ctx EXCEPT ![p] = "live"]
  /\ UNCHANGED << inFlight, pendingTimer, timer, waker >>

(* The context of the call ends, waking the goroutine of AfterFunc. *)
CancelContext(p) ==
  /\ call[p] = "RunBlockingContext"
  /\ ctx[p] = "live"
  /\ ctx' = [ctx EXCEPT ![p] = "done"]
  /\ waker' = [waker EXCEPT ![p] = IF @ = "set" THEN "due" ELSE @]
  /\ UNCHANGED << inFlight, pendingTimer, timer, call, pc >>

(* The goroutine of AfterFunc takes the mutex. *)
WakeWaiters(p) ==
  /\ waker[p] = "due"
  /\ waker' = [waker EXCEPT ![p] = "off"]
  /\ BroadcastAll
  /\ UNCHANGED << inFlight, pendingTimer, timer, call, ctx >>

(* begin: Run and ScheduleRestart give up when somebody owns the core. *)
Begin(p) ==
  /\ pc[p] = "enter"
  /\ call[p] \in {"Run", "ScheduleRestart"}
  /\ \/ /\ inFlight = "yes"
        /\ pc' = [pc EXCEPT ![p] = "skipped"]
        /\ UNCHANGED inFlight
     \/ /\ inFlight = "no"
        /\ inFlight' = "yes"
        /\ pc' = [pc EXCEPT ![p] =
                     IF call[p] = "Run" THEN "running" ELSE "begun"]
  /\ UNCHANGED << pendingTimer, timer, call, ctx, waker >>

(* beginBlocking, at its start and after every wake-up. *)
BeginBlocking(p) ==
  /\ pc[p] \in {"enter", "awake"}
  /\ call[p] = "RunBlocking"
  /\ \/ /\ inFlight = "yes"
        /\ pc' = [pc EXCEPT ![p] = "asleep"]
        /\ UNCHANGED inFlight
     \/ /\ inFlight = "no"
        /\ inFlight' = "yes"
        /\ pc' = [pc EXCEPT ![p] = "running"]
  /\ UNCHANGED << pendingTimer, timer, call, ctx, waker >>

(* The stop function of AfterFunc; a goroutine already started goes on. *)
StopWake(p) == waker' = [waker EXCEPT ![p] = IF @ = "set" THEN "off" ELSE @]

(* Fault variant of BeginBlockingContext: the context is checked on entry  *)
(* only, not after a wake-up.                                              *)
BeginBlockingContextOnce(p) ==
  /\ pc[p] \in {"enter", "awake"}
  /\ call[p] = "RunBlockingContext"
  /\ \/ /\ ctx[p] = "done" /\ pc[p] = "enter"
        /\ pc' = [pc EXCEPT ![p] = "abandoned"]
        /\ StopWake(p)
        /\ UNCHANGED inFlight
     \/ /\ ctx[p] = "live" \/ pc[p] = "awake"
        /\ inFlight = "yes"
        /\ pc' = [pc EXCEPT ![p] = "asleep"]
        /\ UNCHANGED << inFlight, waker >>
     \/ /\ ctx[p] = "live" \/ pc[p] = "awake"
        /\ inFlight = "no"
        /\ inFlight' = "yes"
        /\ pc' = [pc EXCEPT ![p] = "running"]
        /\ StopWake(p)
  /\ UNCHANGED << pendingTimer, timer, call, ctx >>

(* beginBlockingContext: stopWake after a wake-up, then the loop and the   *)
(* checks of the context; a waiter registers AfterFunc before it sleeps.   *)
(* The context may end between the check and the registration: AfterFunc   *)
(* then starts its goroutine at once, which is CancelContext after the     *)
(* registration.                                                           *)
BeginBlockingContext(p) ==
  /\ pc[p] \in {"enter", "awake"}
  /\ call[p] = "RunBlockingContext"
  /\ \/ /\ ctx[p] = "done"
        /\ pc' = [pc EXCEPT ![p] = "abandoned"]
        /\ StopWake(p)
        /\ UNCHANGED inFlight
     \/ /\ ctx[p] = "live"
        /\ inFlight = "yes"
        /\ pc' = [pc EXCEPT ![p] = "asleep"]
        /\ waker' = [waker EXCEPT ![p] = IF @ = "due" THEN "due" ELSE "set"]
        /\ UNCHANGED inFlight
     \/ /\ ctx[p] = "live"
        /\ inFlight = "no"
        /\ inFlight' = "yes"
        /\ pc' = [pc EXCEPT ![p] = "running"]
        /\ StopWake(p)
  /\ UNCHANGED << pendingTimer, timer, call, ctx >>

(* Fault variant of ScheduleRestartBlocking: any owner is taken for a      *)
(* scheduled restart.                                                      *)
ScheduleRestartBlockingHasty(p) ==
  /\ pc[p] \in {"enter", "awake"}
  /\ call[p] = "ScheduleRestartBlocking"
  /\ \/ /\ inFlight = "yes"
        /\ pc' = [pc EXCEPT ![p] = "scheduled"]
        /\ UNCHANGED inFlight
     \/ /\ inFlight = "no"
        /\ inFlight' = "yes"
        /\ pc' = [pc EXCEPT ![p] = "begun"]
  /\ UNCHANGED << pendingTimer, timer, call, ctx, waker >>

(* The loop of ScheduleRestartBlocking: a scheduled restart is enough, any *)
(* other owner is waited for.                                              *)
ScheduleRestartBlocking(p) ==
  /\ pc[p] \in {"enter", "awake"}
  /\ call[p] = "ScheduleRestartBlocking"
  /\ \/ /\ inFlight = "yes"
        /\ pc' = [pc EXCEPT ![p] =
                     IF pendingTimer # Nobody THEN "scheduled" ELSE "asleep"]
        /\ UNCHANGED inFlight
     \/ /\ inFlight = "no"
        /\ inFlight' = "yes"
        /\ pc' = [pc EXCEPT ![p] = "begun"]
  /\ UNCHANGED << pendingTimer, timer, call, ctx, waker >>

(* armRestartTimer; nobody is woken. *)
ArmRestartTimer(p) ==
  /\ pc[p] = "begun"
  /\ \E t \in Timers :
       /\ timer[t] = "unused"
       /\ timer' = [timer EXCEPT ![t] = "armed"]
       /\ pendingTimer' = t
  /\ pc' = [pc EXCEPT ![p] = "scheduled"]
  /\ UNCHANGED << inFlight, call, ctx, waker >>

(* Fault variant of End: the operation ends and wakes nobody. *)
EndSilently(p) ==
  /\ pc[p] = "running"
  /\ inFlight' = "no"
  /\ pc' = [pc EXCEPT ![p] = "ran"]
  /\ UNCHANGED << pendingTimer, timer, call, ctx, waker >>

(* The operation of p returns or panics: the deferred end. *)
End(p) ==
  /\ pc[p] = "running"
  /\ inFlight' = "no"
  /\ Broadcast(p, "ran")
  /\ UNCHANGED << pendingTimer, timer, call, ctx, waker >>

(* The caller goes on with its own business; its context is released. *)
Return(p) ==
  /\ pc[p] \in Returned
  /\ pc' = [pc EXCEPT ![p] = "idle"]
  /\ call' = [call EXCEPT ![p] = "none"]
  /\ UNCHANGED << inFlight, pendingTimer, timer, ctx, waker >>
-----------------------------------------------------------------------------
(***************************************************************************)
(* The scheduled restart.                                                  *)
(***************************************************************************)

(* The delay has passed. *)
Fire(t) ==
  /\ timer[t] = "armed"
  /\ timer' = [timer EXCEPT ![t] = "fired"]
  /\ UNCHANGED << inFlight, pendingTimer, call, pc, ctx, waker >>

(* Fault variant of EndPending: a cancelled timer releases nothing. *)
EndPendingIfCurrent(t) ==
  /\ timer[t] = "fired"
  /\ timer' = [timer EXCEPT ![t] = "signal"]
  /\ \/ /\ pendingTimer = t
        /\ pendingTimer' = Nobody
        /\ inFlight' = "no"
        /\ BroadcastAll
     \/ /\ pendingTimer # t
        /\ UNCHANGED << pendingTimer, inFlight, pc >>
  /\ UNCHANGED << call, ctx, waker >>

(* endPending, called by the callback of timer t. *)
EndPending(t) ==
  /\ timer[t] = "fired"
  /\ timer' = [timer EXCEPT ![t] = "signal"]
  /\ pendingTimer' = IF pendingTimer = t THEN Nobody ELSE pendingTimer
  /\ inFlight' = "no"
  /\ BroadcastAll
  /\ UNCHANGED << call, ctx, waker >>

(* The process is signalled, and nothing refers to the timer any more. *)
Signal(t) ==
  /\ timer[t] = "signal"
  /\ timer' = [timer EXCEPT ![t] = "unused"]
  /\ UNCHANGED << inFlight, pendingTimer, call, pc, ctx, waker >>

(* Fault variant of CancelPending: the outcome of Stop is ignored. *)
CancelPendingBlindly ==
  /\ pendingTimer # Nobody
  /\ pendingTimer' = Nobody
  /\ timer' = [timer EXCEPT ![pendingTimer] =
                 IF @ = "armed" THEN "unused" ELSE @]
  /\ inFlight' = "no"
  /\ BroadcastAll
  /\ UNCHANGED << call, ctx, waker >>

(* CancelPending: Stop succeeds only on a timer that has not fired; a      *)
(* fired one keeps its ownership until its callback ends it.               *)
CancelPending ==
  /\ pendingTimer # Nobody
  /\ pendingTimer' = Nobody
  /\ \/ /\ timer[pendingTimer] = "armed"
        /\ timer' = [timer EXCEPT ![pendingTimer] = "unused"]
        /\ inFlight' = "no"
        /\ BroadcastAll
     \/ /\ timer[pendingTimer] # "armed"
        /\ UNCHANGED << timer, inFlight, pc >>
  /\ UNCHANGED << call, ctx, waker >>

CallerStep(p) ==
  \/ CancelContext(p)
  \/ WakeWaiters(p)
  \/ Begin(p)
  \/ BeginBlocking(p)
  \/ BeginBlockingContext(p)
  \/ ScheduleRestartBlocking(p)
  \/ ArmRestartTimer(p)
  \/ End(p)
  \/ Return(p)

TimerStep(t) == Fire(t) \/ EndPending(t) \/ Signal(t)

Next ==
  \/ \E p \in Callers, c \in Calls : Call(p, c)
  \/ \E p \in Callers : CallerStep(p)
  \/ \E t \in Timers : TimerStep(t)
  \/ CancelPending

Spec == Init /\ [][Next]_vars

(***************************************************************************)
(* Fairness: the Go scheduler runs every goroutine that can run, timers    *)
(* fire, and operations on the core end.  Nobody has to call the manager,  *)
(* to cancel a context or to cancel a restart.                             *)
(***************************************************************************)
Fairness ==
  /\ \A p \in Callers :
       /\ WF_vars(WakeWaiters(p))
       /\ WF_vars(Begin(p) \/ BeginBlocking(p) \/ BeginBlockingContext(p)
                  \/ ScheduleRestartBlocking(p))
       /\ WF_vars(ArmRestartTimer(p))
       /\ WF_vars(End(p))
       /\ WF_vars(Return(p))
  /\ \A t \in Timers : WF_vars(TimerStep(t))

FairSpec == Spec /\ Fairness
-----------------------------------------------------------------------------
(***************************************************************************)
(* Properties.                                                             *)
(***************************************************************************)
TypeOK ==
  /\ inFlight \in {"yes", "no"}
  /\ pendingTimer \in Timers \union {Nobody}
  /\ timer \in [Timers -> TimerStates]
  /\ call \in [Callers -> Calls]
  /\ pc \in [Callers -> Steps]
  /\ ctx \in [Callers -> {"live", "done"}]
  /\ waker \in [Callers -> WakerStates]

OwnsCall(p) == pc[p] \in {"running", "begun"}

OwnsTimer(t) == timer[t] \in {"armed", "fired"}

(* The core has one owner at most, and inFlight says whether there is one: *)
(* never two operations, never an operation beside a scheduled restart,    *)
(* and never a manager that stays locked with nobody to unlock it.         *)
ExclusiveOwner ==
  /\ inFlight = "yes" <=> \/ \E p \in Callers : OwnsCall(p)
                          \/ \E t \in Timers : OwnsTimer(t)
  /\ \A p, q \in Callers : OwnsCall(p) /\ OwnsCall(q) => p = q
  /\ \A t, u \in Timers : OwnsTimer(t) /\ OwnsTimer(u) => t = u
  /\ \A p \in Callers, t \in Timers : ~(OwnsCall(p) /\ OwnsTimer(t))

(* The pending timer is one that will still signal, so a caller that       *)
(* relies on it (ScheduleRestartBlocking) is not fooled by a stale one.    *)
PendingWillSignal == pendingTimer # Nobody => OwnsTimer(pendingTimer)

(* No lost wake-up: whoever sleeps on the condition variable sleeps while  *)
(* the core is owned, so an end that will broadcast is still to come; and  *)
(* the end of its context, if it has one, will wake it as well.            *)
SleepersAreOwed ==
  \A p \in Callers : pc[p] = "asleep" =>
    /\ inFlight = "yes"
    /\ call[p] = "RunBlockingContext" =>
         waker[p] \in IF ctx[p] = "live" THEN {"set", "due"} ELSE {"due"}

(* ScheduleRestartBlocking guarantees that a restart is pending before it  *)
(* returns: a timer is armed or has just fired at that moment.             *)
ReturnsWithRestart ==
  [][\A p \in Callers :
       /\ call[p] = "ScheduleRestartBlocking"
       /\ pc[p] # "scheduled" /\ pc'[p] = "scheduled"
       => \E t \in Timers : timer'[t] \in {"armed", "fired"}]_vars

(* Ownership always ends: nobody keeps the core for ever. *)
OwnershipEnds == inFlight = "yes" ~> inFlight = "no"

Waits(p) == pc[p] \in {"enter", "asleep", "awake"}

(* A caller whose context ended stops waiting for the core, however often  *)
(* others take it first.                                                   *)
CancelledCallReturns ==
  \A p \in Callers : ctx[p] = "done" /\ Waits(p) ~> ~Waits(p)

(***************************************************************************)
(* The manager implements an exclusive owner.                              *)
(***************************************************************************)
Owner ==
  IF \E p \in Callers : OwnsCall(p) THEN CHOOSE p \in Callers : OwnsCall(p)
  ELSE IF \E t \in Timers : OwnsTimer(t) THEN Restart
  ELSE Nobody

Ownership == INSTANCE CoreOwnership
               WITH Operations <- Callers, owner <- Owner

OwnershipSpec == Ownership!Spec
=============================================================================
