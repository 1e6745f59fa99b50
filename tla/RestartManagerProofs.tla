------------------------- MODULE RestartManagerProofs -------------------------
(***************************************************************************)
(* The restart manager gives the core one owner at most, for any number of *)
(* callers and timers, and implements CoreOwnership.                       *)
(*                                                                         *)
(* The invariant adds to exclusive ownership what each step relies on:     *)
(* the pending timer still owns the core, and a sleeper sleeps only while  *)
(* somebody owns it.                                                       *)
(***************************************************************************)
EXTENDS RestartManager, TLAPS

USE ConstantsDistinct

IInv ==
  /\ TypeOK
  /\ ExclusiveOwner
  /\ PendingWillSignal
  /\ SleepersAreOwed

(* Nobody owns the core, and nobody waits for it. *)
LEMMA InitEstablishes == Init => IInv
BY DEF Init, IInv, TypeOK, ExclusiveOwner, PendingWillSignal,
       SleepersAreOwed, OwnsCall, OwnsTimer, TimerStates, Calls, Steps,
       WakerStates

(* Every step keeps the invariant. *)
LEMMA NextKeeps == IInv /\ [Next]_vars => IInv'
<1> SUFFICES ASSUME IInv, [Next]_vars PROVE IInv'
  OBVIOUS
<1> USE DEF IInv, TypeOK, ExclusiveOwner, PendingWillSignal,
            SleepersAreOwed, OwnsCall, OwnsTimer, TimerStates, Calls, Steps,
            WakerStates
<1>1. ASSUME NEW p \in Callers, NEW c \in Calls, Call(p, c) PROVE IInv'
  BY <1>1 DEF Call
<1>2. ASSUME NEW p \in Callers, CancelContext(p) PROVE IInv'
  BY <1>2 DEF CancelContext
<1>3. ASSUME NEW p \in Callers, WakeWaiters(p) PROVE IInv'
  BY <1>3 DEF WakeWaiters, BroadcastAll
<1>4. ASSUME NEW p \in Callers, Begin(p) PROVE IInv'
  BY <1>4 DEF Begin
<1>5. ASSUME NEW p \in Callers, BeginBlocking(p) PROVE IInv'
  BY <1>5 DEF BeginBlocking
<1>6. ASSUME NEW p \in Callers, BeginBlockingContext(p) PROVE IInv'
  BY <1>6 DEF BeginBlockingContext, StopWake
<1>7. ASSUME NEW p \in Callers, ScheduleRestartBlocking(p) PROVE IInv'
  BY <1>7 DEF ScheduleRestartBlocking
<1>8. ASSUME NEW p \in Callers, ArmRestartTimer(p) PROVE IInv'
  BY <1>8 DEF ArmRestartTimer
<1>9. ASSUME NEW p \in Callers, End(p) PROVE IInv'
  BY <1>9 DEF End, Broadcast
<1>10. ASSUME NEW p \in Callers, Return(p) PROVE IInv'
  BY <1>10 DEF Return, Returned
<1>11. ASSUME NEW t \in Timers, Fire(t) PROVE IInv'
  BY <1>11 DEF Fire
<1>12. ASSUME NEW t \in Timers, EndPending(t) PROVE IInv'
  BY <1>12 DEF EndPending, BroadcastAll
<1>13. ASSUME NEW t \in Timers, Signal(t) PROVE IInv'
  BY <1>13 DEF Signal
<1>14. CASE CancelPending
  BY <1>14 DEF CancelPending, BroadcastAll
<1>15. CASE UNCHANGED vars
  BY <1>15 DEF vars
<1>16. QED
  BY <1>1, <1>2, <1>3, <1>4, <1>5, <1>6, <1>7, <1>8, <1>9, <1>10, <1>11,
     <1>12, <1>13, <1>14, <1>15 DEF Next, CallerStep, TimerStep

(* The invariant of the manager. *)
THEOREM ManagerInvariant == Spec => []IInv
BY InitEstablishes, NextKeeps, PTL DEF Spec

(* Type correctness. *)
THEOREM ManagerTypeOK == Spec => []TypeOK
<1>1. IInv => TypeOK
  BY DEF IInv
<1>2. QED
  BY <1>1, ManagerInvariant, PTL

(* The core never has two owners, and inFlight tells whether it has one    *)
(* (begin, end, endPending and CancelPending agree on who releases).       *)
THEOREM OwnershipIsExclusive == Spec => []ExclusiveOwner
<1>1. IInv => ExclusiveOwner
  BY DEF IInv
<1>2. QED
  BY <1>1, ManagerInvariant, PTL

(* The timer that ScheduleRestartBlocking finds pending has not been       *)
(* released by endPending or CancelPending: it will still signal.          *)
THEOREM PendingTimerSignals == Spec => []PendingWillSignal
<1>1. IInv => PendingWillSignal
  BY DEF IInv
<1>2. QED
  BY <1>1, ManagerInvariant, PTL

(* Nobody sleeps in cond.Wait while the core is free, and a caller with a  *)
(* context sleeps only with the AfterFunc of beginBlockingContext to come. *)
THEOREM NoLostWakeUp == Spec => []SleepersAreOwed
<1>1. IInv => SleepersAreOwed
  BY DEF IInv
<1>2. QED
  BY <1>1, ManagerInvariant, PTL

(* ScheduleRestartBlocking returns with a restart pending or on its way,   *)
(* which is what its comment guarantees.                                   *)
THEOREM BlockingScheduleKeepsPromise == Spec => ReturnsWithRestart
<1>1. ASSUME IInv, Next, NEW p \in Callers,
             call[p] = "ScheduleRestartBlocking",
             pc[p] # "scheduled", pc'[p] = "scheduled"
      PROVE  \E t \in Timers : timer'[t] \in {"armed", "fired"}
  <2> USE <1>1 DEF IInv, TypeOK, Steps, TimerStates
  <2>1. CASE ScheduleRestartBlocking(p)
    BY <2>1 DEF ScheduleRestartBlocking, PendingWillSignal, OwnsTimer
  <2>2. CASE ArmRestartTimer(p)
    BY <2>2 DEF ArmRestartTimer
  <2>3. CASE \E q \in Callers \ {p} : CallerStep(q)
    BY <2>3 DEF CallerStep, CancelContext, WakeWaiters, Begin,
         BeginBlocking, BeginBlockingContext, ScheduleRestartBlocking,
         ArmRestartTimer, End, Return, Broadcast, BroadcastAll
  <2>4. CASE \E q \in Callers, c \in Calls : Call(q, c)
    BY <2>4 DEF Call
  <2>5. CASE (\E t \in Timers : TimerStep(t)) \/ CancelPending
    BY <2>5 DEF TimerStep, Fire, EndPending, Signal, CancelPending,
         BroadcastAll
  <2>6. CASE CallerStep(p) /\ ~ScheduleRestartBlocking(p)
             /\ ~ArmRestartTimer(p)
    BY <2>6 DEF CallerStep, CancelContext, WakeWaiters, Begin,
         BeginBlocking, BeginBlockingContext, End, Return, Broadcast,
         BroadcastAll
  <2>7. QED
    BY <2>1, <2>2, <2>3, <2>4, <2>5, <2>6 DEF Next
<1>2. IInv /\ [Next]_vars =>
        [\A p \in Callers :
           /\ call[p] = "ScheduleRestartBlocking"
           /\ pc[p] # "scheduled" /\ pc'[p] = "scheduled"
           => \E t \in Timers : timer'[t] \in {"armed", "fired"}]_vars
  BY <1>1
<1>3. QED
  BY <1>2, ManagerInvariant, PTL DEF Spec, ReturnsWithRestart

(***************************************************************************)
(* The refinement.  Owner picks the one caller that owns the core, so each *)
(* step is matched by comparing the owners before and after it.            *)
(***************************************************************************)

(* What Owner is, in terms of the state. *)
LEMMA OwnerIs ==
  ASSUME IInv
  PROVE  /\ \A p \in Callers : OwnsCall(p) => Owner = p
         /\ (\E t \in Timers : OwnsTimer(t)) => Owner = Restart
         /\ inFlight = "no" => Owner = Nobody
         /\ inFlight = "yes" => Owner # Nobody
<1>1. \A p \in Callers : OwnsCall(p) => Owner = p
  <2> SUFFICES ASSUME NEW p \in Callers, OwnsCall(p) PROVE Owner = p
    OBVIOUS
  <2>1. \A q \in Callers : OwnsCall(q) => q = p
    BY DEF IInv, ExclusiveOwner
  <2>2. (CHOOSE q \in Callers : OwnsCall(q)) = p
    BY <2>1
  <2>3. QED
    BY <2>2 DEF Owner
<1>2. QED
  BY <1>1 DEF IInv, ExclusiveOwner, Owner

(* The same in the next state. *)
LEMMA NextOwnerIs ==
  ASSUME IInv'
  PROVE  /\ \A p \in Callers : OwnsCall(p)' => Owner' = p
         /\ (\E t \in Timers : OwnsTimer(t)') => Owner' = Restart
         /\ (inFlight = "no")' => Owner' = Nobody
         /\ (inFlight = "yes")' => Owner' # Nobody
<1>1. \A p \in Callers : OwnsCall(p)' => Owner' = p
  <2> SUFFICES ASSUME NEW p \in Callers, OwnsCall(p)' PROVE Owner' = p
    OBVIOUS
  <2>1. \A q \in Callers : OwnsCall(q)' => q = p
    BY DEF IInv, ExclusiveOwner
  <2>2. (CHOOSE q \in Callers : OwnsCall(q)') = p
    BY <2>1
  <2>3. QED
    BY <2>2 DEF Owner
<1>2. QED
  BY <1>1 DEF IInv, ExclusiveOwner, Owner

(* Ownership as the state shows it is untouched by a step. *)
SameOwners ==
  /\ \A p \in Callers : OwnsCall(p)' <=> OwnsCall(p)
  /\ \A t \in Timers : OwnsTimer(t)' <=> OwnsTimer(t)

(* Every step acquires a free core, hands it to a timer, releases it, or   *)
(* leaves its ownership alone.                                             *)
LEMMA StepMovesOwnership ==
  ASSUME IInv, Next
  PROVE  \/ SameOwners
         \/ inFlight = "no" /\ \E p \in Callers : OwnsCall(p)'
         \/ /\ \E p \in Callers : OwnsCall(p)
            /\ \E t \in Timers : OwnsTimer(t)'
         \/ inFlight = "yes" /\ inFlight' = "no"
<1> USE DEF IInv, TypeOK, SameOwners, OwnsCall, OwnsTimer, Steps, TimerStates
<1>1. ASSUME NEW p \in Callers, NEW c \in Calls, Call(p, c)
      PROVE  SameOwners
  BY <1>1 DEF Call
<1>2. ASSUME NEW p \in Callers,
             CancelContext(p) \/ WakeWaiters(p) \/ Return(p)
      PROVE  SameOwners
  BY <1>2 DEF CancelContext, WakeWaiters, BroadcastAll, Return, Returned
<1>3. ASSUME NEW p \in Callers,
             Begin(p) \/ BeginBlocking(p) \/ BeginBlockingContext(p)
               \/ ScheduleRestartBlocking(p)
      PROVE  SameOwners \/ (inFlight = "no" /\ OwnsCall(p)')
  BY <1>3 DEF Begin, BeginBlocking, BeginBlockingContext,
              ScheduleRestartBlocking
<1>4. ASSUME NEW p \in Callers, ArmRestartTimer(p)
      PROVE  OwnsCall(p) /\ \E t \in Timers : OwnsTimer(t)'
  BY <1>4 DEF ArmRestartTimer
<1>5. ASSUME NEW p \in Callers, End(p)
      PROVE  inFlight = "yes" /\ inFlight' = "no"
  BY <1>5 DEF End, ExclusiveOwner
<1>6. ASSUME NEW t \in Timers, TimerStep(t)
      PROVE  SameOwners \/ (inFlight = "yes" /\ inFlight' = "no")
  BY <1>6 DEF TimerStep, Fire, EndPending, Signal, ExclusiveOwner
<1>7. ASSUME CancelPending
      PROVE  SameOwners \/ (inFlight = "yes" /\ inFlight' = "no")
  BY <1>7 DEF CancelPending, ExclusiveOwner
<1>8. QED
  BY <1>1, <1>2, <1>3, <1>4, <1>5, <1>6, <1>7 DEF Next, CallerStep

(* The manager implements the abstract ownership of the core, the only     *)
(* thing operations on the core may assume of it.                          *)
THEOREM ManagerIsOwnership == Spec => OwnershipSpec
<1>1. Init => Owner = Nobody
  BY DEF Init, Owner, OwnsCall, OwnsTimer
<1>2. ASSUME IInv, IInv', Next
      PROVE  Ownership!Next \/ Owner' = Owner
  <2>1. CASE SameOwners
    <3>1. CASE \E p \in Callers : OwnsCall(p)
      BY <1>2, <2>1, <3>1, OwnerIs, NextOwnerIs DEF SameOwners
    <3>2. CASE /\ ~\E p \in Callers : OwnsCall(p)
               /\ \E t \in Timers : OwnsTimer(t)
      BY <1>2, <2>1, <3>2, OwnerIs, NextOwnerIs DEF SameOwners
    <3>3. CASE /\ ~\E p \in Callers : OwnsCall(p)
               /\ ~\E t \in Timers : OwnsTimer(t)
      <4>1. inFlight = "no" /\ inFlight' = "no"
        BY <1>2, <2>1, <3>3
           DEF SameOwners, IInv, TypeOK, ExclusiveOwner
      <4>2. QED
        BY <1>2, <4>1, OwnerIs, NextOwnerIs
    <3>4. QED
      BY <3>1, <3>2, <3>3
  <2>2. CASE inFlight = "no" /\ \E p \in Callers : OwnsCall(p)'
    BY <1>2, <2>2, OwnerIs, NextOwnerIs
       DEF Ownership!Next, Ownership!Acquire
  <2>3. CASE /\ \E p \in Callers : OwnsCall(p)
             /\ \E t \in Timers : OwnsTimer(t)'
    BY <1>2, <2>3, OwnerIs, NextOwnerIs
       DEF Ownership!Next, Ownership!HandOver
  <2>4. CASE inFlight = "yes" /\ inFlight' = "no"
    BY <1>2, <2>4, OwnerIs, NextOwnerIs
       DEF Ownership!Next, Ownership!Release
  <2>5. QED
    BY <1>2, <2>1, <2>2, <2>3, <2>4, StepMovesOwnership
<1>3. UNCHANGED vars => Owner' = Owner
  BY DEF vars, Owner, OwnsCall, OwnsTimer
<1>4. IInv /\ IInv' /\ [Next]_vars => [Ownership!Next]_Owner
  BY <1>2, <1>3
<1>5. QED
  BY <1>1, <1>4, ManagerInvariant, PTL
     DEF Spec, OwnershipSpec, Ownership!Spec, Ownership!Init
=============================================================================
